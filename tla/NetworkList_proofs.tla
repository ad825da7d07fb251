------------------------- MODULE NetworkList_proofs -------------------------
(***************************************************************************)
(* Proofs about NetworkList, for any set of networks and any number of     *)
(* activations in flight.                                                  *)
(***************************************************************************)
EXTENDS MCNetworkList, SequenceTheorems, WellFoundedInduction, TLAPS

\* Nothing is refreshed before there is a device: its connections are watched,
\* rows are shown and clicked only afterwards.
DeviceFirst == watched \/ rows.aps # {} \/ calls > 0 => device

\* The inductive invariant.  OneTimer is not inductive without DeviceFirst, and
\* TypeOK not without OneTimer: the id of a new timer is one that is free.
IInv == TypeOK /\ DeviceFirst /\ OneTimer /\ BeginsOnce

\* Whatever timer ran, and whether one did, a refresh leaves one timer, the one
\* whose id it stored.
LEMMA TimerLemma ==
    ASSUME NEW ran, ran \subseteq armed, TypeOK, OneTimer, start_periodic_refresh(ran)
    PROVE  refresh_timeout_id' \in SourceIds /\ armed' = {refresh_timeout_id'}
<1>1. armed \ (ran \union {refresh_timeout_id}) = {}
  BY DEF OneTimer
<1>2. \E id \in SourceIds : id \notin {}
  BY DEF SourceIds
<1>3. QED
  BY <1>1, <1>2 DEF start_periodic_refresh

\* Filling the list keeps the types and the count of activations.
LEMMA ShowLemma ==
    ASSUME NEW n \in Networks, TypeOK, BeginsOnce, Show(n)
    PROVE  /\ rows' = n /\ indicator' \in Indicators
           /\ subpage' \in BOOLEAN /\ activations' \in Nat
           /\ BeginsOnce'
<1>1. rows' = n /\ indicator' \in Indicators
  BY DEF Show, Marked, Indicators
<1>2. subpage' \in BOOLEAN /\ activations' \in Nat /\ BeginsOnce'
  <2>1. pt_page_switch_to_subpage \/ UNCHANGED <<subpage, activations>>
    BY DEF Show
  <2>2. activations = IF subpage THEN 1 ELSE 0
    BY DEF BeginsOnce
  <2>3. CASE UNCHANGED <<subpage, activations>>
    BY <2>3 DEF TypeOK, BeginsOnce
  <2>4. CASE pt_page_switch_to_subpage
    <3>1. subpage' = TRUE /\ activations' = 1
      BY <2>2, <2>4 DEF pt_page_switch_to_subpage
    <3>2. QED
      BY <3>1 DEF BeginsOnce
  <2>5. QED
    BY <2>1, <2>3, <2>4
<1>3. QED
  BY <1>1, <1>2

\* A refresh of the list of a device, in or out of sight, keeps the invariant,
\* when the rest of its handler keeps the types.
LEMMA RefreshLemma ==
    ASSUME IInv, NEW ran, ran \subseteq armed, NEW n \in Networks,
           refresh_wireless_list(ran, n), device' = TRUE,
           looked' \in BOOLEAN, watched' \in BOOLEAN, network' \in Networks,
           in_bounds' \in BOOLEAN, calls' \in 0..MaxCalls
    PROVE  IInv'
<1>1. refresh_timeout_id' \in SourceIds /\ armed' = {refresh_timeout_id'}
  BY TimerLemma DEF IInv, refresh_wireless_list
<1>2. /\ rows' \in Networks /\ indicator' \in Indicators
      /\ subpage' \in BOOLEAN /\ activations' \in Nat
      /\ BeginsOnce'
  <2>1. CASE UNCHANGED page
    BY <2>1 DEF page, IInv, TypeOK, BeginsOnce, Marked
  <2>2. CASE Show(n)
    BY <2>2, ShowLemma DEF IInv
  <2>3. QED
    BY <2>1, <2>2 DEF refresh_wireless_list
<1>3. TypeOK'
  BY <1>1, <1>2 DEF TypeOK
<1>4. DeviceFirst' /\ OneTimer'
  BY <1>1 DEF DeviceFirst, OneTimer
<1>5. QED
  BY <1>2, <1>3, <1>4 DEF IInv

\* A step that leaves the page and its timer alone keeps the invariant.
LEMMA ElsewhereLemma ==
    ASSUME IInv, UNCHANGED <<timer, page, device>>, DeviceFirst',
           looked' \in BOOLEAN, watched' \in BOOLEAN, network' \in Networks,
           in_bounds' \in BOOLEAN, calls' \in 0..MaxCalls
    PROVE  IInv'
BY DEF IInv, TypeOK, OneTimer, BeginsOnce, Marked, timer, page

LEMMA InitIInv == Init => IInv
<1> SUFFICES ASSUME Init PROVE IInv
  OBVIOUS
<1>1. NoRows \in Networks
  BY DEF NoRows, Networks, States
<1>2. TypeOK
  <2>1. 0 \in 0..MaxCalls /\ {} \subseteq SourceIds
    BY CallsAssumption
  <2>2. QED
    BY <1>1, <2>1 DEF Init, TypeOK, Indicators
<1>3. DeviceFirst /\ OneTimer /\ BeginsOnce
  BY DEF Init, DeviceFirst, OneTimer, BeginsOnce, Marked, NoRows
<1>4. QED
  BY <1>2, <1>3 DEF IInv

LEMMA NextIInv == IInv /\ [Next]_vars => IInv'
<1> SUFFICES ASSUME IInv, [Next]_vars PROVE IInv'
  OBVIOUS
<1>0. TypeOK /\ DeviceFirst /\ OneTimer
  BY DEF IInv
<1>1. CASE refresh_again
  <2>1. PICK id \in armed : refresh_wireless_list({id}, network)
    BY <1>1 DEF refresh_again
  <2>2. device
    BY <1>0, <2>1 DEF OneTimer
  <2>3. QED
    BY <1>0, <1>1, <2>1, <2>2, RefreshLemma DEF refresh_again, TypeOK
<1>2. CASE find_best_device
  <2>1. CASE device' = TRUE /\ refresh_wireless_list({}, network)
    BY <1>0, <1>2, <2>1, RefreshLemma DEF find_best_device, TypeOK
  <2>2. CASE UNCHANGED <<device, page, timer>>
    BY <1>0, <1>2, <2>2, ElsewhereLemma DEF find_best_device, TypeOK, DeviceFirst, page
  <2>3. QED
    BY <1>2, <2>1, <2>2 DEF find_best_device
<1>3. CASE AccessPointsChanged
  BY <1>0, <1>3, ElsewhereLemma DEF AccessPointsChanged, TypeOK, DeviceFirst, page
<1>4. CASE device_state_changed
  <2>1. network' \in Networks
    BY <1>0, <1>4 DEF device_state_changed, TypeOK, Networks
  <2>2. CASE device
    BY <1>0, <1>4, <2>1, <2>2, RefreshLemma DEF device_state_changed, TypeOK
  <2>3. CASE ~device
    BY <1>0, <1>4, <2>1, <2>3, ElsewhereLemma
       DEF device_state_changed, TypeOK, DeviceFirst, page
  <2>4. QED
    BY <2>2, <2>3
<1>5. CASE active_connections_changed
  BY <1>0, <1>5, ElsewhereLemma DEF active_connections_changed, TypeOK, DeviceFirst, page
<1>6. CASE connection_state_changed
  BY <1>0, <1>6, RefreshLemma DEF connection_state_changed, TypeOK, DeviceFirst
<1>7. CASE Move
  BY <1>0, <1>7, ElsewhereLemma DEF Move, TypeOK, DeviceFirst, page
<1>8. CASE row_activated
  <2>1. device /\ calls \in 0..MaxCalls
    BY <1>0, <1>8 DEF row_activated, DeviceFirst, TypeOK
  <2>2. CASE refresh_wireless_list({}, network) /\ UNCHANGED calls
    BY <1>0, <1>8, <2>1, <2>2, RefreshLemma DEF row_activated, TypeOK
  <2>3. CASE calls < MaxCalls /\ calls' = calls + 1 /\ UNCHANGED <<timer, page>>
    <3>1. calls' \in 0..MaxCalls
      BY <2>1, <2>3, CallsAssumption
    <3>2. QED
      BY <1>0, <1>8, <2>1, <2>3, <3>1, ElsewhereLemma DEF row_activated, TypeOK, DeviceFirst
  <2>4. QED
    BY <1>8, <2>2, <2>3 DEF row_activated
<1>9. CASE connection_activate_cb
  <2>1. device /\ calls' \in 0..MaxCalls
    BY <1>0, <1>9, CallsAssumption DEF connection_activate_cb, DeviceFirst, TypeOK
  <2>2. QED
    BY <1>0, <1>9, <2>1, RefreshLemma DEF connection_activate_cb, TypeOK
<1>10. CASE UNCHANGED vars
  BY <1>0, <1>10, ElsewhereLemma DEF vars, TypeOK, DeviceFirst, page
<1>11. QED
  BY <1>1, <1>2, <1>3, <1>4, <1>5, <1>6, <1>7, <1>8, <1>9, <1>10 DEF Next

THEOREM ListInvariant == Spec => []IInv
<1>1. QED BY InitIInv, NextIInv, PTL DEF Spec

\* The variables stay in their types, for any networks and calls.
THEOREM ListTypes == Spec => []TypeOK
<1>1. IInv => TypeOK
  BY DEF IInv
<1>2. QED BY <1>1, ListInvariant, PTL

\* refresh_again leaves the id of the timer that ran out for the refresh to
\* cancel, and still the list never has two timers nor loses its last one.
THEOREM OneTimerHolds == Spec => []OneTimer
<1>1. IInv => OneTimer
  BY DEF IInv
<1>2. QED BY <1>1, ListInvariant, PTL

\* However often the list is refreshed with a connection, the page begins the
\* update once.
THEOREM BeginsOnceHolds == Spec => []BeginsOnce
<1>1. IInv => BeginsOnce
  BY DEF IInv
<1>2. QED BY <1>1, ListInvariant, PTL

-----------------------------------------------------------------------------
(* Numbers and sequences.                                                  *)

\* Sets of numbers have a least member; the number is found without induction,
\* as the minimum of a well-founded relation.
LEMMA LeastNat ==
    ASSUME NEW T, T \subseteq Nat, T # {}
    PROVE  \E x \in T : \A y \in T : x <= y
<1>1. IsWellFoundedOn(OpToRel(<, Nat), Nat)
  BY NatLessThanWellFounded
<1>2. PICK x \in T : \A y \in T : ~(<<y, x>> \in OpToRel(<, Nat))
  BY <1>1, WFMin
<1>3. \A y \in T : ~(y < x)
  BY <1>2 DEF OpToRel
<1>4. QED
  BY <1>3

LEMMA MinLemma ==
    ASSUME NEW T, T \subseteq Nat, T # {}
    PROVE  Min(T) \in T /\ \A y \in T : Min(T) <= y
BY LeastNat DEF Min

\* So do sets of numbers up to m have a greatest.
LEMMA MaxLemma ==
    ASSUME NEW m \in Nat, NEW T, T \subseteq 1..m, T # {}
    PROVE  Max(T) \in T /\ \A y \in T : y <= Max(T)
<1> DEFINE D == {m - x : x \in T}
<1>1. D \subseteq Nat /\ D # {}
  <2>1. \A x \in T : m - x \in Nat
    OBVIOUS
  <2>2. PICK x \in T : TRUE
    OBVIOUS
  <2>3. m - x \in D
    OBVIOUS
  <2>4. QED
    BY <2>1, <2>3
<1>2. \A x \in T : m - x \in D
  OBVIOUS
<1>3. \A d \in D : \E x \in T : d = m - x
  OBVIOUS
<1> HIDE DEF D
<1>4. PICK d \in D : \A y \in D : d <= y
  BY <1>1, LeastNat
<1>5. PICK x \in T : d = m - x
  BY <1>3
<1>6. \A y \in T : y <= x
  BY <1>2, <1>4, <1>5
<1>7. QED
  BY <1>6 DEF Max

\* Induction up to n, with a set in the place of a predicate.
LEMMA UpTo ==
    ASSUME NEW n \in Nat, NEW T, 0 \in T,
           \A k \in 1..n : k - 1 \in T => k \in T
    PROVE  \A k \in 0..n : k \in T
<1> DEFINE D == (0..n) \ T
<1> SUFFICES ASSUME D # {} PROVE FALSE
  OBVIOUS
<1>1. D \subseteq Nat
  OBVIOUS
<1> HIDE DEF D
<1>2. PICK x \in D : \A y \in D : x <= y
  BY <1>1, LeastNat
<1>3. x \in 1..n /\ x - 1 \in 0..n /\ ~(x <= x - 1)
  BY <1>2 DEF D
<1>4. x - 1 \in T /\ x \notin T
  BY <1>2, <1>3 DEF D
<1>5. QED
  BY <1>3, <1>4

\* What InsertAt makes of a sequence.
LEMMA InsertLemma ==
    ASSUME NEW S, NEW list \in Seq(S), NEW e \in S, NEW p \in 1..(Len(list) + 1)
    PROVE  /\ InsertAt(list, p, e) \in Seq(S)
           /\ Len(InsertAt(list, p, e)) = Len(list) + 1
           /\ \A k \in 1..(Len(list) + 1) :
                 InsertAt(list, p, e)[k] = IF k < p THEN list[k] ELSE IF k = p THEN e ELSE list[k - 1]
<1> DEFINE front == SubSeq(list, 1, p - 1)
           back == SubSeq(list, p, Len(list))
<1>0. Len(list) \in Nat /\ p \in Int
  OBVIOUS
<1>1. front \in Seq(S) /\ Len(front) = p - 1 /\ \A k \in 1..(p - 1) : front[k] = list[k]
  BY SubSeqProperties, SMT
<1>2. back \in Seq(S) /\ Len(back) = Len(list) - p + 1
      /\ \A k \in 1..(Len(list) - p + 1) : back[k] = list[p + k - 1]
  BY SubSeqProperties, SMT
<1> HIDE DEF front, back
<1>3. InsertAt(list, p, e) = front \o <<e>> \o back
  BY DEF InsertAt, front, back
<1>4. front \o <<e>> \in Seq(S) /\ Len(front \o <<e>>) = p
      /\ \A k \in 1..p : (front \o <<e>>)[k] = IF k < p THEN list[k] ELSE e
  BY <1>1
<1> DEFINE head == front \o <<e>>
<1> HIDE DEF head
<1>5. head \in Seq(S) /\ Len(head) = p
      /\ \A k \in 1..p : head[k] = IF k < p THEN list[k] ELSE e
  BY <1>4 DEF head
<1> DEFINE whole == head \o back
<1>6. /\ whole \in Seq(S) /\ Len(whole) = Len(head) + Len(back)
      /\ \A k \in 1..(Len(head) + Len(back)) :
            whole[k] = IF k <= Len(head) THEN head[k] ELSE back[k - Len(head)]
  BY <1>2, <1>5, ConcatProperties
<1> HIDE DEF whole
<1>7. ASSUME NEW k \in 1..(Len(list) + 1)
      PROVE  whole[k] = IF k < p THEN list[k] ELSE IF k = p THEN e ELSE list[k - 1]
  <2>1. CASE k <= p
    BY <1>0, <1>5, <1>6, <1>2, <2>1
  <2>2. CASE k > p
    <3>1. k - p \in 1..(Len(list) - p + 1) /\ p + (k - p) - 1 = k - 1
      BY <1>0, <2>2
    <3>2. back[k - p] = list[k - 1]
      BY <1>2, <3>1
    <3>3. k \in 1..(Len(head) + Len(back)) /\ ~(k <= Len(head)) /\ k - Len(head) = k - p
      BY <1>0, <1>2, <1>5, <2>2
    <3>4. whole[k] = back[k - p]
      BY <1>6, <3>3
    <3>5. ~(k < p) /\ k # p
      BY <1>0, <2>2
    <3>6. QED
      BY <3>2, <3>4, <3>5
  <2>3. QED
    BY <1>0, <2>1, <2>2
<1>8. InsertAt(list, p, e) = whole
  BY <1>3 DEF whole, head
<1>9. Len(whole) = Len(list) + 1
  BY <1>0, <1>2, <1>5, <1>6
<1>10. QED
  BY <1>6, <1>7, <1>8, <1>9

LEMMA GreatestLemma ==
    ASSUME NEW m \in Nat, NEW T, T \subseteq 1..m, m \in T
    PROVE  Max(T) = m
<1>1. Max(T) \in T /\ m <= Max(T)
  BY MaxLemma
<1>2. Max(T) \in 1..m
  BY <1>1
<1>3. QED
  BY <1>1, <1>2

-----------------------------------------------------------------------------
(* Folding a sequence from the left.                                       *)

\* The recursive function of FoldLeft, with G[x][k] for what the step at k makes
\* of x.
Folds(n, base, G, g) ==
    \A s \in SUBSET (1..n) : g[s] = IF s = {} THEN base ELSE G[g[s \ {Max(s)}]][Max(s)]

Foldable(n, S, base, G) == \E g \in [SUBSET (1..n) -> S] : Folds(n, base, G, g)

LEMMA FoldLemma ==
    ASSUME NEW n \in Nat, NEW S, NEW base \in S, NEW G \in [S -> [1..n -> S]]
    PROVE  Foldable(n, S, base, G)
<1> DEFINE T == {m \in 0..n : Foldable(m, S, base, G)}
<1>1. 0 \in T
  <2> DEFINE g == [s \in SUBSET (1..0) |-> base]
  <2>1. SUBSET (1..0) = {{}}
    OBVIOUS
  <2>2. g \in [SUBSET (1..0) -> S]
    OBVIOUS
  <2>3. Folds(0, base, G, g)
    BY <2>1 DEF Folds
  <2>4. QED
    BY <2>2, <2>3 DEF Foldable
<1>2. ASSUME NEW m \in 1..n, m - 1 \in T PROVE m \in T
  <2> DEFINE Below == SUBSET (1..(m - 1))
             All   == SUBSET (1..m)
  <2>1. PICK g \in [Below -> S] : Folds(m - 1, base, G, g)
    BY <1>2 DEF Foldable
  <2> DEFINE h == [s \in All |-> IF m \in s THEN G[g[s \ {m}]][m] ELSE g[s]]
  <2>2. ASSUME NEW s \in All
        PROVE  /\ m \notin s => s \in Below
               /\ m \in s => s \ {m} \in Below /\ s # {} /\ Max(s) = m
               /\ s # {} => Max(s) \in s /\ s \ {Max(s)} \in All
    <3>1. m \notin s => s \in Below
      <4>1. \A y \in 1..m : y # m => y \in 1..(m - 1)
        OBVIOUS
      <4>2. QED
        BY <4>1
    <3>2. m \in s => s \ {m} \in Below /\ s # {}
      <4>1. \A y \in 1..m : y # m => y \in 1..(m - 1)
        OBVIOUS
      <4>2. QED
        BY <4>1
    <3>3. s # {} => Max(s) \in s /\ \A y \in s : y <= Max(s)
      <4>1. m \in Nat /\ s \subseteq 1..m
        OBVIOUS
      <4>2. QED
        BY <4>1, MaxLemma
    <3>4. m \in s => Max(s) = m
      <4>1. m \in Nat /\ s \subseteq 1..m
        OBVIOUS
      <4>2. QED
        BY <4>1, GreatestLemma
    <3>5. QED
      BY <3>1, <3>2, <3>3, <3>4
  <2>3. ASSUME NEW s \in Below PROVE s \in All /\ m \notin s /\ h[s] = g[s]
    <3>1. s \in All /\ m \notin s
      OBVIOUS
    <3>2. QED
      BY <3>1
  <2>4. h \in [All -> S]
    <3>1. ASSUME NEW s \in All PROVE (IF m \in s THEN G[g[s \ {m}]][m] ELSE g[s]) \in S
      BY <2>1, <2>2
    <3>2. QED
      BY <3>1
  <2>5. ASSUME NEW s \in All PROVE h[s] = IF s = {} THEN base ELSE G[h[s \ {Max(s)}]][Max(s)]
    <3>1. h[s] = IF m \in s THEN G[g[s \ {m}]][m] ELSE g[s]
      OBVIOUS
    <3> HIDE DEF h, All
    <3>2. CASE m \in s
      <4>1. s # {} /\ Max(s) = m /\ s \ {m} \in Below
        BY <2>2, <3>2
      <4>2. h[s \ {m}] = g[s \ {m}]
        BY <2>3, <4>1
      <4>3. QED
        BY <3>1, <3>2, <4>1, <4>2
    <3>3. CASE m \notin s /\ s = {}
      <4>1. s \in SUBSET (1..(m - 1))
        BY <3>3
      <4>2. g[s] = base
        BY <2>1, <3>3, <4>1 DEF Folds
      <4>3. QED
        BY <3>1, <3>3, <4>2
    <3>4. CASE m \notin s /\ s # {}
      <4>1. s \in SUBSET (1..(m - 1)) /\ s \ {Max(s)} \in SUBSET (1..(m - 1))
        BY <2>2, <3>4
      <4>2. g[s] = G[g[s \ {Max(s)}]][Max(s)]
        BY <2>1, <3>4, <4>1 DEF Folds
      <4>3. h[s \ {Max(s)}] = g[s \ {Max(s)}]
        BY <2>3, <4>1
      <4>4. QED
        BY <3>1, <3>4, <4>2, <4>3
    <3>5. QED
      BY <3>2, <3>3, <3>4
  <2> HIDE DEF h
  <2>6. Foldable(m, S, base, G)
    BY <2>4, <2>5 DEF Foldable, Folds
  <2>7. QED
    BY <2>6
<1> HIDE DEF T
<1>3. \A k \in 0..n : k \in T
  BY <1>1, <1>2, UpTo
<1>4. QED
  BY <1>3 DEF T

\* What is folded over the first k is the step at k after what is folded over
\* the first k - 1.
LEMMA SegmentLemma ==
    ASSUME NEW n \in Nat
    PROVE  /\ 1..0 = {}
           /\ \A k \in 1..n : /\ 1..k \in SUBSET (1..n) /\ 1..k # {}
                              /\ Max(1..k) = k /\ (1..k) \ {k} = 1..(k - 1)
<1>1. ASSUME NEW k \in 1..n PROVE Max(1..k) = k
  <2>1. k \in Nat /\ 1..k \subseteq 1..k /\ k \in 1..k
    OBVIOUS
  <2>2. QED
    BY <2>1, GreatestLemma
<1>2. QED
  BY <1>1

-----------------------------------------------------------------------------
(* One access point of each SSID.                                          *)

\* Access points, of which all are weaker than the key of a marked row.
Aps == [id : Nat, ssid : Ssids \union {Hidden}, strength : 0..(Foremost - 1)]

LEMMA ApLemma ==
    ASSUME NEW ap \in Aps
    PROVE  ap.strength \in Nat /\ ap.strength < Foremost
<1>1. Foremost = 255
  BY DEF Foremost
<1> HIDE DEF Foremost
<1>2. ap.strength \in 0..(Foremost - 1)
  BY DEF Aps
<1>3. QED
  BY <1>1, <1>2

\* What taking an element away and putting another one at the end makes of a
\* sequence.
LEMMA ReplaceLemma ==
    ASSUME NEW S, NEW u \in Seq(S), NEW p \in 1..Len(u), NEW e \in S
    PROVE  /\ Append(RemoveAt(u, p), e) \in Seq(S)
           /\ Len(Append(RemoveAt(u, p), e)) = Len(u)
           /\ \A k \in 1..Len(u) :
                 Append(RemoveAt(u, p), e)[k] =
                     IF k = Len(u) THEN e ELSE IF k < p THEN u[k] ELSE u[k + 1]
<1> DEFINE front == SubSeq(u, 1, p - 1)
           back  == SubSeq(u, p + 1, Len(u))
           n     == Len(u)
<1>1. n \in Nat /\ p \in 1..n
  OBVIOUS
<1>2. front \in Seq(S) /\ Len(front) = p - 1 /\ \A k \in 1..(p - 1) : front[k] = u[k]
  BY SubSeqProperties, SMT
<1>3. back \in Seq(S) /\ Len(back) = n - p /\ \A k \in 1..(n - p) : back[k] = u[p + k]
  <2>1. \A k \in (p + 1)..Len(u) : u[k] \in S
    BY ElementOfSeq
  <2>2. /\ back \in Seq(S)
        /\ Len(back) = IF p + 1 <= Len(u) THEN Len(u) - (p + 1) + 1 ELSE 0
        /\ \A k \in 1..Len(back) : back[k] = u[(p + 1) + k - 1]
    BY <2>1, SubSeqProperties
  <2>3. Len(back) = n - p
    BY <1>1, <2>2
  <2>4. \A k \in 1..(n - p) : (p + 1) + k - 1 = p + k
    BY <1>1
  <2>5. QED
    BY <2>2, <2>3, <2>4
<1> DEFINE rest == front \o back
<1> HIDE DEF front, back, n
<1>4. /\ rest \in Seq(S) /\ Len(rest) = n - 1
      /\ \A k \in 1..(n - 1) : rest[k] = IF k < p THEN u[k] ELSE u[k + 1]
  <2>1. /\ rest \in Seq(S) /\ Len(rest) = Len(front) + Len(back)
        /\ \A k \in 1..(Len(front) + Len(back)) :
              rest[k] = IF k <= Len(front) THEN front[k] ELSE back[k - Len(front)]
    BY <1>2, <1>3, ConcatProperties
  <2> HIDE DEF rest
  <2>2. Len(front) + Len(back) = n - 1 /\ Len(front) = p - 1
    BY <1>1, <1>2, <1>3
  <2>3. ASSUME NEW k \in 1..(n - 1) PROVE rest[k] = IF k < p THEN u[k] ELSE u[k + 1]
    <3>1. CASE k < p
      <4>1. k \in 1..(p - 1) /\ k <= Len(front)
        BY <1>1, <2>2, <3>1
      <4>2. QED
        BY <1>2, <2>1, <2>2, <3>1, <4>1
    <3>2. CASE ~(k < p)
      <4>1. ~(k <= Len(front)) /\ k - Len(front) \in 1..(n - p) /\ p + (k - Len(front)) = k + 1
        BY <1>1, <2>2, <3>2
      <4>2. back[k - Len(front)] = u[k + 1]
        BY <1>3, <4>1
      <4>3. QED
        BY <2>1, <2>2, <3>2, <4>1, <4>2
    <3>3. QED
      BY <3>1, <3>2
  <2>4. QED
    BY <2>1, <2>2, <2>3
<1>5. RemoveAt(u, p) = rest
  BY DEF RemoveAt, rest, front, back
<1> HIDE DEF rest
<1>6. /\ Append(rest, e) \in Seq(S) /\ Len(Append(rest, e)) = n
      /\ \A k \in 1..n : Append(rest, e)[k] = IF k = n THEN e ELSE rest[k]
  <2>1. /\ Append(rest, e) \in Seq(S) /\ Len(Append(rest, e)) = Len(rest) + 1
        /\ \A k \in 1..Len(rest) : Append(rest, e)[k] = rest[k]
        /\ Append(rest, e)[Len(rest) + 1] = e
    BY <1>4, AppendProperties
  <2>2. Len(rest) + 1 = n /\ \A k \in 1..n : k # n => k \in 1..Len(rest)
    BY <1>1, <1>4
  <2>3. QED
    BY <2>1, <2>2
<1>7. \A k \in 1..n : k # n => k \in 1..(n - 1)
  BY <1>1
<1>8. QED
  BY <1>4, <1>5, <1>6, <1>7 DEF n

\* Of the first k access points, i is the one to be shown of its SSID.
Best(aps, k, i) ==
    /\ aps[i].ssid # Hidden
    /\ \A j \in 1..k : aps[j].ssid = aps[i].ssid =>
          \/ aps[j].strength < aps[i].strength
          \/ aps[j].strength = aps[i].strength /\ i <= j

\* u has the best of the first k, one of each SSID.
Unique(aps, k, u) ==
    /\ u \in Seq(Aps)
    /\ \A m \in DOMAIN u : \E i \in 1..k : u[m] = aps[i] /\ Best(aps, k, i)
    /\ \A i \in 1..k : aps[i].ssid # Hidden => \E m \in DOMAIN u : u[m].ssid = aps[i].ssid
    /\ \A m, n \in DOMAIN u : m # n => u[m].ssid # u[n].ssid

LEMMA BestLemma ==
    ASSUME NEW aps \in Seq(Aps), NEW k \in 1..Len(aps), NEW i \in 1..(k - 1), Best(aps, k - 1, i),
           aps[k].ssid = aps[i].ssid => aps[k].strength <= aps[i].strength
    PROVE  i \in 1..k /\ Best(aps, k, i)
<1>1. aps[k].strength \in Nat /\ aps[i].strength \in Nat
  <2>1. aps[k] \in Aps /\ aps[i] \in Aps
    BY ElementOfSeq
  <2>2. QED
    BY <2>1, ApLemma
<1>2. \A j \in 1..k : j = k \/ j \in 1..(k - 1)
  OBVIOUS
<1>3. i <= k
  OBVIOUS
<1>4. QED
  BY <1>1, <1>2, <1>3 DEF Best

LEMMA AddLemma ==
    ASSUME NEW aps \in Seq(Aps), NEW k \in 1..Len(aps), NEW u, Unique(aps, k - 1, u)
    PROVE  Unique(aps, k, Add(u, aps[k]))
<1> DEFINE ap   == aps[k]
           same == {j \in DOMAIN u : u[j].ssid = ap.ssid}
<1>1. /\ u \in Seq(Aps) /\ ap \in Aps /\ k \in 1..k
      /\ \A i \in 1..k : aps[i] \in Aps /\ (i # k => i \in 1..(k - 1))
      /\ \A i \in 1..(k - 1) : i \in 1..k
      /\ DOMAIN u = 1..Len(u) /\ Len(u) \in Nat
  BY ElementOfSeq DEF Unique
<1>2. \A i \in 1..(k - 1) : aps[i].ssid # Hidden => \E m \in DOMAIN u : u[m].ssid = aps[i].ssid
  BY DEF Unique
<1>3. \A m, n \in DOMAIN u : m # n => u[m].ssid # u[n].ssid
  BY DEF Unique
<1>4. ASSUME NEW m \in DOMAIN u, u[m].ssid = ap.ssid => ap.strength <= u[m].strength
      PROVE  \E i \in 1..k : u[m] = aps[i] /\ Best(aps, k, i)
  <2>1. PICK i \in 1..(k - 1) : u[m] = aps[i] /\ Best(aps, k - 1, i)
    BY DEF Unique
  <2>2. i \in 1..k /\ Best(aps, k, i)
    BY <1>4, <2>1, BestLemma
  <2>3. QED
    BY <2>1, <2>2
<1>5. CASE ap.ssid = Hidden
  <2>1. Add(u, ap) = u
    BY <1>5 DEF Add
  <2>2. ASSUME NEW m \in DOMAIN u PROVE u[m].ssid # ap.ssid
    <3>1. PICK i \in 1..(k - 1) : u[m] = aps[i] /\ Best(aps, k - 1, i)
      BY DEF Unique
    <3>2. QED
      BY <1>5, <3>1 DEF Best
  <2>3. QED
    BY <1>1, <1>2, <1>3, <1>4, <1>5, <2>1, <2>2 DEF Unique
<1>6. CASE ap.ssid # Hidden /\ same = {}
  <2> DEFINE v == Append(u, ap)
             N == Len(u)
  <2>1. Add(u, ap) = v
    BY <1>6 DEF Add
  <2>2. /\ v \in Seq(Aps) /\ DOMAIN v = 1..(N + 1) /\ v[N + 1] = ap
        /\ \A m \in 1..N : m \in 1..(N + 1) /\ v[m] = u[m]
        /\ N + 1 \in 1..(N + 1) /\ \A m \in 1..(N + 1) : m = N + 1 \/ m \in 1..N
    BY <1>1
  <2> HIDE DEF v, N
  <2>3. DOMAIN u = 1..N
    BY <1>1 DEF N
  <2>4. \A m \in 1..N : u[m].ssid # ap.ssid
    BY <1>6, <2>3
  <2>5. Best(aps, k, k)
    <3>1. \A j \in 1..(k - 1) : aps[j].ssid # ap.ssid
      BY <1>2, <1>6, <2>3, <2>4
    <3>2. QED
      BY <1>1, <1>6, <3>1 DEF Best
  <2>6. ASSUME NEW m \in 1..(N + 1) PROVE \E i \in 1..k : v[m] = aps[i] /\ Best(aps, k, i)
    <3>1. CASE m = N + 1
      BY <1>1, <2>2, <2>5, <3>1
    <3>2. CASE m \in 1..N
      BY <1>4, <2>2, <2>3, <2>4, <3>2
    <3>3. QED
      BY <2>2, <3>1, <3>2
  <2>7. ASSUME NEW i \in 1..k, aps[i].ssid # Hidden
        PROVE  \E m \in 1..(N + 1) : v[m].ssid = aps[i].ssid
    <3>1. CASE i = k
      BY <2>2, <3>1
    <3>2. CASE i # k
      BY <1>1, <1>2, <2>2, <2>3, <2>7, <3>2
    <3>3. QED
      BY <3>1, <3>2
  <2>8. ASSUME NEW m \in 1..(N + 1), NEW n \in 1..(N + 1), m # n PROVE v[m].ssid # v[n].ssid
    <3>1. CASE m \in 1..N /\ n \in 1..N
      BY <1>3, <2>2, <2>3, <2>8, <3>1
    <3>2. CASE m = N + 1 /\ n \in 1..N
      BY <2>2, <2>4, <3>2
    <3>3. CASE n = N + 1 /\ m \in 1..N
      BY <2>2, <2>4, <3>3
    <3>4. QED
      BY <2>2, <2>8, <3>1, <3>2, <3>3
  <2>9. Unique(aps, k, v)
    BY <2>2, <2>6, <2>7, <2>8 DEF Unique
  <2>10. QED
    BY <2>1, <2>9
<1>7. CASE ap.ssid # Hidden /\ same # {}
  <2> DEFINE p == Min(same)
             N == Len(u)
  <2>1. p \in same /\ DOMAIN u = 1..N /\ N \in Nat
    <3>1. same \subseteq Nat
      BY <1>1
    <3> HIDE DEF same
    <3>2. QED
      BY <1>1, <1>7, <3>1, MinLemma
  <2>2. p \in 1..N /\ u[p].ssid = ap.ssid
    BY <2>1
  <2>3. Add(u, ap) = IF ap.strength > u[p].strength THEN Append(RemoveAt(u, p), ap) ELSE u
    BY <1>7 DEF Add
  <2> HIDE DEF p, N, same
  <2>4. PICK b \in 1..(k - 1) : u[p] = aps[b] /\ Best(aps, k - 1, b)
    BY <2>1, <2>2 DEF Unique
  <2>5. ap.strength \in Nat /\ u[p].strength \in Nat /\ \A i \in 1..k : aps[i].strength \in Nat
    BY <1>1, <2>4, ApLemma
  <2>6. \A m \in 1..N : m # p => u[m].ssid # ap.ssid
    BY <1>3, <2>1, <2>2
  <2>7. CASE ~(ap.strength > u[p].strength)
    <3>1. \A m \in 1..N : u[m].ssid = ap.ssid => ap.strength <= u[m].strength
      BY <2>5, <2>6, <2>7
    <3>2. ASSUME NEW i \in 1..k, aps[i].ssid # Hidden
          PROVE  \E m \in DOMAIN u : u[m].ssid = aps[i].ssid
      <4>1. CASE i = k
        BY <2>1, <2>2, <4>1
      <4>2. CASE i # k
        BY <1>1, <1>2, <3>2, <4>2
      <4>3. QED
        BY <4>1, <4>2
    <3>3. ASSUME NEW m \in DOMAIN u PROVE \E i \in 1..k : u[m] = aps[i] /\ Best(aps, k, i)
      BY <1>4, <2>1, <3>1
    <3>4. Unique(aps, k, u)
      BY <1>1, <1>3, <3>2, <3>3 DEF Unique
    <3>5. QED
      BY <2>3, <2>7, <3>4
  <2>8. CASE ap.strength > u[p].strength
    <3> DEFINE v == Append(RemoveAt(u, p), ap)
               Old(m) == IF m < p THEN m ELSE m + 1
    <3>1. /\ v \in Seq(Aps) /\ Len(v) = N
          /\ \A m \in 1..N : v[m] = IF m = N THEN ap ELSE IF m < p THEN u[m] ELSE u[m + 1]
      <4>1. u \in Seq(Aps) /\ p \in 1..Len(u) /\ ap \in Aps
        BY <1>1, <2>2 DEF N
      <4> HIDE DEF ap
      <4>2. /\ v \in Seq(Aps) /\ Len(v) = Len(u)
            /\ \A m \in 1..Len(u) :
                  v[m] = IF m = Len(u) THEN ap ELSE IF m < p THEN u[m] ELSE u[m + 1]
        BY <4>1, ReplaceLemma
      <4> HIDE DEF v
      <4>3. QED
        BY <4>2 DEF N
    <3>2. DOMAIN v = 1..N
      BY <3>1
    <3> HIDE DEF v
    <3>3. /\ \A m \in 1..N : m # N => Old(m) \in 1..N /\ Old(m) # p
          /\ \A m, n \in 1..N : m # n => Old(m) # Old(n)
      BY <2>1, <2>2
    <3>4. N \in 1..N /\ v[N] = ap /\ \A m \in 1..N : m # N => v[m] = u[Old(m)]
      BY <2>1, <2>2, <3>1
    <3>5. \A q \in 1..N : q # p => \E m \in 1..N : m # N /\ Old(m) = q
      <4>1. SUFFICES ASSUME NEW q \in 1..N, q # p PROVE \E m \in 1..N : m # N /\ Old(m) = q
        OBVIOUS
      <4>2. CASE q < p
        BY <2>1, <2>2, <4>2
      <4>3. CASE q > p
        <5>1. q - 1 \in 1..N /\ q - 1 # N /\ ~(q - 1 < p) /\ (q - 1) + 1 = q
          BY <2>1, <2>2, <4>3
        <5>2. Old(q - 1) = q
          BY <5>1
        <5>3. QED
          BY <5>1, <5>2
      <4>4. QED
        BY <2>1, <2>2, <4>1, <4>2, <4>3
    <3> HIDE DEF Old
    <3>6. Best(aps, k, k)
      <4>1. ASSUME NEW j \in 1..(k - 1), aps[j].ssid = ap.ssid PROVE aps[j].strength < ap.strength
        <5>1. aps[j].strength <= aps[b].strength
          BY <1>1, <2>2, <2>4, <2>5, <4>1 DEF Best
        <5>2. QED
          BY <1>1, <2>4, <2>5, <2>8, <5>1
      <4>2. QED
        BY <1>1, <1>7, <4>1 DEF Best
    <3>7. ASSUME NEW m \in 1..N PROVE \E i \in 1..k : v[m] = aps[i] /\ Best(aps, k, i)
      <4>1. CASE m = N
        BY <1>1, <3>4, <3>6, <4>1
      <4>2. CASE m # N
        <5>1. Old(m) \in DOMAIN u /\ u[Old(m)].ssid # ap.ssid /\ v[m] = u[Old(m)]
          BY <2>1, <2>6, <3>3, <3>4, <4>2
        <5>2. \E i \in 1..k : u[Old(m)] = aps[i] /\ Best(aps, k, i)
          BY <1>4, <5>1
        <5>3. QED
          BY <5>1, <5>2
      <4>3. QED
        BY <4>1, <4>2
    <3>8. ASSUME NEW i \in 1..k, aps[i].ssid # Hidden
          PROVE  \E m \in 1..N : v[m].ssid = aps[i].ssid
      <4>1. CASE aps[i].ssid = ap.ssid
        BY <3>4, <4>1
      <4>2. CASE aps[i].ssid # ap.ssid
        <5>1. PICK q \in 1..N : u[q].ssid = aps[i].ssid
          BY <1>1, <1>2, <2>1, <3>8, <4>2
        <5>2. q # p
          BY <2>2, <4>2, <5>1
        <5>3. QED
          BY <3>4, <3>5, <5>1, <5>2
      <4>3. QED
        BY <4>1, <4>2
    <3>9. ASSUME NEW m \in 1..N, NEW n \in 1..N, m # n PROVE v[m].ssid # v[n].ssid
      <4>1. CASE m # N /\ n # N
        BY <1>3, <2>1, <3>3, <3>4, <3>9, <4>1
      <4>2. CASE m = N /\ n # N
        BY <2>6, <3>3, <3>4, <4>2
      <4>3. CASE m # N /\ n = N
        BY <2>6, <3>3, <3>4, <4>3
      <4>4. QED
        BY <3>9, <4>1, <4>2, <4>3
    <3>10. Unique(aps, k, v)
      BY <3>1, <3>2, <3>7, <3>8, <3>9 DEF Unique
    <3>11. QED
      BY <2>3, <2>8, <3>10 DEF v
  <2>9. QED
    BY <2>7, <2>8
<1>8. QED
  BY <1>5, <1>6, <1>7

\* Add can be folded over any access points.
LEMMA AddTypes ==
    ASSUME NEW u \in Seq(Aps), NEW ap \in Aps
    PROVE  Add(u, ap) \in Seq(Aps)
<1> DEFINE same == {j \in DOMAIN u : u[j].ssid = ap.ssid}
<1>1. CASE ap.ssid = Hidden
  BY <1>1 DEF Add
<1>2. CASE ap.ssid # Hidden /\ same = {}
  <2>1. Add(u, ap) = Append(u, ap)
    BY <1>2 DEF Add
  <2>2. QED
    BY <2>1, AppendProperties
<1>3. CASE ap.ssid # Hidden /\ same # {}
  <2> DEFINE p == Min(same)
  <2>1. p \in 1..Len(u)
    <3>1. same \subseteq 1..Len(u) /\ 1..Len(u) \subseteq Nat
      OBVIOUS
    <3> HIDE DEF same
    <3>2. QED
      BY <1>3, <3>1, MinLemma
  <2>2. Add(u, ap) = IF ap.strength > u[p].strength THEN Append(RemoveAt(u, p), ap) ELSE u
    BY <1>3 DEF Add
  <2> HIDE DEF p, same
  <2>3. QED
    BY <2>1, <2>2, ReplaceLemma
<1>4. QED
  BY <1>1, <1>2, <1>3

\* get_strongest_unique_aps ends with one access point of each SSID.
LEMMA UniqueLemma ==
    ASSUME NEW aps \in Seq(Aps)
    PROVE  Unique(aps, Len(aps), get_strongest_unique_aps(aps))
<1> DEFINE n    == Len(aps)
           none == <<>>
           S    == Seq(Aps)
           G    == [u \in S |-> [k \in 1..n |-> Add(u, aps[k])]]
           F(h) == [s \in SUBSET (1..n) |->
                       IF s = {} THEN none ELSE Add(h[s \ {Max(s)}], aps[Max(s)])]
           fold == CHOOSE h : h = F(h)
<1>1. n \in Nat /\ DOMAIN aps = 1..n /\ \A k \in 1..n : aps[k] \in Aps
  BY ElementOfSeq
<1>2. get_strongest_unique_aps(aps) = fold[1..n]
  BY <1>1 DEF get_strongest_unique_aps, FoldLeft, MapThenFoldSet
<1>3. none \in S
  BY EmptySeq
<1>4. \A u \in S, k \in 1..n : G[u][k] = Add(u, aps[k]) /\ G[u][k] \in S
  BY <1>1, AddTypes
<1>5. G \in [S -> [1..n -> S]]
  BY <1>1, AddTypes
<1> HIDE DEF n, none, S, G
<1>6. PICK g \in [SUBSET (1..n) -> S] : Folds(n, none, G, g)
  BY <1>1, <1>3, <1>5, FoldLemma DEF Foldable
<1>7. g = F(g)
  <2>1. ASSUME NEW s \in SUBSET (1..n)
        PROVE  g[s] = IF s = {} THEN none ELSE Add(g[s \ {Max(s)}], aps[Max(s)])
    <3>1. CASE s = {}
      BY <1>6, <3>1 DEF Folds
    <3>2. CASE s # {}
      <4>1. Max(s) \in 1..n /\ s \ {Max(s)} \in SUBSET (1..n)
        BY <1>1, <3>2, MaxLemma
      <4>2. g[s \ {Max(s)}] \in S
        BY <1>6, <4>1
      <4>3. g[s] = G[g[s \ {Max(s)}]][Max(s)]
        BY <1>6, <3>2 DEF Folds
      <4>4. QED
        BY <1>4, <3>2, <4>1, <4>2, <4>3
    <3>3. QED
      BY <3>1, <3>2
  <2>2. QED
    BY <1>6, <2>1
<1>8. fold = F(fold)
  BY <1>7
<1> HIDE DEF fold
<1>9. /\ fold[{}] = none
      /\ \A k \in 1..n : fold[1..k] = Add(fold[1..(k - 1)], aps[k])
  <2>1. \A s \in SUBSET (1..n) :
            fold[s] = IF s = {} THEN none ELSE Add(fold[s \ {Max(s)}], aps[Max(s)])
    BY <1>8
  <2>2. {} \in SUBSET (1..n)
    OBVIOUS
  <2>3. ASSUME NEW k \in 1..n PROVE fold[1..k] = Add(fold[1..(k - 1)], aps[k])
    <3>1. 1..k \in SUBSET (1..n) /\ 1..k # {} /\ Max(1..k) = k /\ (1..k) \ {k} = 1..(k - 1)
      BY <1>1, SegmentLemma
    <3>2. fold[1..k] = Add(fold[(1..k) \ {Max(1..k)}], aps[Max(1..k)])
      BY <2>1, <3>1
    <3>3. QED
      BY <3>1, <3>2
  <2>4. QED
    BY <2>1, <2>2, <2>3
<1> DEFINE T == {k \in 0..n : Unique(aps, k, fold[1..k])}
<1>10. 0 \in T
  <2>1. fold[1..0] = <<>>
    BY <1>1, <1>9, SegmentLemma DEF none
  <2>2. Unique(aps, 0, <<>>)
    BY EmptySeq DEF Unique
  <2>3. QED
    BY <1>1, <2>1, <2>2
<1>11. ASSUME NEW k \in 1..n, k - 1 \in T PROVE k \in T
  <2>1. Unique(aps, k - 1, fold[1..(k - 1)])
    BY <1>11
  <2>2. Unique(aps, k, Add(fold[1..(k - 1)], aps[k]))
    BY <2>1, AddLemma DEF n
  <2>3. k \in 0..n
    BY <1>1
  <2>4. QED
    BY <1>9, <2>2, <2>3
<1> HIDE DEF T
<1>12. \A k \in 0..n : k \in T
  BY <1>1, <1>10, <1>11, UpTo
<1>13. Unique(aps, n, fold[1..n])
  BY <1>1, <1>12 DEF T
<1>14. QED
  BY <1>2, <1>13 DEF n

-----------------------------------------------------------------------------
(* The rows.                                                               *)

\* a may stand before b.
Above(a, b) == Key(a) >= Key(b) /\ a.ap.ssid # b.ap.ssid

Ranked(list) == \A m, n \in DOMAIN list : m < n => Above(list[m], list[n])

\* The place of a new row: everything before it is as strong, the row there, if
\* there is one, is weaker.
LEMMA PlaceLemma ==
    ASSUME NEW R, NEW list \in Seq(R), NEW row \in R
    PROVE  \E p \in 1..(Len(list) + 1) :
              /\ Insert(list, row) = InsertAt(list, p, row)
              /\ \A k \in 1..Len(list) : k < p => ~(Key(list[k]) < Key(row))
              /\ p <= Len(list) => Key(list[p]) < Key(row)
<1> DEFINE N      == Len(list)
           Weaker == {i \in DOMAIN list : Key(list[i]) < Key(row)}
           Places == Weaker \union {N + 1}
           p      == Min(Places)
<1>1. N \in Nat /\ DOMAIN list = 1..N
  OBVIOUS
<1>2. Places \subseteq Nat /\ Places # {}
  BY <1>1
<1>3. p \in Places /\ \A y \in Places : p <= y
  <2> HIDE DEF Places
  <2>1. QED
    BY <1>2, MinLemma
<1>4. Insert(list, row) = InsertAt(list, p, row)
  BY DEF Insert
<1>5. \A k \in 1..N : Key(list[k]) < Key(row) => k \in Places
  BY <1>1
<1>6. p \in 1..(N + 1) /\ (p <= N => Key(list[p]) < Key(row))
  <2>1. \A y \in Places : y \in 1..(N + 1) /\ (y <= N => Key(list[y]) < Key(row))
    BY <1>1
  <2> HIDE DEF Places, p, N
  <2>2. QED
    BY <1>3, <2>1
<1> HIDE DEF Places, p
<1>7. \A k \in 1..N : k < p => ~(Key(list[k]) < Key(row))
  <2>1. SUFFICES ASSUME NEW k \in 1..N, k < p, Key(list[k]) < Key(row) PROVE FALSE
    OBVIOUS
  <2>2. p <= k
    BY <1>3, <1>5, <2>1
  <2>3. QED
    BY <1>1, <1>6, <2>1, <2>2
<1>8. QED
  BY <1>4, <1>6, <1>7

\* A row that is sorted into ranked rows leaves them ranked, and all there.
LEMMA SortInLemma ==
    ASSUME NEW R, \A r \in R : Key(r) \in Nat,
           NEW list \in Seq(R), Ranked(list), NEW row \in R,
           \A r \in ToSet(list) : r.ap.ssid # row.ap.ssid
    PROVE  /\ ToSet(Insert(list, row)) = ToSet(list) \union {row}
           /\ Ranked(Insert(list, row))
<1> DEFINE N   == Len(list)
           new == Insert(list, row)
<1>1. /\ N \in Nat /\ DOMAIN list = 1..N
      /\ \A k \in 1..N : list[k] \in R /\ list[k] \in ToSet(list) /\ Key(list[k]) \in Nat
      /\ Key(row) \in Nat
  BY ElementOfSeq DEF ToSet
<1>2. PICK p \in 1..(N + 1) :
          /\ new = InsertAt(list, p, row)
          /\ \A k \in 1..N : k < p => ~(Key(list[k]) < Key(row))
          /\ p <= N => Key(list[p]) < Key(row)
  BY PlaceLemma
<1>3. /\ InsertAt(list, p, row) \in Seq(R) /\ Len(InsertAt(list, p, row)) = Len(list) + 1
      /\ \A k \in 1..(Len(list) + 1) : InsertAt(list, p, row)[k] =
            IF k < p THEN list[k] ELSE IF k = p THEN row ELSE list[k - 1]
  BY InsertLemma
<1> HIDE DEF new, N
<1>4. /\ DOMAIN new = 1..(N + 1)
      /\ \A k \in 1..(N + 1) :
            new[k] = IF k < p THEN list[k] ELSE IF k = p THEN row ELSE list[k - 1]
  BY <1>2, <1>3, LenProperties DEF N
<1> DEFINE New(k) == IF k < p THEN k ELSE k + 1
<1>5. /\ \A k \in 1..N : New(k) \in 1..(N + 1) /\ new[New(k)] = list[k]
      /\ p \in 1..(N + 1) /\ new[p] = row
  <2>1. ASSUME NEW k \in 1..N PROVE New(k) \in 1..(N + 1) /\ new[New(k)] = list[k]
    <3>1. CASE k < p
      BY <1>1, <1>4, <3>1
    <3>2. CASE ~(k < p)
      <4>1. k + 1 \in 1..(N + 1) /\ ~(k + 1 < p) /\ k + 1 # p /\ (k + 1) - 1 = k /\ New(k) = k + 1
        BY <1>1, <1>2, <3>2
      <4>2. QED
        BY <1>4, <4>1
    <3>3. QED
      BY <3>1, <3>2
  <2>2. p \in 1..(N + 1) /\ ~(p < p)
    BY <1>1, <1>2
  <2>3. QED
    BY <1>4, <2>1, <2>2
<1>6. \A m \in 1..(N + 1) :
          m # p => \E k \in 1..N : m = New(k) /\ (m < p => k < p) /\ (m > p => ~(k < p))
  <2>1. SUFFICES ASSUME NEW m \in 1..(N + 1), m # p
                 PROVE  \E k \in 1..N : m = New(k) /\ (m < p => k < p) /\ (m > p => ~(k < p))
    OBVIOUS
  <2>2. CASE m < p
    <3>1. m \in 1..N /\ ~(m > p)
      BY <1>1, <1>2, <2>2
    <3>2. m = New(m)
      BY <2>2
    <3> HIDE DEF New
    <3>3. QED
      BY <2>2, <3>1, <3>2
  <2>3. CASE ~(m < p)
    <3>1. m - 1 \in 1..N /\ ~(m - 1 < p) /\ m = (m - 1) + 1
      BY <1>1, <1>2, <2>1, <2>3
    <3>2. m = New(m - 1)
      BY <3>1
    <3>3. QED
      BY <2>3, <3>1, <3>2
  <2>4. QED
    BY <2>2, <2>3
<1>7. \A k, l \in 1..N : New(k) < New(l) => k < l
  BY <1>1, <1>2
<1> HIDE DEF New
<1>8. ToSet(new) = ToSet(list) \union {row}
  <2>1. \A m \in 1..(N + 1) : new[m] = row \/ \E k \in 1..N : new[m] = list[k]
    BY <1>5, <1>6
  <2>2. \A k \in 1..N : list[k] \in ToSet(new)
    BY <1>4, <1>5 DEF ToSet
  <2>3. row \in ToSet(new)
    BY <1>4, <1>5 DEF ToSet
  <2>4. QED
    BY <1>1, <1>4, <2>1, <2>2, <2>3 DEF ToSet
<1>9. Ranked(new)
  <2>1. \A m, n \in 1..N : m < n => Above(list[m], list[n])
    BY <1>1 DEF Ranked
  <2>2. \A k \in 1..N : k < p => Above(list[k], row)
    BY <1>1, <1>2 DEF Above
  <2>3. ASSUME NEW k \in 1..N, ~(k < p) PROVE Above(row, list[k])
    <3>1. Key(list[p]) < Key(row) /\ p \in 1..N
      BY <1>1, <1>2, <2>3
    <3>2. k # p => Key(list[p]) >= Key(list[k])
      BY <1>2, <2>1, <2>3, <3>1 DEF Above
    <3>3. Key(row) >= Key(list[k])
      BY <1>1, <3>1, <3>2
    <3>4. QED
      BY <1>1, <3>3 DEF Above
  <2>4. SUFFICES ASSUME NEW m \in 1..(N + 1), NEW n \in 1..(N + 1), m < n
                 PROVE  Above(new[m], new[n])
    BY <1>4 DEF Ranked
  <2>5. CASE m = p
    <3>1. n # p /\ n > p
      BY <2>4, <2>5
    <3>2. PICK k \in 1..N : n = New(k) /\ ~(k < p)
      BY <1>6, <3>1
    <3>3. QED
      BY <1>5, <2>3, <2>5, <3>2
  <2>6. CASE n = p
    <3>1. m # p /\ m < p
      BY <2>4, <2>6
    <3>2. PICK k \in 1..N : m = New(k) /\ k < p
      BY <1>6, <3>1
    <3>3. QED
      BY <1>5, <2>2, <2>6, <3>2
  <2>7. CASE m # p /\ n # p
    <3>1. PICK k \in 1..N : m = New(k)
      BY <1>6, <2>7
    <3>2. PICK l \in 1..N : n = New(l)
      BY <1>6, <2>7
    <3>3. Above(list[k], list[l])
      BY <1>7, <2>1, <2>4, <3>1, <3>2
    <3>4. QED
      BY <1>5, <3>1, <3>2, <3>3
  <2>8. QED
    BY <2>5, <2>6, <2>7
<1>10. QED
  BY <1>8, <1>9 DEF new

\* Insert can be folded over any rows.
LEMMA InsertTypes ==
    ASSUME NEW R, NEW list \in Seq(R), NEW row \in R
    PROVE  Insert(list, row) \in Seq(R)
<1>1. PICK p \in 1..(Len(list) + 1) : Insert(list, row) = InsertAt(list, p, row)
  BY PlaceLemma
<1>2. QED
  BY <1>1, InsertLemma

\* The list after the first k rows were added.
Filled(R, made, k, list) ==
    /\ list \in Seq(R)
    /\ ToSet(list) = {made[i] : i \in 1..k}
    /\ Ranked(list)

LEMMA FillLemma ==
    ASSUME NEW R, \A r \in R : Key(r) \in Nat,
           NEW made \in Seq(R), \A m, n \in 1..Len(made) : m # n => made[m].ap.ssid # made[n].ap.ssid
    PROVE  Filled(R, made, Len(made), FoldLeft(Insert, <<>>, made))
<1> DEFINE n    == Len(made)
           none == <<>>
           S    == Seq(R)
           G    == [l \in S |-> [k \in 1..n |-> Insert(l, made[k])]]
           F(h) == [s \in SUBSET (1..n) |->
                       IF s = {} THEN none ELSE Insert(h[s \ {Max(s)}], made[Max(s)])]
           fold == CHOOSE h : h = F(h)
<1>1. n \in Nat /\ DOMAIN made = 1..n /\ \A k \in 1..n : made[k] \in R
  BY ElementOfSeq
<1>2. FoldLeft(Insert, <<>>, made) = fold[1..n]
  BY <1>1 DEF FoldLeft, MapThenFoldSet
<1>3. none \in S
  BY EmptySeq
<1>4. \A l \in S, k \in 1..n : G[l][k] = Insert(l, made[k]) /\ G[l][k] \in S
  BY <1>1, InsertTypes
<1>5. G \in [S -> [1..n -> S]]
  BY <1>1, InsertTypes
<1> HIDE DEF n, none, S, G
<1>6. PICK g \in [SUBSET (1..n) -> S] : Folds(n, none, G, g)
  BY <1>1, <1>3, <1>5, FoldLemma DEF Foldable
<1>7. g = F(g)
  <2>1. ASSUME NEW s \in SUBSET (1..n)
        PROVE  g[s] = IF s = {} THEN none ELSE Insert(g[s \ {Max(s)}], made[Max(s)])
    <3>1. CASE s = {}
      BY <1>6, <3>1 DEF Folds
    <3>2. CASE s # {}
      <4>1. Max(s) \in 1..n /\ s \ {Max(s)} \in SUBSET (1..n)
        BY <1>1, <3>2, MaxLemma
      <4>2. g[s \ {Max(s)}] \in S
        BY <1>6, <4>1
      <4>3. g[s] = G[g[s \ {Max(s)}]][Max(s)]
        BY <1>6, <3>2 DEF Folds
      <4>4. QED
        BY <1>4, <3>2, <4>1, <4>2, <4>3
    <3>3. QED
      BY <3>1, <3>2
  <2>2. QED
    BY <1>6, <2>1
<1>8. fold = F(fold)
  BY <1>7
<1> HIDE DEF fold
<1>9. /\ fold[{}] = none
      /\ \A k \in 1..n : fold[1..k] = Insert(fold[1..(k - 1)], made[k])
  <2>1. \A s \in SUBSET (1..n) :
            fold[s] = IF s = {} THEN none ELSE Insert(fold[s \ {Max(s)}], made[Max(s)])
    BY <1>8
  <2>2. {} \in SUBSET (1..n)
    OBVIOUS
  <2>3. ASSUME NEW k \in 1..n PROVE fold[1..k] = Insert(fold[1..(k - 1)], made[k])
    <3>1. 1..k \in SUBSET (1..n) /\ 1..k # {} /\ Max(1..k) = k /\ (1..k) \ {k} = 1..(k - 1)
      BY <1>1, SegmentLemma
    <3>2. fold[1..k] = Insert(fold[(1..k) \ {Max(1..k)}], made[Max(1..k)])
      BY <2>1, <3>1
    <3>3. QED
      BY <3>1, <3>2
  <2>4. QED
    BY <2>1, <2>2, <2>3
<1> DEFINE T == {k \in 0..n : Filled(R, made, k, fold[1..k])}
<1>10. 0 \in T
  <2>1. fold[1..0] = <<>>
    BY <1>1, <1>9, SegmentLemma DEF none
  <2>2. Filled(R, made, 0, <<>>)
    BY EmptySeq DEF Filled, ToSet, Ranked
  <2>3. QED
    BY <1>1, <2>1, <2>2
<1>11. ASSUME NEW k \in 1..n, k - 1 \in T PROVE k \in T
  <2> DEFINE list == fold[1..(k - 1)]
  <2>1. Filled(R, made, k - 1, list)
    BY <1>11
  <2> HIDE DEF list
  <2>2. /\ list \in Seq(R) /\ Ranked(list) /\ made[k] \in R
        /\ ToSet(list) = {made[i] : i \in 1..(k - 1)}
    BY <1>1, <2>1 DEF Filled
  <2>3. \A i \in 1..(k - 1) : i \in 1..n /\ i # k
    BY <1>1
  <2>4. \A r \in ToSet(list) : r.ap.ssid # made[k].ap.ssid
    BY <2>2, <2>3 DEF n
  <2>5. /\ Insert(list, made[k]) \in Seq(R) /\ Ranked(Insert(list, made[k]))
        /\ ToSet(Insert(list, made[k])) = ToSet(list) \union {made[k]}
    <3> DEFINE row == made[k]
    <3>1. row \in R /\ \A r \in ToSet(list) : r.ap.ssid # row.ap.ssid
      BY <2>2, <2>4
    <3> HIDE DEF row
    <3>2. Insert(list, row) \in Seq(R)
      BY <2>2, <3>1, InsertTypes
    <3>3. Ranked(Insert(list, row)) /\ ToSet(Insert(list, row)) = ToSet(list) \union {row}
      BY <2>2, <3>1, SortInLemma
    <3>4. QED
      BY <3>2, <3>3 DEF row
  <2>6. {made[i] : i \in 1..(k - 1)} \union {made[k]} = {made[i] : i \in 1..k}
    <3>1. /\ k \in 1..k /\ \A i \in 1..k : i = k \/ i \in 1..(k - 1)
          /\ \A i \in 1..(k - 1) : i \in 1..k
      BY <1>1
    <3>2. QED
      BY <3>1
  <2>7. Filled(R, made, k, Insert(list, made[k]))
    BY <2>2, <2>5, <2>6 DEF Filled
  <2>8. k \in 0..n
    BY <1>1
  <2>9. QED
    BY <1>9, <2>7, <2>8 DEF list
<1> HIDE DEF T
<1>12. \A k \in 0..n : k \in T
  BY <1>1, <1>10, <1>11, UpTo
<1>13. Filled(R, made, n, fold[1..n])
  BY <1>1, <1>12 DEF T
<1>14. QED
  BY <1>2, <1>13 DEF n

\* RowsOf makes the right rows of any access points.
LEMMA RowsLemma ==
    ASSUME NEW aps \in Seq(Aps), NEW active, NEW state
    PROVE  RowsAreRight(RowsOf(aps, active, state), aps, active, state)
<1> DEFINE u    == get_strongest_unique_aps(aps)
           n    == Len(aps)
           made == [i \in DOMAIN u |-> Row(u[i], active, state)]
           R    == {Row(ap, active, state) : ap \in Aps}
           list == FoldLeft(Insert, <<>>, made)
           Used(ap) == active # <<>> /\ active[1].ssid = ap.ssid
<1>1. RowsOf(aps, active, state) = list
  BY DEF RowsOf
<1>2. Unique(aps, n, u)
  BY UniqueLemma
<1> HIDE DEF u
<1>3. /\ u \in Seq(Aps) /\ DOMAIN u = 1..Len(u) /\ Len(u) \in Nat
      /\ \A i \in 1..Len(u) : u[i] \in Aps
      /\ \A i, j \in 1..Len(u) : i # j => u[i].ssid # u[j].ssid
  BY <1>2, ElementOfSeq, LenProperties DEF Unique
<1>4. ASSUME NEW r \in R
      PROVE  /\ r.ap \in Aps /\ r.mark = IF Used(r.ap) THEN state ELSE "none"
             /\ r.ap.strength \in Nat /\ r.ap.strength < Foremost
             /\ Key(r) = IF r.mark = "none" THEN r.ap.strength ELSE Foremost
             /\ Key(r) \in Nat
  <2>1. PICK ap \in Aps : r = Row(ap, active, state)
    OBVIOUS
  <2>2. r.ap = ap /\ r.mark = IF Used(ap) THEN state ELSE "none"
    BY <2>1 DEF Row
  <2>3. ap.strength \in Nat /\ ap.strength < Foremost /\ Foremost \in Nat
    BY ApLemma DEF Foremost
  <2>4. Key(r) = IF r.mark = "none" THEN r.ap.strength ELSE Foremost
    BY DEF Key
  <2>5. QED
    BY <2>2, <2>3, <2>4
<1>5. /\ made \in Seq(R) /\ Len(made) = Len(u)
      /\ \A i \in 1..Len(u) : made[i].ap = u[i]
  <2>1. \A i \in 1..Len(u) : Row(u[i], active, state) \in R
    BY <1>3
  <2>2. \A i \in 1..Len(u) : made[i] = Row(u[i], active, state) /\ made[i].ap = u[i]
    BY <1>3 DEF Row
  <2> HIDE DEF R
  <2>3. QED
    BY <1>3, <2>1, <2>2
<1> HIDE DEF made, R
<1>6. Filled(R, made, Len(u), list)
  <2>1. \A r \in R : Key(r) \in Nat
    BY <1>4
  <2>2. \A i, j \in 1..Len(made) : i # j => made[i].ap.ssid # made[j].ap.ssid
    BY <1>3, <1>5
  <2>3. Filled(R, made, Len(made), list)
    BY <1>5, <2>1, <2>2, FillLemma
  <2>4. QED
    BY <1>5, <2>3
<1> HIDE DEF list
<1>7. /\ list \in Seq(R) /\ DOMAIN list = 1..Len(list) /\ Len(list) \in Nat
      /\ \A i \in DOMAIN list : list[i] \in R
      /\ ToSet(list) = {made[i] : i \in 1..Len(u)} /\ Ranked(list)
  BY <1>6, ElementOfSeq, LenProperties DEF Filled
<1>8. {list[i].ap : i \in DOMAIN list} = {u[i] : i \in 1..Len(u)}
  <2>1. ASSUME NEW i \in DOMAIN list PROVE \E k \in 1..Len(u) : list[i].ap = u[k]
    <3>1. list[i] \in ToSet(list)
      BY DEF ToSet
    <3>2. QED
      BY <1>5, <1>7, <3>1
  <2>2. ASSUME NEW k \in 1..Len(u) PROVE \E i \in DOMAIN list : list[i].ap = u[k]
    <3>1. made[k] \in ToSet(list)
      BY <1>7
    <3>2. QED
      BY <1>5, <3>1 DEF ToSet
  <2>3. QED
    BY <2>1, <2>2
<1>9. {u[i] : i \in 1..Len(u)} = Strongest(aps)
  <2> DEFINE Shown == {i \in DOMAIN aps : Best(aps, n, i)}
  <2>1. DOMAIN aps = 1..n /\ n \in Nat /\ \A i \in 1..n : aps[i] \in Aps
    BY ElementOfSeq
  <2>2. Strongest(aps) = {aps[i] : i \in Shown}
    BY <2>1 DEF Strongest, Best
  <2>3. ASSUME NEW m \in 1..Len(u) PROVE \E i \in Shown : u[m] = aps[i]
    BY <1>2, <1>3, <2>1 DEF Unique
  <2>4. ASSUME NEW i \in Shown PROVE \E m \in 1..Len(u) : u[m] = aps[i]
    <3>1. i \in 1..n /\ Best(aps, n, i) /\ aps[i].ssid # Hidden
      BY <2>1 DEF Best
    <3>2. PICK m \in 1..Len(u) : u[m].ssid = aps[i].ssid
      BY <1>2, <1>3, <3>1 DEF Unique
    <3>3. PICK j \in 1..n : u[m] = aps[j] /\ Best(aps, n, j)
      BY <1>2, <1>3 DEF Unique
    <3>4. aps[i].strength \in Nat /\ aps[j].strength \in Nat
      BY <2>1, <3>1, ApLemma
    <3>5. i = j
      BY <3>1, <3>2, <3>3, <3>4 DEF Best
    <3>6. QED
      BY <3>3, <3>5
  <2> HIDE DEF Shown
  <2>5. QED
    BY <2>2, <2>3, <2>4
<1>10. ASSUME NEW i \in DOMAIN list, NEW j \in DOMAIN list, i < j
       PROVE  /\ list[i].ap.ssid # list[j].ap.ssid
              /\ list[j].mark = "none"
              /\ list[i].mark = "none" => list[i].ap.strength >= list[j].ap.strength
  <2>1. Key(list[i]) >= Key(list[j]) /\ list[i].ap.ssid # list[j].ap.ssid
    BY <1>7, <1>10 DEF Ranked, Above
  <2>2. /\ list[i].mark = IF Used(list[i].ap) THEN state ELSE "none"
        /\ list[j].mark = IF Used(list[j].ap) THEN state ELSE "none"
    BY <1>4, <1>7
  <2>3. /\ list[i].ap.strength \in Nat /\ list[i].ap.strength < Foremost
        /\ list[j].ap.strength \in Nat /\ Foremost \in Nat
        /\ Key(list[i]) = IF list[i].mark = "none" THEN list[i].ap.strength ELSE Foremost
        /\ Key(list[j]) = IF list[j].mark = "none" THEN list[j].ap.strength ELSE Foremost
    BY <1>4, <1>7 DEF Foremost
  <2>4. list[j].mark = "none"
    <3>1. SUFFICES ASSUME list[j].mark # "none" PROVE FALSE
      OBVIOUS
    <3>2. Used(list[j].ap)
      BY <2>2, <3>1
    <3>3. ~Used(list[i].ap)
      BY <2>1, <3>2
    <3>4. list[i].mark = "none"
      BY <2>2, <3>3
    <3>5. QED
      BY <2>1, <2>3, <3>1, <3>4
  <2>5. QED
    BY <2>1, <2>3, <2>4
<1>11. ASSUME NEW i \in DOMAIN list
       PROVE  list[i].mark # "none" <=> state # "none" /\ Used(list[i].ap)
  BY <1>4, <1>7
<1>12. RowsAreRight(list, aps, active, state)
  BY <1>8, <1>9, <1>10, <1>11 DEF RowsAreRight
<1>13. QED
  BY <1>1, <1>12

\* Every list of access points that the networks of the list can have.
LEMMA ListsLemma ==
    ASSUME rows \in Networks, NEW aps \in ListsOf(rows)
    PROVE  aps \in Seq(Aps)
<1>1. PICK kinds \in SeqOf(Kinds, MaxLen) : aps = Numbered(kinds)
  BY DEF ListsOf
<1>2. PICK m \in 0..MaxLen : kinds \in [1..m -> Kinds]
  BY DEF SeqOf
<1>3. m \in Nat
  BY <1>2, LenAssumption
<1>4. aps = [i \in 1..m |-> [id |-> i, ssid |-> kinds[i].ssid, strength |-> kinds[i].strength]]
  BY <1>1, <1>2 DEF Numbered
<1>5. ASSUME NEW i \in 1..m
      PROVE  [id |-> i, ssid |-> kinds[i].ssid, strength |-> kinds[i].strength] \in Aps
  <2>1. kinds[i] \in Kinds
    BY <1>2
  <2>2. kinds[i].ssid \in Ssids \union {Hidden} /\ kinds[i].strength \in Strengths
    BY <2>1 DEF Kinds
  <2>3. kinds[i].strength \in 0..(Foremost - 1)
    BY <2>2, StrengthsAssumption
  <2>4. i \in Nat
    BY <1>3
  <2>5. QED
    BY <2>2, <2>3, <2>4 DEF Aps
<1>6. QED
  BY <1>3, <1>4, <1>5

\* For lists of any length, with any access points of any networks, in any order,
\* the loop with removals and the sorted insertion show one row for each
\* network, the strongest access point, and the network in use first.
THEOREM ListIsRightHolds == Spec => []ListIsRight
<1>1. IInv => ListIsRight
  BY RowsLemma, ListsLemma DEF IInv, TypeOK, ListIsRight
<1>2. QED BY <1>1, ListInvariant, PTL
=============================================================================
