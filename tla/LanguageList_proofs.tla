------------------------- MODULE LanguageList_proofs ------------------------
(***************************************************************************)
(* Proofs about the language page, for any locales, fonts and orders of    *)
(* the hash table: the rows of LanguageList and their marks.               *)
(***************************************************************************)
EXTENDS MCLanguageList, SequenceTheorems, FiniteSetTheorems, WellFoundedInduction, TLAPS

Rows == Locales \union {More}

\* Sets of numbers have a least member; the number is found without induction,
\* as the minimum of a well-founded relation.
LEMMA LeastNat ==
    ASSUME NEW T, T \subseteq Nat, T # {}
    PROVE  \E x \in T : \A y \in T : x <= y
<1>1. IsWellFoundedOn(OpToRel(<, Nat), Nat)
  BY NatLessThanWellFounded
<1>2. PICK x \in T : \A y \in T : ~(<<y, x>> \in OpToRel(<, Nat))
  BY <1>1, WFMin
<1>3. \A y \in T : ~(y < x)
  BY <1>2 DEF OpToRel
<1>4. QED
  BY <1>3

LEMMA MinLemma ==
    ASSUME NEW T, T \subseteq Nat, T # {}
    PROVE  Min(T) \in T /\ \A y \in T : Min(T) <= y
BY LeastNat DEF Min

\* What InsertAt makes of a sequence.
LEMMA InsertLemma ==
    ASSUME NEW S, NEW list \in Seq(S), NEW e \in S, NEW p \in 1..(Len(list) + 1)
    PROVE  /\ InsertAt(list, p, e) \in Seq(S)
           /\ Len(InsertAt(list, p, e)) = Len(list) + 1
           /\ \A k \in 1..(Len(list) + 1) :
                 InsertAt(list, p, e)[k] = IF k < p THEN list[k] ELSE IF k = p THEN e ELSE list[k - 1]
<1> DEFINE front == SubSeq(list, 1, p - 1)
           back == SubSeq(list, p, Len(list))
<1>0. Len(list) \in Nat /\ p \in Int
  OBVIOUS
<1>1. front \in Seq(S) /\ Len(front) = p - 1 /\ \A k \in 1..(p - 1) : front[k] = list[k]
  BY SubSeqProperties, SMT
<1>2. back \in Seq(S) /\ Len(back) = Len(list) - p + 1
      /\ \A k \in 1..(Len(list) - p + 1) : back[k] = list[p + k - 1]
  BY SubSeqProperties, SMT
<1> HIDE DEF front, back
<1>3. InsertAt(list, p, e) = front \o <<e>> \o back
  BY DEF InsertAt, front, back
<1>4. front \o <<e>> \in Seq(S) /\ Len(front \o <<e>>) = p
      /\ \A k \in 1..p : (front \o <<e>>)[k] = IF k < p THEN list[k] ELSE e
  BY <1>1
<1> DEFINE head == front \o <<e>>
<1> HIDE DEF head
<1>5. head \in Seq(S) /\ Len(head) = p
      /\ \A k \in 1..p : head[k] = IF k < p THEN list[k] ELSE e
  BY <1>4 DEF head
<1> DEFINE whole == head \o back
<1>6. /\ whole \in Seq(S) /\ Len(whole) = Len(head) + Len(back)
      /\ \A k \in 1..(Len(head) + Len(back)) :
            whole[k] = IF k <= Len(head) THEN head[k] ELSE back[k - Len(head)]
  BY <1>2, <1>5, ConcatProperties
<1> HIDE DEF whole
<1>7. ASSUME NEW k \in 1..(Len(list) + 1)
      PROVE  whole[k] = IF k < p THEN list[k] ELSE IF k = p THEN e ELSE list[k - 1]
  <2>1. CASE k <= p
    BY <1>0, <1>5, <1>6, <1>2, <2>1
  <2>2. CASE k > p
    <3>1. k - p \in 1..(Len(list) - p + 1) /\ p + (k - p) - 1 = k - 1
      BY <1>0, <2>2
    <3>2. back[k - p] = list[k - 1]
      BY <1>2, <3>1
    <3>3. k \in 1..(Len(head) + Len(back)) /\ ~(k <= Len(head)) /\ k - Len(head) = k - p
      BY <1>0, <1>2, <1>5, <2>2
    <3>4. whole[k] = back[k - p]
      BY <1>6, <3>3
    <3>5. ~(k < p) /\ k # p
      BY <1>0, <2>2
    <3>6. QED
      BY <3>2, <3>4, <3>5
  <2>3. QED
    BY <1>0, <2>1, <2>2
<1>8. InsertAt(list, p, e) = whole
  BY <1>3 DEF whole, head
<1>9. Len(whole) = Len(list) + 1
  BY <1>0, <1>2, <1>5, <1>6
<1>10. QED
  BY <1>6, <1>7, <1>8, <1>9

-----------------------------------------------------------------------------
(* The order of the rows.                                                  *)

\* sort_languages is a strict order of the locales with the More item last.
LEMMA OrderLemma ==
    /\ \A a, b, c \in Rows : sort_languages(a, b) /\ sort_languages(b, c) => sort_languages(a, c)
    /\ \A a, b \in Rows : a # b => sort_languages(a, b) \/ sort_languages(b, a)
    /\ \A a \in Rows : ~sort_languages(a, a)
<1>1. /\ More \notin Locales
      /\ \A l \in Locales : SortKey[l] \in Int /\ Id[l] \in Int
      /\ \A l, k \in Locales : l # k => Id[l] # Id[k]
  BY LocalesAssumption
<1>2. ASSUME NEW a \in Locales, NEW b \in Locales, NEW c \in Locales
      PROVE  /\ Precedes(a, b) /\ Precedes(b, c) => Precedes(a, c)
             /\ a # b => Precedes(a, b) \/ Precedes(b, a)
             /\ ~Precedes(a, a)
  BY <1>1 DEF Precedes, is_extra
<1>3. ASSUME NEW a \in Rows, NEW b \in Rows, NEW c \in Rows,
             sort_languages(a, b), sort_languages(b, c)
      PROVE  sort_languages(a, c)
  BY <1>2, <1>3 DEF sort_languages, Rows
<1>4. ASSUME NEW a \in Rows, NEW b \in Rows, a # b
      PROVE  sort_languages(a, b) \/ sort_languages(b, a)
  BY <1>2, <1>4 DEF sort_languages, Rows
<1>5. ASSUME NEW a \in Rows PROVE ~sort_languages(a, a)
  BY <1>2 DEF sort_languages, Rows
<1>6. QED
  BY <1>3, <1>4, <1>5

Sorted(list) ==
    \A m, n \in DOMAIN list : m < n => sort_languages(list[m], list[n])

\* A row that is sorted into sorted rows leaves them sorted, and all there.
LEMMA AppendLemma ==
    ASSUME rows \in Seq(Rows), Sorted(rows), NEW row \in Rows, row \notin ToSet(rows),
           NEW new, new = gtk_list_box_append(row)
    PROVE  /\ new \in Seq(Rows) /\ Len(new) = Len(rows) + 1
           /\ ToSet(new) = ToSet(rows) \union {row} /\ Sorted(new)
<1> DEFINE N      == Len(rows)
           Behind == {k \in DOMAIN rows : sort_languages(row, rows[k])}
           Places == Behind \union {N + 1}
           p      == Min(Places)
<1>1. N \in Nat /\ DOMAIN rows = 1..N /\ \A k \in 1..N : rows[k] \in Rows
  OBVIOUS
<1>2. new = InsertAt(rows, p, row)
  BY DEF gtk_list_box_append
<1>3. /\ p \in 1..(N + 1)
      /\ \A k \in 1..N : k < p => ~sort_languages(row, rows[k])
      /\ p <= N => sort_languages(row, rows[p])
  <2>1. Places \subseteq Nat /\ Places # {}
    BY <1>1
  <2>2. p \in Places /\ \A y \in Places : p <= y
    <3> HIDE DEF Places
    <3>1. QED
      BY <2>1, MinLemma
  <2>3. N + 1 \in Places /\ \A k \in 1..N : sort_languages(row, rows[k]) => k \in Places
    BY <1>1
  <2>4. p \in 1..(N + 1) /\ (p <= N => sort_languages(row, rows[p]))
    BY <1>1, <2>2
  <2> HIDE DEF Places, N
  <2>5. \A k \in 1..N : k < p => ~sort_languages(row, rows[k])
    BY <1>1, <2>2, <2>3, <2>4
  <2>6. QED
    BY <2>4, <2>5
<1> HIDE DEF p, N, Behind, Places
<1>4. /\ new \in Seq(Rows) /\ Len(new) = N + 1
      /\ \A k \in 1..(N + 1) :
            new[k] = IF k < p THEN rows[k] ELSE IF k = p THEN row ELSE rows[k - 1]
  <2>1. p \in 1..(Len(rows) + 1)
    BY <1>3 DEF N
  <2>2. /\ InsertAt(rows, p, row) \in Seq(Rows) /\ Len(InsertAt(rows, p, row)) = Len(rows) + 1
        /\ \A k \in 1..(Len(rows) + 1) : InsertAt(rows, p, row)[k] =
              IF k < p THEN rows[k] ELSE IF k = p THEN row ELSE rows[k - 1]
    BY <2>1, InsertLemma
  <2>3. QED
    BY <1>2, <2>2, Zenon DEF N
<1>5. DOMAIN new = 1..(N + 1)
  BY <1>4
<1>6. ToSet(new) = ToSet(rows) \union {row}
  <2>1. ASSUME NEW k \in 1..(N + 1) PROVE new[k] \in ToSet(rows) \union {row}
    <3>1. k < p => k \in 1..N
      BY <1>1, <1>3
    <3>2. k > p => k - 1 \in 1..N
      BY <1>1, <1>3
    <3>3. \A m \in 1..N : rows[m] \in ToSet(rows)
      BY <1>1 DEF ToSet
    <3>4. QED
      BY <1>1, <1>3, <1>4, <3>1, <3>2, <3>3
  <2>2. ASSUME NEW m \in 1..N PROVE rows[m] \in ToSet(new)
    <3>1. CASE m < p
      <4>1. m \in 1..(N + 1) /\ new[m] = rows[m]
        BY <1>1, <1>4, <3>1
      <4>2. QED
        BY <1>5, <4>1 DEF ToSet
    <3>2. CASE ~(m < p)
      <4>1. m + 1 \in 1..(N + 1) /\ ~(m + 1 < p) /\ m + 1 # p /\ (m + 1) - 1 = m
        BY <1>1, <1>3, <3>2
      <4>2. new[m + 1] = rows[m]
        BY <1>4, <4>1
      <4>3. QED
        BY <1>5, <4>1, <4>2 DEF ToSet
    <3>3. QED
      BY <3>1, <3>2
  <2>3. row \in ToSet(new)
    <3>1. new[p] = row
      BY <1>3, <1>4, <1>1
    <3>2. QED
      BY <1>3, <1>5, <3>1 DEF ToSet
  <2>4. QED
    BY <1>1, <1>5, <2>1, <2>2, <2>3 DEF ToSet
<1>7. Sorted(new)
  <2>1. \A k \in 1..N : rows[k] # row
    BY <1>1 DEF ToSet
  <2>2. \A k \in 1..N : k < p => sort_languages(rows[k], row)
    BY <1>1, <1>3, <2>1, OrderLemma
  <2>3. \A m, n \in 1..N : m < n => sort_languages(rows[m], rows[n])
    BY <1>1 DEF Sorted
  <2>4. \A k \in 1..N : k >= p => sort_languages(row, rows[k])
    <3>1. SUFFICES ASSUME NEW k \in 1..N, k > p PROVE sort_languages(row, rows[k])
      BY <1>1, <1>3
    <3>2. p \in 1..N /\ sort_languages(row, rows[p]) /\ sort_languages(rows[p], rows[k])
      BY <1>1, <1>3, <2>3, <3>1
    <3>3. QED
      BY <1>1, <3>2, OrderLemma
  <2>5. SUFFICES ASSUME NEW m \in 1..(N + 1), NEW n \in 1..(N + 1), m < n
                 PROVE  sort_languages(new[m], new[n])
    BY <1>5 DEF Sorted
  <2>6. CASE n < p
    <3>1. m \in 1..N /\ n \in 1..N /\ new[m] = rows[m] /\ new[n] = rows[n]
      BY <1>1, <1>3, <1>4, <2>5, <2>6
    <3>2. QED
      BY <2>3, <2>5, <3>1
  <2>7. CASE n = p
    <3>1. m \in 1..N /\ m < p /\ new[m] = rows[m] /\ new[n] = row
      BY <1>1, <1>3, <1>4, <2>5, <2>7
    <3>2. QED
      BY <2>2, <3>1
  <2>8. CASE n > p
    <3>1. n - 1 \in 1..N /\ n - 1 >= p /\ new[n] = rows[n - 1]
      BY <1>1, <1>3, <1>4, <2>8
    <3>2. CASE m < p
      <4>1. m \in 1..N /\ m < n - 1 /\ new[m] = rows[m]
        BY <1>1, <1>3, <1>4, <2>8, <3>2
      <4>2. QED
        BY <2>3, <3>1, <4>1
    <3>3. CASE m = p
      BY <1>3, <1>4, <2>4, <3>1, <3>3, <1>1
    <3>4. CASE m > p
      <4>1. m - 1 \in 1..N /\ m - 1 < n - 1 /\ new[m] = rows[m - 1]
        BY <1>1, <1>3, <1>4, <2>5, <3>4
      <4>2. QED
        BY <2>3, <3>1, <4>1
    <3>5. QED
      BY <1>3, <3>2, <3>3, <3>4
  <2>9. QED
    BY <1>3, <2>6, <2>7, <2>8
<1>8. QED
  BY <1>4, <1>6, <1>7 DEF N

\* The More item is the last row, so the loop that ends there has reached every
\* language, and leaves the one that is chosen its mark.
LEMMA SyncLemma ==
    ASSUME NEW list \in Seq(Rows), Sorted(list), NEW S, S \subseteq Locales,
           ToSet(list) = S \union {More}, NEW old, old \subseteq S, NEW chosen
    PROVE  sync_all_checkmarks(list, old, chosen) = S \intersect {chosen}
<1> DEFINE stop    == CHOOSE k \in DOMAIN list : list[k] = More
           reached == {list[k] : k \in 1..(stop - 1)}
<1>1. More \notin S /\ \A a \in Rows : ~sort_languages(More, a)
  BY LocalesAssumption DEF sort_languages
<1>2. DOMAIN list = 1..Len(list) /\ Len(list) \in Nat /\ \A k \in 1..Len(list) : list[k] \in Rows
  OBVIOUS
<1>3. stop \in DOMAIN list /\ list[stop] = More
  <2>1. \E k \in DOMAIN list : list[k] = More
    BY DEF ToSet
  <2>2. QED
    BY <2>1
<1> HIDE DEF stop
<1>4. ASSUME NEW k \in 1..Len(list) PROVE k <= stop /\ (k # stop => list[k] # More)
  <2>1. ~(stop < k)
    BY <1>1, <1>2, <1>3 DEF Sorted
  <2>2. k < stop => list[k] # More
    BY <1>1, <1>2, <1>3 DEF Sorted
  <2>3. QED
    BY <1>2, <1>3, <2>1, <2>2
<1>5. reached = S
  <2>1. ASSUME NEW k \in 1..(stop - 1) PROVE list[k] \in S
    <3>1. k \in DOMAIN list /\ list[k] # More
      BY <1>2, <1>3, <1>4
    <3>2. QED
      BY <3>1 DEF ToSet
  <2>2. ASSUME NEW l \in S PROVE l \in reached
    <3>1. PICK k \in DOMAIN list : list[k] = l
      BY DEF ToSet
    <3>2. k # stop
      BY <1>1, <1>3, <3>1
    <3>3. k \in 1..(stop - 1)
      BY <1>2, <1>3, <1>4, <3>1, <3>2
    <3>4. QED
      BY <3>1, <3>3
  <2>3. QED
    BY <2>1, <2>2
<1>6. sync_all_checkmarks(list, old, chosen) = (old \ reached) \union (reached \intersect {chosen})
  BY DEF sync_all_checkmarks, stop, reached
<1>7. QED
  BY <1>5, <1>6

-----------------------------------------------------------------------------
(* The inductive invariant.                                                *)

\* The locales that have a row.
Shown == has_font \intersect added

Types ==
    /\ rows \in Seq(Rows) /\ marks \subseteq Locales
    /\ added \subseteq Locales /\ IsFiniteSet(added)
    /\ language \in Locales /\ has_font \subseteq Locales

\* What add_languages has been through and has a font is in the list, once; the
\* More item comes when everything has been.
Listed ==
    /\ Built => added = Locales
    /\ ToSet(rows) = Shown \union (IF Built THEN {More} ELSE {})
    /\ Len(rows) = Cardinality(Shown) + (IF Built THEN 1 ELSE 0)
    /\ Sorted(rows)

\* Every row comes with its mark, and the loop over the rows takes them away.
Marked == marks = IF Built THEN {language} \intersect has_font ELSE Shown

\* The inductive invariant: RowsOnce and OneMark speak of the finished list, and
\* need what holds while it is being built; InOrder needs Sorted, where the More
\* item has its place too.
IInv == Types /\ Listed /\ Marked

LEMMA ContainsLemma ==
    ASSUME NEW list \in Seq(Rows), NEW e
    PROVE  Contains(list, e) <=> e \in ToSet(list)
BY DEF Contains, ToSet

LEMMA InitLemma == ASSUME Init PROVE IInv
<1>1. rows = <<>> /\ marks = {} /\ added = {}
  BY DEF Init
<1>2. Types
  BY <1>1, FS_EmptySet DEF Init, Types
<1>3. ToSet(rows) = {} /\ Len(rows) = 0 /\ ~Built
  BY <1>1, <1>2 DEF ToSet, Built, Contains
<1>4. Shown = {} /\ Cardinality(Shown) = 0
  BY <1>1, FS_EmptySet DEF Shown
<1>5. Sorted(rows)
  BY <1>1 DEF Sorted
<1>6. QED
  BY <1>1, <1>2, <1>3, <1>4, <1>5 DEF IInv, Listed, Marked

\* A new locale, with its row if it has a font.
LEMMA AddLemma ==
    ASSUME IInv, NEW l \in Locales \ added, add_one_language(l)
    PROVE  IInv'
<1>0. Types /\ Listed /\ Marked
  BY DEF IInv
<1>1. ~Built /\ More \notin Locales
  BY <1>0, LocalesAssumption DEF Listed
<1>2. /\ added' = added \union {l} /\ IsFiniteSet(added') /\ added' \subseteq Locales
      /\ UNCHANGED <<language, has_font>>
  BY <1>0, FS_AddElement DEF add_one_language, Types
<1>3. IsFiniteSet(Shown)
  BY <1>0, FS_Subset DEF Types, Shown
<1>4. CASE l \in has_font
  <2>1. rows' = gtk_list_box_append(l) /\ marks' = marks \union {l}
    BY <1>4 DEF add_one_language, cc_common_language_has_font, language_widget_new
  <2>2. l \notin Shown /\ Shown' = Shown \union {l}
    BY <1>2, <1>4 DEF Shown
  <2>3. ToSet(rows) = Shown /\ Len(rows) = Cardinality(Shown) /\ Cardinality(Shown) \in Nat
    BY <1>0, <1>1, <1>3, FS_CardinalityType DEF Listed
  <2>4. /\ rows' \in Seq(Rows) /\ Len(rows') = Len(rows) + 1
        /\ ToSet(rows') = ToSet(rows) \union {l} /\ Sorted(rows')
    <3>1. rows \in Seq(Rows) /\ Sorted(rows) /\ l \in Rows /\ l \notin ToSet(rows)
      BY <1>0, <2>2, <2>3 DEF Types, Listed, Rows
    <3>2. QED
      BY <2>1, <3>1, AppendLemma
  <2>5. Types'
    BY <1>0, <1>2, <2>1, <2>4 DEF Types
  <2>6. ToSet(rows') = Shown' /\ ~Built'
    <3>1. ToSet(rows') = Shown'
      BY <2>2, <2>3, <2>4
    <3>2. Shown' \subseteq Locales
      BY <2>5 DEF Types, Shown
    <3>3. QED
      BY <1>1, <2>4, <3>1, <3>2, ContainsLemma DEF Built
  <2>7. Len(rows') = Cardinality(Shown')
    BY <1>3, <2>2, <2>3, <2>4, FS_AddElement
  <2>8. marks' = Shown'
    BY <1>0, <1>1, <2>1, <2>2 DEF Marked
  <2>9. Cardinality(Shown') \in Nat
    BY <1>2, <2>2, FS_AddElement, FS_CardinalityType, <1>3
  <2>10. QED
    BY <2>4, <2>5, <2>6, <2>7, <2>8, <2>9 DEF IInv, Listed, Marked
<1>5. CASE l \notin has_font
  <2>1. UNCHANGED <<rows, marks>>
    BY <1>5 DEF add_one_language, cc_common_language_has_font
  <2>2. Shown' = Shown
    BY <1>2, <1>5 DEF Shown
  <2>3. Types' /\ ~Built'
    BY <1>0, <1>1, <1>2, <2>1 DEF Types, Built
  <2>4. QED
    BY <1>0, <1>1, <2>1, <2>2, <2>3 DEF IInv, Listed, Marked
<1>6. QED
  BY <1>4, <1>5

\* The More item is sorted in behind all others.
LEMMA MoreLemma == ASSUME IInv, add_languages_More PROVE IInv'
<1>0. Types /\ Listed /\ Marked
  BY DEF IInv
<1>1. /\ added = Locales /\ ~Built /\ rows' = gtk_list_box_append(More)
      /\ marks' = sync_all_checkmarks(rows', marks, language)
      /\ UNCHANGED <<added, language, has_font>>
  BY DEF add_languages_More
<1>2. Shown \subseteq Locales /\ Shown = has_font /\ Shown' = Shown /\ marks = Shown
  BY <1>0, <1>1 DEF Shown, Types, Marked
<1>3. IsFiniteSet(Shown) /\ Cardinality(Shown) \in Nat
  BY <1>0, FS_Subset, FS_CardinalityType DEF Types, Shown
<1>4. ToSet(rows) = Shown /\ Len(rows) = Cardinality(Shown)
  BY <1>0, <1>1, <1>3 DEF Listed
<1>5. /\ rows' \in Seq(Rows) /\ Len(rows') = Len(rows) + 1
      /\ ToSet(rows') = ToSet(rows) \union {More} /\ Sorted(rows')
  <2>1. rows \in Seq(Rows) /\ Sorted(rows) /\ More \in Rows /\ More \notin ToSet(rows)
    BY <1>0, <1>2, <1>4, LocalesAssumption DEF Types, Listed, Rows
  <2>2. QED
    BY <1>1, <2>1, AppendLemma
<1>6. marks' = Shown \intersect {language}
  BY <1>1, <1>2, <1>4, <1>5, SyncLemma
<1>7. Built'
  BY <1>5, ContainsLemma DEF Built
<1>8. Types'
  BY <1>0, <1>1, <1>2, <1>5, <1>6 DEF Types
<1>9. Listed'
  BY <1>1, <1>2, <1>4, <1>5, <1>7 DEF Listed
<1>10. Marked'
  BY <1>1, <1>2, <1>6, <1>7 DEF Marked
<1>11. QED
  BY <1>8, <1>9, <1>10 DEF IInv

\* A click on a row moves the mark.
LEMMA RowLemma ==
    ASSUME IInv, NEW l \in Locales, row_activated(l)
    PROVE  IInv'
<1>0. Types /\ Listed /\ Marked /\ Built
  BY DEF IInv, row_activated
<1>1. UNCHANGED <<rows, added, has_font>> /\ language' = l
      /\ marks' = IF l = language THEN marks ELSE sync_all_checkmarks(rows, marks, l)
  BY DEF row_activated, set_locale_id
<1>2. Shown = has_font /\ Shown \subseteq Locales /\ marks = {language} \intersect Shown
  BY <1>0 DEF Types, Listed, Marked, Shown
<1>3. marks' = {l} \intersect Shown
  <2>1. rows \in Seq(Rows) /\ Sorted(rows) /\ ToSet(rows) = Shown \union {More} /\ marks \subseteq Shown
    BY <1>0, <1>2 DEF Types, Listed
  <2>2. sync_all_checkmarks(rows, marks, l) = Shown \intersect {l}
    BY <1>2, <2>1, SyncLemma
  <2>3. QED
    BY <1>1, <1>2, <2>2
<1>4. Shown' = Shown /\ Built'
  BY <1>0, <1>1 DEF Shown, Built
<1>5. Types'
  BY <1>0, <1>1, <1>2, <1>3 DEF Types
<1>6. Listed'
  BY <1>0, <1>1, <1>4 DEF Listed
<1>7. Marked'
  BY <1>1, <1>2, <1>3, <1>4 DEF Marked
<1>8. QED
  BY <1>5, <1>6, <1>7 DEF IInv

LEMMA StepLemma == ASSUME IInv, [Next]_vars PROVE IInv'
<1>1. CASE add_languages_Initial
  BY <1>1, AddLemma DEF add_languages_Initial, Initial
<1>2. CASE add_languages_Others
  BY <1>2, AddLemma DEF add_languages_Others
<1>3. CASE add_languages_More
  BY <1>3, MoreLemma
<1>4. CASE show_more \/ UNCHANGED vars
  <2>1. UNCHANGED <<rows, marks, added, language, has_font>>
    BY <1>4 DEF show_more, vars
  <2>2. QED
    BY <2>1 DEF IInv, Types, Listed, Marked, Shown, Built
<1>5. ASSUME NEW l \in Locales, row_activated(l) PROVE IInv'
  BY <1>5, RowLemma
<1>6. QED
  BY <1>1, <1>2, <1>3, <1>4, <1>5 DEF Next

\* The finished list has each locale with a font once, and in every list the
\* languages are in order, whatever order they come in.
LEMMA RightLemma == ASSUME IInv PROVE RowsRight /\ OneMark
<1>0. Types /\ Listed /\ Marked
  BY DEF IInv
<1>1. Built => Shown = has_font
  BY <1>0 DEF Types, Listed, Shown
<1>2. RowsOnce
  BY <1>0, <1>1 DEF Listed, RowsOnce
<1>3. InOrder
  <2>1. SUFFICES ASSUME NEW m \in DOMAIN rows, NEW n \in DOMAIN rows, m < n, rows[n] # More
                 PROVE  /\ rows[m] # More
                        /\ is_extra(rows[m]) => is_extra(rows[n])
                        /\ is_extra(rows[m]) = is_extra(rows[n]) =>
                              \/ SortKey[rows[m]] < SortKey[rows[n]]
                              \/ SortKey[rows[m]] = SortKey[rows[n]] /\ Id[rows[m]] < Id[rows[n]]
    BY DEF InOrder
  <2>2. sort_languages(rows[m], rows[n])
    BY <1>0, <2>1 DEF Listed, Sorted
  <2>3. rows[m] # More /\ Precedes(rows[m], rows[n])
    BY <2>1, <2>2 DEF sort_languages
  <2>4. QED
    BY <2>3 DEF Precedes, is_extra
<1>4. OneMark
  BY <1>0 DEF Marked, OneMark
<1>5. QED
  BY <1>2, <1>3, <1>4 DEF RowsRight

THEOREM ListInvariant == Spec => []IInv
<1>1. Init => IInv
  BY InitLemma
<1>2. IInv /\ [Next]_vars => IInv'
  BY StepLemma
<1>3. QED BY <1>1, <1>2, PTL DEF Spec

-----------------------------------------------------------------------------
(* The labels of the window.                                               *)

FaceTexts == {Window!C(m) : m \in Window!Faces}

\* Before the first walk everything is in C and nothing is stored.
Untouched ==
    /\ locale = "C"
    /\ label["heading"] = Window!C("heading") /\ label["row"] \in FaceTexts
    /\ label["status"] = Window!Empty
    /\ \A l \in Window!Labels : original_text[l] = Window!NoText

\* After it the texts of C are stored, so that any walk finds their translation,
\* and the status counts as empty for good.
Walked ==
    /\ locale \in Locales
    /\ original_text["heading"] = Window!C("heading") /\ original_text["row"] \in FaceTexts
    /\ original_text["status"] = Window!Empty
    /\ label["heading"].lang = locale /\ label["row"].lang = locale
    /\ label["status"] = Window!Empty \/ label["status"].msg \in Stages

\* The inductive invariant: that labels are in the language chosen last needs
\* that what is stored with them is in none.
LabelInv ==
    /\ current_language \in Locales /\ idle \in BOOLEAN /\ DOMAIN label = Window!Labels
    /\ IF idle THEN Untouched ELSE Walked

LEMMA TextLemma ==
    /\ \A m \in Stages \union Window!Faces, lang \in Locales :
          /\ Window!gettext(Window!C(m), lang).lang = lang
          /\ Window!gettext(Window!C(m), lang).msg = m
    /\ \A lang \in Locales : Window!gettext(Window!C("heading"), lang).lang = lang
    /\ \A m \in Window!Faces : Window!gettext(Window!C(m), "C") = Window!C(m)
    /\ Window!NoText # Window!Empty /\ Window!C("heading") # Window!Empty
    /\ Window!C("heading") # Window!NoText
    /\ \A t \in FaceTexts : t # Window!Empty /\ t # Window!NoText
<1>1. "" \notin Stages /\ "" \notin Window!Faces
  BY WindowAssumption DEF Window!LanguagesAssumption, Window!Faces
<1>2. ASSUME NEW m PROVE Window!C(m).msg = m /\ Window!C(m).lang = "C"
  BY DEF Window!C
<1>3. ASSUME NEW m, m # "" PROVE Window!C(m) # Window!Empty
  <2>1. Window!Empty.msg = ""
    BY <1>2 DEF Window!Empty
  <2>2. QED
    BY <1>2, <1>3, <2>1
<1>4. ASSUME NEW m, m # "", NEW lang
      PROVE  /\ Window!gettext(Window!C(m), lang).lang = lang
             /\ Window!gettext(Window!C(m), lang).msg = m
             /\ lang = "C" => Window!gettext(Window!C(m), lang) = Window!C(m)
  <2>1. Window!gettext(Window!C(m), lang) = [Window!C(m) EXCEPT !.lang = lang]
    BY <1>2, <1>3, <1>4 DEF Window!gettext
  <2>2. [Window!C(m) EXCEPT !.lang = lang] = [msg |-> m, lang |-> lang]
    BY DEF Window!C
  <2>3. [msg |-> m, lang |-> lang].lang = lang /\ [msg |-> m, lang |-> lang].msg = m
    OBVIOUS
  <2>4. QED
    BY <2>1, <2>2, <2>3 DEF Window!C
<1>5. \A m \in Stages \union Window!Faces : m # ""
  BY <1>1
<1>6. "heading" # "" /\ "none" # "" /\ "heading" # "none"
  OBVIOUS
<1>7. /\ Window!NoText # Window!Empty /\ Window!C("heading") # Window!Empty
      /\ Window!C("heading") # Window!NoText
  <2>1. Window!NoText.msg = "none"
    BY <1>2 DEF Window!NoText
  <2>2. QED
    BY <1>2, <1>3, <1>6, <2>1 DEF Window!NoText
<1>8. ASSUME NEW t \in FaceTexts PROVE t # Window!Empty /\ t # Window!NoText
  <2>1. PICK m \in Window!Faces : t = Window!C(m)
    BY DEF FaceTexts
  <2>2. m # "none" /\ m # ""
    BY <1>5 DEF Window!Faces
  <2>3. Window!NoText.msg = "none" /\ t.msg = m
    BY <1>2, <2>1 DEF Window!NoText
  <2>4. QED
    BY <1>3, <2>1, <2>2, <2>3
<1>9. QED
  BY <1>4, <1>5, <1>6, <1>7, <1>8

\* The first walk stores what the labels say, later ones find it: each leaves
\* every label in its language.
LEMMA WalkLemma ==
    ASSUME LabelInv, NEW lang \in Locales, Window!walk_all_widgets_recursive(lang), locale' = lang,
           idle' = FALSE, current_language' = current_language
    PROVE  LabelInv'
<1> DEFINE S(l) == Window!Stored(l)
<1>1. /\ S("heading") = Window!C("heading") /\ S("row") \in FaceTexts
      /\ S("status") = Window!Empty
  BY TextLemma DEF LabelInv, Untouched, Walked, Window!Stored, Window!Labels
<1>2. /\ label' = [l \in Window!Labels |->
                      IF S(l) = Window!Empty THEN label[l] ELSE Window!gettext(S(l), lang)]
      /\ original_text' = [l \in Window!Labels |-> S(l)]
  BY DEF Window!walk_all_widgets_recursive
<1> HIDE DEF S
<1>3. /\ label'["heading"] = Window!gettext(Window!C("heading"), lang)
      /\ label'["row"] = Window!gettext(S("row"), lang)
      /\ label'["status"] = label["status"]
      /\ DOMAIN label' = Window!Labels
  BY <1>1, <1>2, TextLemma DEF Window!Labels
<1>4. label'["heading"].lang = lang /\ label'["row"].lang = lang
  BY <1>1, <1>3, TextLemma DEF FaceTexts
<1>5. /\ original_text'["heading"] = Window!C("heading") /\ original_text'["row"] \in FaceTexts
      /\ original_text'["status"] = Window!Empty
  BY <1>1, <1>2 DEF Window!Labels
<1>6. label["status"] = Window!Empty \/ label["status"].msg \in Stages
  BY DEF LabelInv, Untouched, Walked
<1>7. Walked'
  BY <1>3, <1>4, <1>5, <1>6 DEF Walked
<1>8. QED
  BY <1>3, <1>7 DEF LabelInv

LEMMA WindowStep == ASSUME LabelInv, [Window!Next]_window PROVE LabelInv'
<1>1. CASE Window!update_lang
  <2>1. current_language \in Locales
    BY DEF LabelInv
  <2>2. QED
    BY <1>1, <2>1, WalkLemma DEF Window!update_lang
<1>2. ASSUME NEW lang \in Locales, Window!row_activated(lang) PROVE LabelInv'
  <2>1. idle' = FALSE
    BY <1>2 DEF Window!row_activated, LabelInv
  <2>2. QED
    BY <1>2, <2>1, WalkLemma DEF Window!row_activated
<1>3. ASSUME NEW m \in Window!Faces, Window!update_face_row(m) PROVE LabelInv'
  <2> DEFINE text == Window!gettext(Window!C(m), locale)
  <2>1. /\ label' = label \/ label' = [label EXCEPT !["row"] = text]
        /\ UNCHANGED <<current_language, locale, idle, original_text>>
    BY <1>3 DEF Window!update_face_row
  <2>2. idle => text \in FaceTexts
    BY TextLemma DEF LabelInv, Untouched, FaceTexts
  <2>3. ~idle => text.lang = locale
    BY TextLemma DEF LabelInv, Walked
  <2> HIDE DEF text
  <2>4. QED
    BY <2>1, <2>2, <2>3 DEF LabelInv, Untouched, Walked, Window!Labels
<1>4. ASSUME NEW m \in Stages, Window!SetStatus(m) PROVE LabelInv'
  <2> DEFINE text == Window!gettext(Window!C(m), locale)
  <2>1. /\ label' = [label EXCEPT !["status"] = text] /\ ~idle
        /\ UNCHANGED <<current_language, locale, idle, original_text>>
    BY <1>4 DEF Window!SetStatus
  <2>2. text.msg \in Stages
    BY <2>1, TextLemma DEF LabelInv, Walked
  <2> HIDE DEF text
  <2>3. QED
    BY <2>1, <2>2 DEF LabelInv, Untouched, Walked, Window!Labels
<1>5. CASE UNCHANGED window
  BY <1>5 DEF window, LabelInv, Untouched, Walked
<1>6. QED
  BY <1>1, <1>2, <1>3, <1>4, <1>5 DEF Window!Next

\* Alone in its window, whatever is clicked and whatever sets labels.
THEOREM InTheLanguageAlone == Window!Spec => []Window!InTheLanguage
<1>1. Window!Init => LabelInv
  BY DEF Window!Init, LabelInv, Untouched, FaceTexts, Window!Labels
<1>2. LabelInv /\ [Window!Next]_window => LabelInv'
  BY WindowStep
<1>3. LabelInv => Window!InTheLanguage
  BY DEF LabelInv, Walked, Window!InTheLanguage
<1>4. QED BY <1>1, <1>2, <1>3, PTL DEF Window!Spec, window, Window!vars

-----------------------------------------------------------------------------
(* Flattening.                                                             *)

\* Induction up to n, with a set in the place of a predicate.
LEMMA UpTo ==
    ASSUME NEW n \in Nat, NEW T, 0 \in T,
           \A k \in 1..n : k - 1 \in T => k \in T
    PROVE  \A k \in 0..n : k \in T
<1> DEFINE D == (0..n) \ T
<1> SUFFICES ASSUME D # {} PROVE FALSE
  OBVIOUS
<1>1. D \subseteq Nat
  OBVIOUS
<1> HIDE DEF D
<1>2. PICK x \in D : \A y \in D : x <= y
  BY <1>1, LeastNat
<1>3. x \in 1..n /\ x - 1 \in 0..n /\ ~(x <= x - 1)
  BY <1>2 DEF D
<1>4. x - 1 \in T /\ x \notin T
  BY <1>2, <1>3 DEF D
<1>5. QED
  BY <1>3, <1>4

\* There is a sequence that starts with base and goes on by G.
Iterable(n, S, base, G) ==
    \E f \in [0..n -> S] : f[0] = base /\ \A k \in 1..n : f[k] = G[f[k - 1]][k]

LEMMA Iteration ==
    ASSUME NEW n \in Nat, NEW S, NEW base \in S, NEW G \in [S -> [1..n -> S]]
    PROVE  Iterable(n, S, base, G)
<1> DEFINE Good(m, f) == f[0] = base /\ \A k \in 1..m : f[k] = G[f[k - 1]][k]
           T == {m \in 0..n : \E f \in [0..m -> S] : Good(m, f)}
<1>1. 0 \in T
  <2> DEFINE f == [x \in 0..0 |-> base]
  <2>1. f \in [0..0 -> S] /\ f[0] = base
    OBVIOUS
  <2>2. Good(0, f)
    BY <2>1
  <2> HIDE DEF f
  <2>3. QED
    BY <2>1, <2>2
<1>2. ASSUME NEW m \in 1..n, m - 1 \in T PROVE m \in T
  <2>1. PICK f \in [0..(m - 1) -> S] : Good(m - 1, f)
    BY <1>2
  <2> DEFINE h == [x \in 0..m |-> IF x = m THEN G[f[m - 1]][m] ELSE f[x]]
  <2>2. m - 1 \in 0..(m - 1) /\ G[f[m - 1]][m] \in S
    OBVIOUS
  <2>3. h \in [0..m -> S]
    BY <2>2
  <2>4. h[0] = base
    BY <2>1
  <2>5. ASSUME NEW k \in 1..m PROVE h[k] = G[h[k - 1]][k]
    <3>1. k - 1 \in 0..m /\ k - 1 # m /\ k \in 0..m
      OBVIOUS
    <3>2. h[k - 1] = f[k - 1]
      BY <3>1
    <3>3. CASE k = m
      BY <3>1, <3>2, <3>3
    <3>4. CASE k # m
      <4>1. k \in 1..(m - 1)
        BY <3>4
      <4>2. h[k] = f[k]
        BY <3>1, <3>4
      <4>3. QED
        BY <2>1, <3>2, <4>1, <4>2
    <3>5. QED
      BY <3>3, <3>4
  <2> HIDE DEF h
  <2>6. Good(m, h)
    BY <2>4, <2>5
  <2>7. m \in 0..n
    OBVIOUS
  <2>8. QED
    BY <2>3, <2>6, <2>7
<1> HIDE DEF T
<1>3. \A k \in 0..n : k \in T
  BY <1>1, <1>2, UpTo
<1>4. n \in T
  BY <1>3
<1>5. QED
  BY <1>4 DEF T, Iterable

\* f has what comes of the first k parts, for each k.
IsPrefixes(f, F) ==
    /\ f[0] = <<>>
    /\ \A k \in 1..Len(F) : f[k] = f[k - 1] \o F[k]

LEMMA PrefixesExist ==
    ASSUME NEW S, NEW F \in Seq(Seq(S))
    PROVE  \E f \in [0..Len(F) -> Seq(S)] : IsPrefixes(f, F)
<1> DEFINE G == [s \in Seq(S) |-> [k \in 1..Len(F) |-> s \o F[k]]]
<1>1. ASSUME NEW s \in Seq(S), NEW k \in 1..Len(F) PROVE G[s][k] = s \o F[k] /\ G[s][k] \in Seq(S)
  <2>1. F[k] \in Seq(S)
    BY ElementOfSeq
  <2>2. G[s][k] = s \o F[k]
    OBVIOUS
  <2>3. s \o F[k] \in Seq(S)
    BY <2>1, ConcatProperties
  <2>4. QED
    BY <2>2, <2>3
<1> HIDE DEF G
<1>2. Len(F) \in Nat /\ <<>> \in Seq(S)
  BY EmptySeq
<1> DEFINE n == Len(F)
           none == <<>>
           SS == Seq(S)
<1> HIDE DEF n, none, SS
<1>3. Iterable(n, SS, none, G)
  <2>1. n \in Nat /\ none \in SS
    BY <1>2 DEF n, none, SS
  <2>2. G \in [SS -> [1..n -> SS]]
    <3>1. \A s \in SS, k \in 1..n : s \o F[k] \in SS
      BY <1>1 DEF n, SS
    <3>2. QED
      BY <3>1 DEF G, n, SS
  <2>3. QED
    BY <2>1, <2>2, Iteration
<1>4. PICK f \in [0..Len(F) -> Seq(S)] : f[0] = <<>> /\ \A k \in 1..Len(F) : f[k] = G[f[k - 1]][k]
  BY <1>3 DEF n, none, SS, Iterable
<1>5. ASSUME NEW k \in 1..Len(F) PROVE f[k] = f[k - 1] \o F[k]
  <2>1. k - 1 \in 0..Len(F)
    BY <1>2
  <2>2. QED
    BY <1>1, <1>4, <2>1
<1>6. QED
  BY <1>4, <1>5 DEF IsPrefixes

\* The recursive function of FlattenSeq computes the last of them.
LEMMA FlattenLemma ==
    ASSUME NEW S, NEW F \in Seq(Seq(S)), NEW f \in [0..Len(F) -> Seq(S)], IsPrefixes(f, F)
    PROVE  FlattenSeq(F) = f[Len(F)]
<1> DEFINE n == Len(F)
<1>0. n \in Nat
  OBVIOUS
<1>1. CASE n = 0
  BY <1>1 DEF FlattenSeq, IsPrefixes
<1>2. CASE n # 0
  <2> DEFINE flatten == CHOOSE h : h = [k \in 1..n |-> IF k = 1 THEN F[k] ELSE h[k - 1] \o F[k]]
             g == [k \in 1..n |-> f[k]]
  <2>1. FlattenSeq(F) = flatten[n]
    BY <1>2 DEF FlattenSeq
  <2>2. f[1] = F[1]
    <3>1. 1 \in 1..n /\ f[1] = f[0] \o F[1] /\ f[0] = <<>>
      <4>1. 1 \in 1..n /\ 1 - 1 = 0
        BY <1>0, <1>2
      <4>2. f[1] = f[1 - 1] \o F[1] /\ f[0] = <<>>
        BY <4>1 DEF IsPrefixes
      <4>3. QED
        BY <4>1, <4>2
    <3>2. F[1] \in Seq(S)
      BY <3>1, ElementOfSeq
    <3>3. QED
      BY <3>1, <3>2, ConcatEmptySeq
  <2>3. g = [k \in 1..n |-> IF k = 1 THEN F[k] ELSE g[k - 1] \o F[k]]
    <3>1. ASSUME NEW k \in 1..n, k # 1 PROVE f[k] = g[k - 1] \o F[k]
      <4>1. k - 1 \in 1..n
        BY <1>0, <3>1
      <4>2. g[k - 1] = f[k - 1]
        BY <4>1
      <4>3. QED
        BY <4>2 DEF IsPrefixes
    <3>2. QED
      BY <2>2, <3>1
  <2> HIDE DEF g
  <2>4. flatten = [k \in 1..n |-> IF k = 1 THEN F[k] ELSE flatten[k - 1] \o F[k]]
    BY <2>3
  <2> HIDE DEF flatten
  <2>5. \A k \in 1..n : flatten[k] = IF k = 1 THEN F[k] ELSE flatten[k - 1] \o F[k]
    BY <2>4
  <2> DEFINE T == {k \in 0..n : k # 0 => flatten[k] = f[k]}
  <2>6. ASSUME NEW k \in 1..n, k - 1 \in T PROVE k \in T
    <3>1. CASE k = 1
      BY <2>2, <2>5, <3>1
    <3>2. CASE k # 1
      <4>1. flatten[k - 1] = f[k - 1]
        BY <1>0, <2>6, <3>2
      <4>2. flatten[k] = flatten[k - 1] \o F[k]
        BY <2>5, <3>2
      <4>3. f[k] = f[k - 1] \o F[k]
        BY DEF IsPrefixes
      <4>4. flatten[k] = f[k]
        BY <4>1, <4>2, <4>3
      <4>5. k \in 0..n
        BY <1>0
      <4>6. QED
        BY <4>4, <4>5
    <3>3. QED
      BY <3>1, <3>2
  <2>7. 0 \in T
    BY <1>0
  <2> HIDE DEF T, n
  <2>8. \A k \in 0..n : k \in T
    BY <1>0, <2>6, <2>7, UpTo
  <2>9. QED
    BY <1>0, <1>2, <2>1, <2>8 DEF T, n
<1>3. QED
  BY <1>1, <1>2

\* The next part is put behind what is there.
PutsBehind(f, F, k) ==
    /\ Len(f[k + 1]) = Len(f[k]) + Len(F[k + 1])
    /\ \A b \in 1..Len(f[k + 1]) :
          f[k + 1][b] = IF b <= Len(f[k]) THEN f[k][b] ELSE F[k + 1][b - Len(f[k])]

LEMMA PrefixStep ==
    ASSUME NEW S, NEW F \in Seq(Seq(S)), NEW f \in [0..Len(F) -> Seq(S)], IsPrefixes(f, F),
           NEW k \in 0..Len(F), k < Len(F)
    PROVE  PutsBehind(f, F, k)
<1>1. k + 1 \in 1..Len(F) /\ (k + 1) - 1 = k
  OBVIOUS
<1>2. f[k + 1] = f[k] \o F[k + 1]
  <2>1. f[k + 1] = f[(k + 1) - 1] \o F[k + 1]
    BY <1>1 DEF IsPrefixes
  <2>2. QED
    BY <1>1, <2>1
<1>3. f[k] \in Seq(S) /\ F[k + 1] \in Seq(S)
  BY <1>1, ElementOfSeq
<1>4. QED
  BY <1>2, <1>3, ConcatProperties DEF PutsBehind

InFront(f, k, n) ==
    Len(f[k]) <= Len(f[n]) /\ \A b \in 1..Len(f[k]) : f[n][b] = f[k][b]

\* What is flattened stays in front of what is flattened later.
LEMMA PrefixStays ==
    ASSUME NEW S, NEW F \in Seq(Seq(S)), NEW f \in [0..Len(F) -> Seq(S)], IsPrefixes(f, F),
           NEW k \in 0..Len(F), NEW n \in 0..Len(F), k <= n
    PROVE  InFront(f, k, n)
<1> DEFINE Stays(m) == Len(f[k]) <= Len(f[m]) /\ \A b \in 1..Len(f[k]) : f[m][b] = f[k][b]
           T == {d \in 0..(n - k) : Stays(k + d)}
<1>0. \A m \in 0..Len(F) : Len(f[m]) \in Nat
  BY LenProperties
<1>1. 0 \in T
  BY <1>0
<1>2. ASSUME NEW d \in 1..(n - k), d - 1 \in T PROVE d \in T
  <2> DEFINE m == k + (d - 1)
  <2>1. m \in 0..Len(F) /\ m < Len(F) /\ k + d = m + 1 /\ d \in 0..(n - k) /\ m + 1 \in 0..Len(F)
    OBVIOUS
  <2>2. Stays(m)
    BY <1>2
  <2> HIDE DEF m
  <2>3. /\ Len(f[m + 1]) = Len(f[m]) + Len(F[m + 1])
        /\ \A b \in 1..Len(f[m + 1]) :
              f[m + 1][b] = IF b <= Len(f[m]) THEN f[m][b] ELSE F[m + 1][b - Len(f[m])]
    <3>1. PutsBehind(f, F, m)
      BY <2>1, PrefixStep
    <3>2. QED
      BY <3>1 DEF PutsBehind
  <2>4. Len(F[m + 1]) \in Nat
    BY <2>1, ElementOfSeq, LenProperties
  <2>5. Len(f[k]) <= Len(f[m + 1])
    BY <1>0, <2>1, <2>2, <2>3, <2>4
  <2>6. ASSUME NEW b \in 1..Len(f[k]) PROVE f[m + 1][b] = f[k][b]
    <3>1. b <= Len(f[m]) /\ b \in 1..Len(f[m + 1])
      BY <1>0, <2>1, <2>2, <2>5
    <3>2. QED
      BY <2>2, <2>3, <3>1
  <2>7. Stays(k + d)
    BY <2>1, <2>5, <2>6
  <2>8. QED
    BY <2>1, <2>7
<1>3. n - k \in Nat /\ n - k \in 0..(n - k) /\ k + (n - k) = n
  OBVIOUS
<1> HIDE DEF T
<1>4. \A d \in 0..(n - k) : d \in T
  BY <1>1, <1>2, <1>3, UpTo
<1>5. n - k \in T
  BY <1>3, <1>4
<1> HIDE DEF Stays
<1>6. Stays(n)
  BY <1>3, <1>5 DEF T
<1>7. QED
  BY <1>6 DEF Stays, InFront

-----------------------------------------------------------------------------
(* The sort key of a name.                                                 *)

Byte == Nat \X Nat

\* The bytes of each character, and of each that is kept.
Parts == [k \in DOMAIN str |-> Key!BytesOf(k, str[k].len)]
Kept ==
    [k \in DOMAIN str |->
        IF k \in Key!Valid /\ str[k].kind = "plain" THEN Key!BytesOf(k, str[k].len) ELSE <<>>]

\* The loop is before character k + 1: behind i nothing was written over, and
\* what it kept of the first k is before j.
At(k, f, g) ==
    /\ i = Len(f[k]) /\ j = Len(g[k]) /\ j <= i
    /\ \A m \in 1..k : str[m].kind # "invalid"
    /\ \A b \in 1..j : tmp[b] = g[k][b]
    /\ \A b \in (i + 1)..Len(tmp) : tmp[b] = f[Len(str)][b]
    /\ end # -1 => end = j /\ (k < Len(str) => str[k + 1].kind = "invalid")

\* The inductive invariant of the loop; f and g are what the bytes of the first
\* k characters come to, all of them and those that are kept.
Reading(f, g) ==
    /\ f \in [0..Len(str) -> Seq(Byte)] /\ IsPrefixes(f, Parts)
    /\ g \in [0..Len(str) -> Seq(Byte)] /\ IsPrefixes(g, Kept)
    /\ Len(tmp) = Len(f[Len(str)])
    /\ \E k \in 0..Len(str) : At(k, f, g)

KeyInv ==
    /\ str \in Seq(Key!Chars) /\ tmp \in Seq(Byte) /\ end \in Int
    /\ \E f, g : Reading(f, g)

LEMMA PartsLemma ==
    ASSUME str \in Seq(Key!Chars)
    PROVE  /\ Parts \in Seq(Seq(Byte)) /\ Kept \in Seq(Seq(Byte))
           /\ Len(Parts) = Len(str) /\ Len(Kept) = Len(str)
           /\ \A k \in 1..Len(str) :
                 /\ str[k] \in Key!Chars /\ str[k].len \in 1..4
                 /\ Parts[k] = Key!BytesOf(k, str[k].len)
                 /\ Kept[k] = IF k \in Key!Valid /\ str[k].kind = "plain"
                              THEN Parts[k] ELSE <<>>
           /\ \A k, n \in Nat :
                 /\ Key!BytesOf(k, n) \in Seq(Byte) /\ Len(Key!BytesOf(k, n)) = n
                 /\ \A b \in 1..n : Key!BytesOf(k, n)[b] = <<k, b>>
<1>1. Len(str) \in Nat /\ DOMAIN str = 1..Len(str) /\ \A k \in 1..Len(str) : str[k] \in Key!Chars
  OBVIOUS
<1>2. \A c \in Key!Chars : c.len \in 1..4 /\ c.kind \in {"plain", "mark", "invalid"}
  BY DEF Key!Chars
<1>3. ASSUME NEW k \in Nat, NEW n \in Nat
      PROVE  /\ Key!BytesOf(k, n) \in Seq(Byte) /\ Len(Key!BytesOf(k, n)) = n
             /\ \A b \in 1..n : Key!BytesOf(k, n)[b] = <<k, b>>
  <2>1. \A b \in 1..n : <<k, b>> \in Byte
    BY DEF Byte
  <2>2. Key!BytesOf(k, n) = [b \in 1..n |-> <<k, b>>]
    BY DEF Key!BytesOf
  <2>3. [b \in 1..n |-> <<k, b>>] \in Seq(Byte) /\ Len([b \in 1..n |-> <<k, b>>]) = n
    BY <2>1
  <2>4. \A b \in 1..n : [c \in 1..n |-> <<k, c>>][b] = <<k, b>>
    OBVIOUS
  <2>5. QED
    BY <2>2, <2>3, <2>4
<1>4. ASSUME NEW k \in 1..Len(str) PROVE Key!BytesOf(k, str[k].len) \in Seq(Byte)
  <2>1. str[k].len \in Nat /\ k \in Nat
    BY <1>1, <1>2
  <2>2. QED
    BY <1>3, <2>1
<1>5. <<>> \in Seq(Byte)
  BY EmptySeq
<1>6. Parts \in Seq(Seq(Byte)) /\ Len(Parts) = Len(str)
  BY <1>1, <1>4 DEF Parts
<1>7. Kept \in Seq(Seq(Byte)) /\ Len(Kept) = Len(str)
  BY <1>1, <1>4, <1>5 DEF Kept
<1>8. ASSUME NEW k \in 1..Len(str)
      PROVE  /\ Parts[k] = Key!BytesOf(k, str[k].len)
             /\ Kept[k] = IF k \in Key!Valid /\ str[k].kind = "plain" THEN Parts[k] ELSE <<>>
  BY <1>1 DEF Parts, Kept
<1>9. QED
  BY <1>1, <1>2, <1>3, <1>6, <1>7, <1>8

\* The valid characters are those before the first that is not.
LEMMA ValidLemma ==
    ASSUME str \in Seq(Key!Chars), NEW k \in 0..Len(str), \A m \in 1..k : str[m].kind # "invalid"
    PROVE  /\ 1..k \subseteq Key!Valid
           /\ k < Len(str) /\ str[k + 1].kind = "invalid" => Key!Valid = 1..k
<1> DEFINE bad == {m \in DOMAIN str : str[m].kind = "invalid"}
<1>1. DOMAIN str = 1..Len(str) /\ Len(str) \in Nat /\ bad \subseteq Nat /\ \A m \in bad : m > k
  OBVIOUS
<1>2. Key!Valid = 1..(IF bad = {} THEN Len(str) ELSE Min(bad) - 1)
  BY Zenon DEF Key!Valid, Key!Min, Min
<1>3. k < Len(str) /\ str[k + 1].kind = "invalid" => k + 1 \in bad
  BY <1>1
<1> HIDE DEF bad
<1>4. ASSUME bad # {} PROVE Min(bad) \in bad /\ \A y \in bad : Min(bad) <= y
  BY <1>1, <1>4, MinLemma, Zenon
<1>5. CASE bad = {}
  <2>1. Key!Valid = 1..Len(str)
    BY <1>2, <1>5
  <2>2. ~(k < Len(str) /\ str[k + 1].kind = "invalid")
    BY <1>3, <1>5
  <2>3. 1..k \subseteq 1..Len(str)
    BY <1>1
  <2>4. QED
    BY <2>1, <2>2, <2>3
<1>6. CASE bad # {}
  <2>1. Min(bad) > k /\ Min(bad) \in Nat
    BY <1>1, <1>4, <1>6
  <2>2. k + 1 \in bad => Min(bad) = k + 1
    BY <1>1, <1>4, <1>6, <2>1
  <2>3. QED
    BY <1>2, <1>3, <1>6, <2>1, <2>2
<1>7. QED
  BY <1>5, <1>6

\* While there is something to read, the loop looks at character k + 1, and its
\* bytes are still in the buffer.
LEMMA HereLemma ==
    ASSUME KeyInv, NEW f, NEW g, Reading(f, g), NEW k \in 0..Len(str), At(k, f, g), i < Len(tmp)
    PROVE  /\ k < Len(str) /\ k + 1 \in 1..Len(str) /\ Key!Here = str[k + 1]
           /\ Key!Here.len \in 1..4 /\ Len(f[k + 1]) = i + Key!Here.len
           /\ i + Key!Here.len <= Len(tmp)
           /\ \A b \in (i + 1)..(i + Key!Here.len) : tmp[b] = Parts[k + 1][b - i]
<1> DEFINE n == Len(str)
<1>0. /\ str \in Seq(Key!Chars) /\ n \in Nat /\ Len(Parts) = n /\ Parts \in Seq(Seq(Byte))
      /\ f \in [0..n -> Seq(Byte)] /\ IsPrefixes(f, Parts) /\ Len(tmp) = Len(f[n])
  BY PartsLemma, LenProperties DEF KeyInv, Reading
<1> HIDE DEF n
<1>1. \A m \in 0..n : Len(f[m]) \in Nat
  BY <1>0, LenProperties
<1>2. i = Len(f[k]) /\ k \in 0..n /\ n \in 0..n /\ i \in Nat
  BY <1>0, <1>1 DEF At, n
<1>3. k # n
  BY <1>0, <1>2
<1>4. k < n /\ k + 1 \in 1..n /\ k + 1 \in 0..n /\ k + 1 <= n /\ k + 1 \in Nat
  BY <1>0, <1>2, <1>3
<1>5. PutsBehind(f, Parts, k)
  BY <1>0, <1>2, <1>4, PrefixStep
<1>6. InFront(f, k + 1, n)
  BY <1>0, <1>2, <1>4, PrefixStays
<1> DEFINE l == str[k + 1].len
<1>7. /\ l \in 1..4 /\ Parts[k + 1] = Key!BytesOf(k + 1, l) /\ Len(Parts[k + 1]) = l
      /\ Parts[k + 1][1] = <<k + 1, 1>>
  <2>1. l \in 1..4 /\ Parts[k + 1] = Key!BytesOf(k + 1, l)
    BY <1>0, <1>4, PartsLemma DEF n
  <2>2. l \in Nat /\ 1 \in 1..l
    BY <2>1
  <2>3. Len(Key!BytesOf(k + 1, l)) = l /\ Key!BytesOf(k + 1, l)[1] = <<k + 1, 1>>
    BY <1>0, <1>4, <2>2, PartsLemma
  <2>4. QED
    BY <2>1, <2>3
<1> HIDE DEF l
<1>8. Len(f[k + 1]) = i + l /\ i + l <= Len(tmp)
  BY <1>0, <1>2, <1>5, <1>6, <1>7 DEF PutsBehind, InFront
<1>9. ASSUME NEW b \in (i + 1)..(i + l) PROVE tmp[b] = Parts[k + 1][b - i]
  <2>1. b \in 1..Len(f[k + 1]) /\ ~(b <= Len(f[k])) /\ b \in (i + 1)..Len(tmp)
    BY <1>0, <1>1, <1>2, <1>7, <1>8
  <2>2. tmp[b] = f[n][b]
    BY <2>1 DEF At, n
  <2>3. f[n][b] = f[k + 1][b]
    BY <1>6, <2>1 DEF InFront
  <2>4. f[k + 1][b] = Parts[k + 1][b - i]
    BY <1>2, <1>5, <2>1 DEF PutsBehind
  <2>5. QED
    BY <2>2, <2>3, <2>4
<1>10. Key!Here = str[k + 1]
  <2>1. i + 1 \in (i + 1)..(i + l) /\ (i + 1) - i = 1
    BY <1>2, <1>7
  <2>2. tmp[i + 1] = <<k + 1, 1>>
    BY <1>7, <1>9, <2>1
  <2>3. tmp[i + 1][1] = k + 1
    BY <2>2
  <2>4. QED
    BY <2>3 DEF Key!Here
<1>11. QED
  BY <1>4, <1>7, <1>8, <1>9, <1>10 DEF n, l

\* Where the loop is stays true in the next round, when what the step did to the
\* buffer and to the offsets fits the character.
LEMMA NextLemma ==
    ASSUME KeyInv, NEW f, NEW g, Reading(f, g), NEW k \in 0..Len(str), At(k, f, g), i < Len(tmp),
           Key!Here.kind # "invalid", UNCHANGED <<str, end>>, end = -1,
           i' = i + Key!Here.len, j' = Len(g[k + 1]), j' <= i', tmp' \in Seq(Byte), Len(tmp') = Len(tmp),
           \A b \in 1..j' : tmp'[b] = g[k + 1][b],
           \A b \in (i' + 1)..Len(tmp) : tmp'[b] = tmp[b]
    PROVE  KeyInv'
<1>1. /\ k + 1 \in 1..Len(str) /\ Key!Here = str[k + 1] /\ Len(f[k + 1]) = i + Key!Here.len
      /\ Key!Here.len \in 1..4
  BY HereLemma
<1>2. Parts' = Parts /\ Kept' = Kept
  BY DEF Parts, Kept, Key!Valid
<1>3. \A m \in 1..(k + 1) : str[m].kind # "invalid"
  BY <1>1 DEF At
<1>4. i \in Int
  BY <1>1, LenProperties DEF At, Reading
<1>5. ASSUME NEW b \in (i' + 1)..Len(tmp) PROVE tmp'[b] = f[Len(str)][b]
  <2>1. b \in (i + 1)..Len(tmp)
    BY <1>1, <1>4, LenProperties DEF KeyInv
  <2>2. tmp[b] = f[Len(str)][b]
    BY <2>1 DEF At
  <2>3. QED
    BY <2>2
<1>6. At(k + 1, f, g)'
  BY <1>1, <1>3, <1>5 DEF At
<1>7. k + 1 \in 0..Len(str)
  BY <1>1
<1>8. Reading(f, g)'
  BY <1>2, <1>6, <1>7 DEF Reading
<1>9. QED
  BY <1>8 DEF KeyInv

LEMMA SkipMarkLemma == ASSUME KeyInv, Key!SkipMark PROVE KeyInv'
<1>0. /\ end = -1 /\ i < Len(tmp) /\ Key!Here.kind = "mark" /\ i' = i + Key!Here.len
      /\ UNCHANGED <<str, tmp, j, end>>
  BY DEF Key!SkipMark
<1>1. PICK f, g : Reading(f, g)
  BY DEF KeyInv
<1>2. PICK k \in 0..Len(str) : At(k, f, g)
  BY <1>1 DEF Reading
<1>3. /\ k < Len(str) /\ k + 1 \in 1..Len(str) /\ Key!Here = str[k + 1] /\ Key!Here.len \in 1..4
      /\ Len(f[k + 1]) = i + Key!Here.len
  BY <1>0, <1>1, <1>2, HereLemma
<1>4. Kept[k + 1] = <<>>
  BY <1>0, <1>3, PartsLemma DEF KeyInv
<1>5. /\ Kept \in Seq(Seq(Byte)) /\ Len(Kept) = Len(str) /\ g \in [0..Len(str) -> Seq(Byte)]
      /\ IsPrefixes(g, Kept) /\ Len(str) \in Nat
  BY <1>1, PartsLemma, LenProperties DEF KeyInv, Reading
<1>6. g[k + 1] = g[k]
  <2>1. k \in Int
    BY <1>2, <1>5
  <2>2. (k + 1) - 1 = k
    BY ONLY <2>1
  <2>3. g[k + 1] = g[(k + 1) - 1] \o Kept[k + 1]
    BY <1>3, <1>5 DEF IsPrefixes
  <2>4. g[k] \in Seq(Byte)
    BY <1>1 DEF Reading
  <2>5. QED
    BY <1>4, <2>2, <2>3, <2>4, ConcatEmptySeq
<1>7. j = Len(g[k]) /\ j <= i /\ \A b \in 1..j : tmp[b] = g[k][b]
  BY <1>2 DEF At
<1>8. i \in Nat /\ j \in Nat
  <2>1. f[k] \in Seq(Byte) /\ g[k] \in Seq(Byte)
    BY <1>1 DEF Reading
  <2>2. QED
    BY <1>2, <2>1, LenProperties DEF At
<1>9. j' <= i'
  BY <1>0, <1>3, <1>7, <1>8
<1>10. QED
  BY <1>0, <1>1, <1>2, <1>6, <1>7, <1>9, NextLemma DEF KeyInv

LEMMA KeepLemma == ASSUME KeyInv, Key!Keep PROVE KeyInv'
<1> DEFINE l == Key!Here.len
<1>0. /\ end = -1 /\ i < Len(tmp) /\ Key!Here.kind = "plain" /\ i' = i + l /\ j' = j + l
      /\ tmp' = IF i # j THEN Key!memmove(j, i, l) ELSE tmp
      /\ UNCHANGED <<str, end>>
  BY DEF Key!Keep
<1>1. PICK f, g : Reading(f, g)
  BY DEF KeyInv
<1>2. PICK k \in 0..Len(str) : At(k, f, g)
  BY <1>1 DEF Reading
<1>3. /\ k < Len(str) /\ k + 1 \in 1..Len(str) /\ Key!Here = str[k + 1] /\ l \in 1..4
      /\ i + l <= Len(tmp) /\ \A b \in (i + 1)..(i + l) : tmp[b] = Parts[k + 1][b - i]
  BY <1>0, <1>1, <1>2, HereLemma
<1>4. /\ j = Len(g[k]) /\ j <= i /\ \A b \in 1..j : tmp[b] = g[k][b]
      /\ \A m \in 1..k : str[m].kind # "invalid"
  BY <1>2 DEF At
<1>5. Kept[k + 1] = Parts[k + 1] /\ Len(Parts[k + 1]) = l
  <2>1. \A m \in 1..(k + 1) : str[m].kind # "invalid"
    BY <1>0, <1>3, <1>4
  <2>2. k + 1 \in Key!Valid
    <3>1. k + 1 \in 0..Len(str) /\ k + 1 \in 1..(k + 1)
      BY <1>3
    <3>2. QED
      BY <2>1, <3>1, ValidLemma DEF KeyInv
  <2>3. Kept[k + 1] = Parts[k + 1] /\ Parts[k + 1] = Key!BytesOf(k + 1, l)
    BY <1>0, <1>3, <2>2, PartsLemma DEF KeyInv
  <2>4. k + 1 \in Nat /\ l \in Nat
    BY <1>3
  <2>5. Len(Key!BytesOf(k + 1, l)) = l
    BY <2>4, PartsLemma DEF KeyInv
  <2>6. QED
    BY <2>3, <2>5
<1>6. /\ Kept \in Seq(Seq(Byte)) /\ Len(Kept) = Len(str) /\ g \in [0..Len(str) -> Seq(Byte)]
      /\ IsPrefixes(g, Kept) /\ tmp \in Seq(Byte)
  BY <1>1, PartsLemma DEF KeyInv, Reading
<1>7. i \in Nat /\ j \in Nat /\ Len(tmp) \in Nat
  <2>1. f[k] \in Seq(Byte) /\ g[k] \in Seq(Byte) /\ tmp \in Seq(Byte)
    BY <1>1 DEF Reading, KeyInv
  <2>2. QED
    BY <1>2, <2>1, LenProperties DEF At
<1>8. PutsBehind(g, Kept, k)
  BY <1>3, <1>6, PrefixStep
<1>9. Len(g[k + 1]) = j + l
  BY <1>4, <1>5, <1>8 DEF PutsBehind
<1> HIDE DEF l
<1>10. DOMAIN tmp = 1..Len(tmp) /\ \A b \in 1..Len(tmp) : tmp[b] \in Byte
  BY <1>6, LenProperties, ElementOfSeq
<1>11. /\ tmp' \in Seq(Byte) /\ Len(tmp') = Len(tmp)
       /\ \A b \in 1..Len(tmp) :
             tmp'[b] = IF b \in (j + 1)..(j + l) THEN tmp[i + b - j] ELSE tmp[b]
  <2>1. CASE i = j
    <3>1. tmp' = tmp
      BY <1>0, <2>1
    <3>2. \A b \in 1..Len(tmp) : i + b - j = b
      BY <1>7, <2>1
    <3>3. QED
      BY <1>6, <3>1, <3>2
  <2>2. CASE i # j
    <3> DEFINE new == [b \in 1..Len(tmp) |-> IF b \in (j + 1)..(j + l) THEN tmp[i + b - j] ELSE tmp[b]]
    <3>1. tmp' = new
      BY <1>0, <1>10, <2>2 DEF Key!memmove
    <3>2. ASSUME NEW b \in 1..Len(tmp) PROVE new[b] \in Byte
      <4>1. b \in (j + 1)..(j + l) => i + b - j \in 1..Len(tmp)
        BY <1>3, <1>7, <1>4
      <4>2. QED
        BY <1>10, <4>1
    <3>3. new \in Seq(Byte) /\ Len(new) = Len(tmp)
      BY <1>7, <3>2
    <3>4. QED
      BY <3>1, <3>3
  <2>3. QED
    BY <2>1, <2>2
<1>12. ASSUME NEW b \in 1..j' PROVE tmp'[b] = g[k + 1][b]
  <2>1. b \in 1..Len(tmp) /\ b \in 1..Len(g[k + 1])
    BY <1>0, <1>3, <1>4, <1>7, <1>9
  <2>2. g[k + 1][b] = IF b <= j THEN g[k][b] ELSE Parts[k + 1][b - j]
    BY <1>4, <1>5, <1>8, <2>1 DEF PutsBehind
  <2>3. CASE b <= j
    <3>1. b \in 1..j /\ b \notin (j + 1)..(j + l)
      BY <1>7, <2>1, <2>3
    <3>2. QED
      BY <1>4, <1>11, <2>1, <2>2, <2>3, <3>1
  <2>4. CASE ~(b <= j)
    <3>1. /\ b \in (j + 1)..(j + l) /\ i + b - j \in (i + 1)..(i + l) /\ (i + b - j) - i = b - j
      BY <1>0, <1>3, <1>7, <2>1, <2>4
    <3>2. tmp'[b] = tmp[i + b - j]
      BY <1>11, <2>1, <3>1
    <3>3. tmp[i + b - j] = Parts[k + 1][b - j]
      BY <1>3, <3>1 DEF l
    <3>4. QED
      BY <2>2, <2>4, <3>2, <3>3
  <2>5. QED
    BY <2>3, <2>4
<1>13. ASSUME NEW b \in (i' + 1)..Len(tmp) PROVE tmp'[b] = tmp[b]
  <2>1. b \in 1..Len(tmp) /\ b \notin (j + 1)..(j + l)
    BY <1>0, <1>3, <1>4, <1>7
  <2>2. QED
    BY <1>11, <2>1
<1>14. j' <= i' /\ j' = Len(g[k + 1])
  <2>1. j' = Len(g[k + 1])
    BY <1>0, <1>9
  <2>2. i \in Nat /\ j \in Nat /\ l \in 1..4 /\ j <= i /\ j' = j + l /\ i' = i + l
    BY <1>0, <1>3, <1>4, <1>7
  <2>3. j' <= i'
    BY ONLY <2>2
  <2>4. QED
    BY <2>1, <2>3
<1>15. QED
  BY <1>0, <1>1, <1>2, <1>11, <1>12, <1>13, <1>14, NextLemma DEF l

LEMMA StopLemma == ASSUME KeyInv, Key!Stop PROVE KeyInv'
<1>0. end = -1 /\ (i < Len(tmp) => Key!Here.kind = "invalid") /\ end' = j /\ UNCHANGED <<str, tmp, i, j>>
  BY DEF Key!Stop
<1>1. PICK f, g : Reading(f, g)
  BY DEF KeyInv
<1>2. PICK k \in 0..Len(str) : At(k, f, g)
  BY <1>1 DEF Reading
<1>3. Parts' = Parts /\ Kept' = Kept
  BY <1>0 DEF Parts, Kept, Key!Valid
<1>4. g[k] \in Seq(Byte) /\ f[k] \in Seq(Byte) /\ j \in Int
  BY <1>1, <1>2, LenProperties DEF Reading, At
<1>5. k < Len(str) => str[k + 1].kind = "invalid"
  <2>1. CASE i < Len(tmp)
    BY <1>0, <1>1, <1>2, <2>1, HereLemma
  <2>2. CASE ~(i < Len(tmp)) /\ k < Len(str)
    <3>1. /\ Parts \in Seq(Seq(Byte)) /\ Len(Parts) = Len(str) /\ f \in [0..Len(str) -> Seq(Byte)]
          /\ IsPrefixes(f, Parts) /\ Len(str) \in Nat /\ Len(tmp) = Len(f[Len(str)])
      BY <1>1, PartsLemma, LenProperties DEF KeyInv, Reading
    <3>2. k + 1 \in 1..Len(str) /\ k + 1 \in 0..Len(str) /\ k + 1 <= Len(str) /\ Len(str) \in 0..Len(str)
      BY <2>2, <3>1
    <3>3. PutsBehind(f, Parts, k) /\ InFront(f, k + 1, Len(str))
      BY <2>2, <3>1, <3>2, PrefixStep, PrefixStays
    <3>4. Len(Parts[k + 1]) \in 1..4
      <4>1. Parts[k + 1] = Key!BytesOf(k + 1, str[k + 1].len) /\ str[k + 1].len \in 1..4
        BY <3>2, PartsLemma DEF KeyInv
      <4>2. k + 1 \in Nat /\ str[k + 1].len \in Nat
        BY <4>1
      <4>3. Len(Key!BytesOf(k + 1, str[k + 1].len)) = str[k + 1].len
        BY <4>2, PartsLemma DEF KeyInv
      <4>4. QED
        BY <4>1, <4>3
    <3>5. Len(f[k]) \in Nat /\ Len(f[Len(str)]) \in Nat /\ i = Len(f[k])
      BY <1>2, <1>4, <3>1, <3>2, LenProperties DEF At
    <3>6. Len(f[k + 1]) = i + Len(Parts[k + 1]) /\ Len(f[k + 1]) <= Len(tmp)
      BY <3>1, <3>3, <3>5 DEF PutsBehind, InFront
    <3> DEFINE before == Len(f[k])
               after == Len(f[k + 1])
               width == Len(Parts[k + 1])
               all == Len(f[Len(str)])
    <3>7. /\ before \in Nat /\ width \in 1..4 /\ all \in Nat /\ i = before /\ ~(i < Len(tmp))
          /\ Len(tmp) = all /\ after = i + width /\ after <= Len(tmp)
      BY <2>2, <3>1, <3>4, <3>5, <3>6
    <3> HIDE DEF before, after, width, all
    <3>8. FALSE
      BY ONLY <3>7
    <3>9. QED
      BY <3>8
  <2>3. QED
    BY <2>1, <2>2
<1>6. At(k, f, g)'
  BY <1>0, <1>2, <1>5 DEF At
<1>7. Reading(f, g)'
  BY <1>0, <1>1, <1>3, <1>6 DEF Reading
<1>8. QED
  BY <1>0, <1>4, <1>7 DEF KeyInv

LEMMA KeyStep == ASSUME KeyInv, [Key!Next]_name PROVE KeyInv'
<1>1. CASE Key!Next
  BY <1>1, StopLemma, SkipMarkLemma, KeepLemma DEF Key!Next
<1>2. CASE UNCHANGED name
  <2>1. UNCHANGED <<str, tmp, i, j, end>>
    BY <1>2 DEF name
  <2>2. PICK f, g : Reading(f, g)
    BY DEF KeyInv
  <2>3. Parts' = Parts /\ Kept' = Kept
    BY <2>1 DEF Parts, Kept, Key!Valid
  <2>4. Reading(f, g)'
    BY <2>1, <2>2, <2>3 DEF Reading, At
  <2>5. QED
    BY <2>1, <2>4 DEF KeyInv
<1>3. QED
  BY <1>1, <1>2

LEMMA KeyInit == ASSUME Key!Init PROVE KeyInv
<1>1. str \in Seq(Key!Chars)
  <2>1. PICK m \in 0..MaxChars : str \in [1..m -> Key!Chars]
    BY DEF Key!Init, Key!SeqOf
  <2>2. m \in Nat
    BY <2>1, KeyAssumption DEF Key!CharsAssumption
  <2>3. QED
    BY <2>1, <2>2
<1>2. tmp = FlattenSeq(Parts) /\ i = 0 /\ j = 0 /\ end = -1
  BY DEF Key!Init, Key!Bytes, Parts, Key!FlattenSeq, FlattenSeq
<1>3. /\ Parts \in Seq(Seq(Byte)) /\ Kept \in Seq(Seq(Byte))
      /\ Len(Parts) = Len(str) /\ Len(Kept) = Len(str) /\ Len(str) \in Nat
  BY <1>1, PartsLemma, LenProperties
<1>4. PICK f \in [0..Len(str) -> Seq(Byte)] : IsPrefixes(f, Parts)
  BY <1>3, PrefixesExist
<1>5. PICK g \in [0..Len(str) -> Seq(Byte)] : IsPrefixes(g, Kept)
  BY <1>3, PrefixesExist
<1>6. tmp = f[Len(str)]
  BY <1>2, <1>3, <1>4, FlattenLemma
<1>7. f[0] = <<>> /\ g[0] = <<>> /\ 0 \in 0..Len(str) /\ Len(str) \in 0..Len(str)
  BY <1>3, <1>4, <1>5 DEF IsPrefixes
<1>8. At(0, f, g)
  BY <1>2, <1>6, <1>7 DEF At
<1>9. Reading(f, g)
  BY <1>4, <1>5, <1>6, <1>7, <1>8 DEF Reading
<1>10. tmp \in Seq(Byte)
  BY <1>6, <1>7
<1>11. QED
  BY <1>1, <1>2, <1>9, <1>10 DEF KeyInv

\* When the loop has stopped nothing more is kept.
LEMMA KeyDone == ASSUME KeyInv PROVE Key!IsUnaccented
<1> SUFFICES ASSUME end >= 0
             PROVE  SubSeq(tmp, 1, end) = FlattenSeq(Kept)
  BY DEF Key!IsUnaccented, Kept, Key!FlattenSeq, FlattenSeq
<1> DEFINE n == Len(str)
<1>1. PICK f, g : Reading(f, g)
  BY DEF KeyInv
<1>2. PICK k \in 0..n : At(k, f, g)
  BY <1>1 DEF Reading
<1>3. /\ Kept \in Seq(Seq(Byte)) /\ Len(Kept) = n /\ n \in Nat /\ g \in [0..n -> Seq(Byte)]
      /\ IsPrefixes(g, Kept) /\ str \in Seq(Key!Chars)
  BY <1>1, PartsLemma, LenProperties DEF KeyInv, Reading
<1>4. /\ end = j /\ j = Len(g[k]) /\ (k < n => str[k + 1].kind = "invalid")
      /\ \A b \in 1..j : tmp[b] = g[k][b]
      /\ \A m \in 1..k : str[m].kind # "invalid"
  BY <1>2 DEF At, KeyInv
<1>5. ASSUME NEW m \in 1..n, m > k PROVE Kept[m] = <<>>
  <2>1. Key!Valid = 1..k
    BY <1>2, <1>3, <1>4, <1>5, ValidLemma
  <2>2. m \notin Key!Valid
    BY <1>2, <1>5, <2>1
  <2>3. QED
    BY <1>3, <2>2, PartsLemma
<1> DEFINE T == {d \in 0..(n - k) : g[k + d] = g[k]}
<1> HIDE DEF n
<1>6. 0 \in T /\ n - k \in Nat /\ n - k \in 0..(n - k) /\ k + (n - k) = n
  BY <1>2, <1>3
<1>7. ASSUME NEW d \in 1..(n - k), d - 1 \in T PROVE d \in T
  <2>1. k + d \in 1..n /\ k + d > k /\ (k + d) - 1 = k + (d - 1) /\ k + (d - 1) \in 0..n /\ d \in 0..(n - k)
    BY <1>2, <1>3
  <2>2. g[k + d] = g[(k + d) - 1] \o Kept[k + d]
    BY <1>3, <2>1 DEF IsPrefixes
  <2>3. Kept[k + d] = <<>> /\ g[k + (d - 1)] \in Seq(Byte) /\ g[k + (d - 1)] = g[k]
    BY <1>3, <1>5, <1>7, <2>1 DEF n
  <2>4. g[k + d] = g[k]
    BY <2>1, <2>2, <2>3, ConcatEmptySeq
  <2>5. QED
    BY <2>1, <2>4
<1> HIDE DEF T
<1>8. \A d \in 0..(n - k) : d \in T
  BY <1>6, <1>7, UpTo
<1>9. g[n] = g[k]
  BY <1>6, <1>8 DEF T
<1>10. FlattenSeq(Kept) = g[k]
  BY <1>3, <1>9, FlattenLemma DEF n
<1>11. SubSeq(tmp, 1, j) = g[k]
  <2>1. g[k] \in Seq(Byte) /\ j \in Nat
    BY <1>2, <1>3, <1>4, LenProperties DEF n
  <2>2. \A b \in 1..j : tmp[b] \in Byte
    BY <1>4, <2>1, ElementOfSeq
  <2>3. /\ SubSeq(tmp, 1, j) \in Seq(Byte) /\ Len(SubSeq(tmp, 1, j)) = j
        /\ \A b \in 1..j : SubSeq(tmp, 1, j)[b] = tmp[b]
    BY <2>1, <2>2, SubSeqProperties
  <2>4. QED
    BY <1>4, <2>1, <2>3, SeqEqual
<1>12. QED
  BY <1>4, <1>10, <1>11

\* The key of any name, as long as one likes, is its valid part without the
\* marks, though the loop writes into the buffer that it reads.
THEOREM IsUnaccentedAlone == Key!Spec => []Key!IsUnaccented
<1>1. Key!Init => KeyInv
  BY KeyInit
<1>2. KeyInv /\ [Key!Next]_name => KeyInv'
  BY KeyStep
<1>3. KeyInv => Key!IsUnaccented
  BY KeyDone
<1>4. QED BY <1>1, <1>2, <1>3, PTL DEF Key!Spec, Key!vars, name

-----------------------------------------------------------------------------
(* The page: the list, its window and the key of a name side by side.      *)

\* A step of the page is a step of each part or leaves it alone.
LEMMA PageStep ==
    ASSUME [PageNext]_<<vars, window, name>>
    PROVE  [Next]_vars /\ [Window!Next]_window /\ [Key!Next]_name
<1>1. CASE KeyOfName
  BY <1>1 DEF KeyOfName
<1>2. CASE Build
  BY <1>2 DEF Build, Next
<1>3. CASE ClickMore
  BY <1>3 DEF ClickMore, Next
<1>4. ASSUME NEW l \in Locales, Choose(l) PROVE [Next]_vars /\ [Window!Next]_window /\ [Key!Next]_name
  BY <1>4 DEF Choose, Next, Window!Next
<1>5. CASE Others
  BY <1>5 DEF Others, Window!Next
<1>6. CASE UNCHANGED <<vars, window, name>>
  BY <1>6
<1>7. QED
  BY <1>1, <1>2, <1>3, <1>4, <1>5, <1>6 DEF PageNext

\* The page implements its parts.
THEOREM PageImplements == PageSpec => Spec /\ Window!Spec /\ Key!Spec
<1>1. PageInit => Init /\ Window!Init /\ Key!Init
  BY DEF PageInit
<1>2. [PageNext]_<<vars, window, name>> => [Next]_vars /\ [Window!Next]_window /\ [Key!Next]_name
  BY PageStep
<1>3. QED
  BY <1>1, <1>2, PTL DEF PageSpec, Spec, Window!Spec, Key!Spec, window, Window!vars, name, Key!vars

\* Each locale with a font has one row, and the rows are in order at every
\* moment, whatever order the hash table gives.
THEOREM RowsRightHolds == PageSpec => []RowsRight
<1>1. IInv => RowsRight
  BY RightLemma
<1>2. QED BY <1>1, ListInvariant, PageImplements, PTL

\* The language that is set has the only check mark, if it has a row.
THEOREM OneMarkHolds == PageSpec => []OneMark
<1>1. IInv => OneMark
  BY RightLemma
<1>2. QED BY <1>1, ListInvariant, PageImplements, PTL

\* Every label is in the language whose row was clicked last, whoever set it
\* since.
THEOREM InTheLanguageHolds == PageSpec => []InTheLanguage
BY InTheLanguageAlone, PageImplements, PTL DEF InTheLanguage

\* The sort key of any name is its valid part without marks.
THEOREM IsUnaccentedHolds == PageSpec => []IsUnaccented
BY IsUnaccentedAlone, PageImplements, PTL DEF IsUnaccented
=============================================================================
