---------------------------- MODULE StrongestAps ----------------------------
(***************************************************************************)
(* Which access points the network list shows and in which order           *)
(* (cc-network-list.c): one of each SSID, the strongest, and the rows      *)
(* sorted by strength with the one in use first.  An access point is a     *)
(* record of its SSID and strength; SSIDs that nm_utils_same_ssid takes    *)
(* for the same are the same value.                                        *)
(***************************************************************************)
EXTENDS Integers, SequencesExt

CONSTANT Hidden   \* the SSID of an access point that tells none

Add_FirstWins(unique, ap) ==
    IF ap.ssid = Hidden \/ \E j \in DOMAIN unique : unique[j].ssid = ap.ssid
    THEN unique
    ELSE Append(unique, ap)

\* One round of the outer loop of get_strongest_unique_aps: a stronger access
\* point takes the place of the one of its SSID, at the end of the list.
Add(unique, ap) ==
    LET same == {j \in DOMAIN unique : unique[j].ssid = ap.ssid} IN
    CASE ap.ssid = Hidden -> unique
      [] ap.ssid # Hidden /\ same = {} -> Append(unique, ap)
      [] OTHER -> LET j == Min(same) IN
                  IF ap.strength > unique[j].strength
                  THEN Append(RemoveAt(unique, j), ap)
                  ELSE unique

get_strongest_unique_aps(aps) == FoldLeft(Add, <<>>, aps)

\* G_MAXUINT, above every strength.
Foremost == 255

\* The strength add_access_point stores with a row.
Key(row) == IF row.mark = "none" THEN row.ap.strength ELSE Foremost

\* GtkListBox with ap_sort: a row goes before the first weaker row.
Insert(list, row) ==
    LET Weaker == {i \in DOMAIN list : Key(list[i]) < Key(row)}
    IN  InsertAt(list, Min(Weaker \union {Len(list) + 1}), row)

\* The mark add_access_point gives the row of the SSID in use.
Row(ap, active, state) ==
    [ap |-> ap,
     mark |-> IF active # <<>> /\ active[1].ssid = ap.ssid THEN state ELSE "none"]

\* The rows of a refresh.  active is the access point in use, in a sequence of
\* at most one, and state what the device does with it.
RowsOf(aps, active, state) ==
    LET unique == get_strongest_unique_aps(aps)
        rows == [i \in DOMAIN unique |-> Row(unique[i], active, state)]
    IN  FoldLeft(Insert, <<>>, rows)

-----------------------------------------------------------------------------
(* What the list should show.                                              *)

\* The access points that are to be shown: of each SSID the strongest, the
\* first one if there are several.
Strongest(aps) ==
    {aps[i] : i \in {i \in DOMAIN aps :
        /\ aps[i].ssid # Hidden
        /\ \A j \in DOMAIN aps : aps[j].ssid = aps[i].ssid =>
              \/ aps[j].strength < aps[i].strength
              \/ aps[j].strength = aps[i].strength /\ i <= j}}

\* Exactly those are shown, each once, the marked one before all others and the
\* rest from strong to weak.
RowsAreRight(rows, aps, active, state) ==
    /\ {rows[i].ap : i \in DOMAIN rows} = Strongest(aps)
    /\ \A i, j \in DOMAIN rows : i < j =>
          /\ rows[i].ap.ssid # rows[j].ap.ssid
          /\ rows[j].mark = "none"
          /\ rows[i].mark = "none" => rows[i].ap.strength >= rows[j].ap.strength
    /\ \A i \in DOMAIN rows :
          rows[i].mark # "none" <=>
             /\ state # "none"
             /\ active # <<>> /\ active[1].ssid = rows[i].ap.ssid
=============================================================================
