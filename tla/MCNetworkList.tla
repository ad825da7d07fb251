--------------------------- MODULE MCNetworkList ----------------------------
(* NetworkList, and for every content of its list the access points that can *)
(* be behind it, as StrongestAps sorts them.                                 *)
EXTENDS NetworkList, StrongestAps

CONSTANTS
    Strengths,  \* what NetworkManager may say, in percent
    MaxLen      \* bound: access points in a list

ASSUME StrengthsAssumption == Strengths \subseteq 0..(Foremost - 1)
ASSUME LenAssumption == MaxLen \in Nat

Kinds == [ssid : Ssids \union {Hidden}, strength : Strengths]

\* Each access point of a list is another one, whatever it tells of itself.
Numbered(kinds) ==
    [i \in DOMAIN kinds |->
        [id |-> i, ssid |-> kinds[i].ssid, strength |-> kinds[i].strength]]

\* The lists of access points, in any order, that are the networks of n.
ListsOf(n) ==
    {Numbered(kinds) : kinds \in {kinds \in SeqOf(Kinds, MaxLen) :
        {kinds[i].ssid : i \in DOMAIN kinds} \ {Hidden} = n.aps}}

\* The access point in use: one that tells no SSID may be.
ActiveOf(n, aps) ==
    {<<ap>> : ap \in {ap \in ToSet(aps) :
                  ap.ssid = IF n.active = NoAp THEN Hidden ELSE n.active}}
        \union (IF n.active = NoAp THEN {<<>>} ELSE {})

\* Whatever access points the networks of the list have, the loop with removals
\* and the sorted insertion show one row for each network, the strongest access
\* point, and the network in use first.
ListIsRight ==
    \A aps \in ListsOf(rows) : \A active \in ActiveOf(rows, aps) :
        RowsAreRight(RowsOf(aps, active, rows.state), aps, active, rows.state)
=============================================================================
