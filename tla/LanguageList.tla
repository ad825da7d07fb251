---------------------------- MODULE LanguageList ----------------------------
(***************************************************************************)
(* The rows of the language page (cc-language-chooser.c).                  *)
(*                                                                         *)
(* A few languages are offered at once, in the order a hash table yields   *)
(* them, the others after a click on the More item; the list box sorts     *)
(* each new row into its place with a comparison that has to keep the More *)
(* item last, because the loop that sets the check marks ends there.       *)
(***************************************************************************)
EXTENDS Integers, SequencesExt, FiniteSets

CONSTANTS
    Locales,      \* what gnome_get_all_locales returns and newlocale takes
    Offered,      \* the seven that cc_common_language_get_initial_languages names
    SortKey,      \* of a locale: its name without case and accents, as a number
    Id,           \* of a locale: the place of its name in the alphabet
    More          \* the More item

ASSUME LocalesAssumption ==
    /\ SortKey \in [Locales -> Int] /\ Id \in [Locales -> Int]
    /\ \A l, k \in Locales : l # k => Id[l] # Id[k]
    /\ More \notin Locales \union Offered

VARIABLES
    rows,           \* the list box: locales and the More item
    marks,          \* the rows with a visible check mark
    added,          \* the locales add_languages has been through
    showing_extra,
    language,
    has_font        \* the locales there is a font for; it does not change

vars == <<rows, marks, added, showing_extra, language, has_font>>

Built == Contains(rows, More)

\* The current language of the program is any locale, one without a row too.
Init ==
    /\ rows = <<>> /\ marks = {} /\ added = {}
    /\ showing_extra = FALSE
    /\ language \in Locales /\ has_font \in SUBSET Locales

-----------------------------------------------------------------------------
(* The order of the rows.                                                  *)

\* insert_language takes those that newlocale knows.
Initial == Offered \intersect Locales

is_extra(l) == l \notin Initial

\* The initial languages, then the others, each by key and equal keys by name.
Precedes(a, b) ==
    \/ ~is_extra(a) /\ is_extra(b)
    \/ /\ is_extra(a) = is_extra(b)
       /\ \/ SortKey[a] < SortKey[b]
          \/ SortKey[a] = SortKey[b] /\ Id[a] < Id[b]

sort_languages_MoreIsFirst(a, b) == a = More \/ (b # More /\ Precedes(a, b))

\* a comes before b.
sort_languages(a, b) == a # More /\ (b = More \/ Precedes(a, b))

\* GtkListBox sorts a row in when it is appended: behind those that it does not
\* go before.
gtk_list_box_append(row) ==
    LET Behind == {i \in DOMAIN rows : sort_languages(row, rows[i])}
    IN  InsertAt(rows, Min(Behind \union {Len(rows) + 1}), row)

language_visible(row) == row = More \/ showing_extra \/ ~is_extra(row)

\* The loop stops at the first row that has no language; a row keeps its mark if
\* it is not reached.
sync_all_checkmarks(list, old, chosen) ==
    LET stop    == CHOOSE i \in DOMAIN list : list[i] = More
        reached == {list[i] : i \in 1..(stop - 1)}
    IN  (old \ reached) \union (reached \intersect {chosen})

-----------------------------------------------------------------------------
(* cc_language_chooser_constructed.                                        *)

cc_common_language_has_font(l) == l \in has_font

\* The widget comes with its mark showing.
language_widget_new(l) == marks' = marks \union {l}

\* A locale without a font gets no row.
add_one_language(l) ==
    /\ added' = added \union {l}
    /\ IF cc_common_language_has_font(l)
       THEN language_widget_new(l) /\ rows' = gtk_list_box_append(l)
       ELSE UNCHANGED <<rows, marks>>
    /\ UNCHANGED <<showing_extra, language, has_font>>

add_languages_Initial == \E l \in Initial \ added : add_one_language(l)

add_languages_Others_Again ==
    /\ Initial \subseteq added
    /\ \E l \in Locales \ (added \ Initial) :
          ~Contains(rows, More) /\ Len(rows) < 6 /\ add_one_language(l)

add_languages_Others ==
    /\ Initial \subseteq added
    /\ \E l \in Locales \ added : add_one_language(l)

\* The More item, then the marks.
add_languages_More ==
    /\ added = Locales /\ ~Built
    /\ rows' = gtk_list_box_append(More)
    /\ marks' = sync_all_checkmarks(rows', marks, language)
    /\ UNCHANGED <<added, showing_extra, language, has_font>>

-----------------------------------------------------------------------------
(* Clicks.                                                                 *)

\* More is shown, and the item stays.
show_more ==
    /\ Built
    /\ showing_extra' = TRUE
    /\ UNCHANGED <<rows, marks, added, language, has_font>>

set_locale_id(l) ==
    /\ language' = l
    /\ marks' = IF l = language
                THEN marks
                ELSE sync_all_checkmarks(rows, marks, l)

\* A row of a language; what it does to the window is in Retranslate.
row_activated(l) ==
    /\ Built
    /\ Contains(rows, l) /\ language_visible(l)
    /\ set_locale_id(l)
    /\ UNCHANGED <<rows, added, showing_extra, has_font>>

Next ==
    \/ add_languages_Initial \/ add_languages_Others \/ add_languages_More
    \/ show_more \/ \E l \in Locales : row_activated(l)

Spec == Init /\ [][Next]_vars

-----------------------------------------------------------------------------
(* Properties.                                                             *)

\* Each locale with a font has one row, whatever order the hash table gives and
\* though the initial languages are among all locales too.
RowsOnce ==
    Built => /\ ToSet(rows) = has_font \union {More}
             /\ Len(rows) = Cardinality(has_font) + 1

\* The rows that are there at first stay in place when more are shown: the
\* others follow them, each part by name and equal names by their locale.
InOrder ==
    \A i, j \in DOMAIN rows : i < j /\ rows[j] # More =>
        /\ rows[i] # More
        /\ is_extra(rows[i]) => is_extra(rows[j])
        /\ is_extra(rows[i]) = is_extra(rows[j]) =>
              \/ SortKey[rows[i]] < SortKey[rows[j]]
              \/ SortKey[rows[i]] = SortKey[rows[j]] /\ Id[rows[i]] < Id[rows[j]]

\* The rows are the right ones and in the right order, at every moment.
RowsRight == RowsOnce /\ InOrder

\* The loop over the rows stops at the More item, and still the language that is
\* set has the only check mark, if it has a row.
OneMark == Built => marks = {language} \intersect has_font
=============================================================================
