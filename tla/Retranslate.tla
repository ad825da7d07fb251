---------------------------- MODULE Retranslate ----------------------------
(***************************************************************************)
(* Changing the language of a window that is already built                 *)
(* (pt-application.c, cc-language-chooser.c).                              *)
(*                                                                         *)
(* The window is loaded in the C locale; the first walk over its labels    *)
(* stores what each of them says, and every walk sets the translation of   *)
(* that.  Other code goes on to set labels in the language of the moment.  *)
(* Three labels stand for the kinds there are: "heading" comes from a      *)
(* template and is left alone, "row" comes from a template and is set by   *)
(* the face settings, "status" is empty until the update page sets it.     *)
(***************************************************************************)
CONSTANTS
    Languages,   \* the locales to choose from; "C" is none
    Stages       \* what the update page can say

\* gettext finds the texts of C only, and the update page says something.
LanguagesAssumption == "C" \notin Languages /\ "" \notin Stages

Labels == {"heading", "row", "status"}

\* A text is a message in a language: gettext only finds those in C.
C(msg) == [msg |-> msg, lang |-> "C"]
Empty == C("")
NoText == C("none")
Faces == {"Register", "Unlock"}   \* what the row of the face settings can say

VARIABLES
    current_language,  \* the locale the program was started in
    locale,            \* LC_MESSAGES
    idle,              \* update_lang is still to be run
    label,             \* what each label shows
    original_text,     \* what is stored with it
    title              \* the title property of the row

vars == <<current_language, locale, idle, label, original_text, title>>

\* The translation of the empty string is the header of the catalogue.
gettext(text, lang) ==
    IF text = Empty
    THEN [msg |-> "header", lang |-> lang]
    ELSE IF text.lang = "C" THEN [text EXCEPT !.lang = lang] ELSE text

Init_UserLocale ==
    /\ current_language \in Languages /\ locale = current_language /\ idle = TRUE
    /\ \E m \in Faces :
        /\ label = [heading |-> gettext(C("heading"), locale),
                    row |-> gettext(C(m), locale), status |-> Empty]
        /\ title = gettext(C(m), locale)
    /\ original_text = [l \in Labels |-> NoText]

\* pt_application_activate: the language is noted, the window built in C.  The
\* security settings ask for the state of the face while they are built.
Init ==
    /\ current_language \in Languages /\ locale = "C" /\ idle = TRUE
    /\ \E m \in Faces :
        /\ label = [heading |-> C("heading"), row |-> C(m), status |-> Empty]
        /\ title = C(m)
    /\ original_text = [l \in Labels |-> NoText]

Stored(l) == IF original_text[l] = NoText THEN label[l] ELSE original_text[l]

\* An empty label is empty for good, as far as walks go.
walk_all_widgets_recursive(lang) ==
    /\ original_text' = [l \in Labels |-> Stored(l)]
    /\ label' = [l \in Labels |->
                    IF Stored(l) = Empty THEN label[l] ELSE gettext(Stored(l), lang)]

\* The idle callback the chooser adds; nobody has clicked before it runs.
update_lang ==
    /\ idle
    /\ idle' = FALSE
    /\ locale' = current_language
    /\ walk_all_widgets_recursive(current_language)
    /\ UNCHANGED <<current_language, title>>

\* row_activated of a language; the names in the list are set anew after the walk.
row_activated(lang) ==
    /\ ~idle
    /\ locale' = lang
    /\ walk_all_widgets_recursive(lang)
    /\ UNCHANGED <<current_language, idle, title>>

\* update_face_row, of a signal that may come at any time.  A row whose title
\* is not another one does not touch its label.
update_face_row(m) ==
    LET text == gettext(C(m), locale) IN
    /\ title' = text
    /\ label' = IF text = title THEN label ELSE [label EXCEPT !.row = text]
    /\ UNCHANGED <<current_language, locale, idle, original_text>>

\* The update page begins long after the first walk.
SetStatus(m) ==
    /\ ~idle
    /\ label' = [label EXCEPT !.status = gettext(C(m), locale)]
    /\ UNCHANGED <<current_language, locale, idle, original_text, title>>

Next ==
    \/ update_lang
    \/ \E lang \in Languages : row_activated(lang)
    \/ \E m \in Faces : update_face_row(m)
    \/ \E m \in Stages : SetStatus(m)

Spec == Init /\ [][Next]_vars

-----------------------------------------------------------------------------
(* Properties.                                                             *)

\* Every label that said something when the window was built is in the language
\* chosen last, however often that changed and whoever set the label since; one
\* that said nothing shows what the update page set, never the header of the
\* catalogue.
InTheLanguage ==
    ~idle => /\ \A l \in {"heading", "row"} : label[l].lang = locale
             /\ label.status = Empty \/ label.status.msg \in Stages
=============================================================================
