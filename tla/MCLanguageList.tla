--------------------------- MODULE MCLanguageList ---------------------------
(* The language page in its window: the rows of LanguageList, two at first,  *)
(* one that is not installed and three behind the More item, two of which    *)
(* have the same name but for accents; the labels of Retranslate, which a    *)
(* click on a row translates; and, before the list is built, the sort key of *)
(* a name, any name, as Unaccent computes it.                                *)
EXTENDS LanguageList

CONSTANTS de, en, fr, af, az, ja, Stages, MaxChars

MCSortKey == de :> 2 @@ en :> 3 @@ fr :> 5 @@ af :> 1 @@ az :> 1
MCId      == de :> 3 @@ en :> 4 @@ fr :> 5 @@ af :> 2 @@ az :> 1

VARIABLES current_language, locale, idle, label, original_text, title
VARIABLES str, tmp, i, j, end

window == <<current_language, locale, idle, label, original_text, title>>
name == <<str, tmp, i, j, end>>

Window == INSTANCE Retranslate WITH Languages <- Locales
Key == INSTANCE Unaccent

ASSUME WindowAssumption == Window!LanguagesAssumption
ASSUME KeyAssumption == Key!CharsAssumption

\* With a name that is not empty only its key is looked at.
PageInit ==
    /\ Init /\ Window!Init /\ Key!Init
    /\ current_language = language
    /\ str # <<>> => language = en /\ has_font = {} /\ title = Window!C("Unlock")

KeyOfName == Key!Next /\ UNCHANGED <<vars, window>>

\* The window is loaded, without a return to the main loop.
Build ==
    /\ str = <<>> /\ end = 0
    /\ add_languages_Initial \/ add_languages_Others \/ add_languages_More
    /\ UNCHANGED <<window, name>>

ClickMore == show_more /\ UNCHANGED <<window, name>>

Choose(l) == row_activated(l) /\ Window!row_activated(l) /\ UNCHANGED name

\* What else sets labels, once the main loop runs.
Others ==
    /\ Built
    /\ \/ Window!update_lang
       \/ \E m \in Window!Faces : Window!update_face_row(m)
       \/ \E m \in Stages : Window!SetStatus(m)
    /\ UNCHANGED <<vars, name>>

PageNext == KeyOfName \/ Build \/ ClickMore \/ (\E l \in Locales : Choose(l)) \/ Others

PageSpec == PageInit /\ [][PageNext]_<<vars, window, name>>

\* Every label that said something when the window was built is in the language
\* whose row was clicked last, whoever set the label since, and the empty one
\* shows what the update page set, never the header of the catalogue.
InTheLanguage == Window!InTheLanguage

\* The sort key of a name is its valid part without marks, byte by byte.
IsUnaccented == Key!IsUnaccented
=============================================================================
