------------------------------- MODULE Locale -------------------------------
(***************************************************************************)
(* xtime's locale: a map of the locales that were loaded, with no lock,    *)
(* and the current one, an atomic value.  Setters call Init or SetLocale   *)
(* while formatters write dates.  A locale is known by its language.  The  *)
(* runtime ends the process when it notices that one goroutine uses a map  *)
(* that another one is writing to, and may not notice.                     *)
(***************************************************************************)

CONSTANTS
    Setters,    \* goroutines with one call of Init or of SetLocale each
    Formatters, \* goroutines with one call of FormatDate or the like each
    Languages,  \* the valid language codes
    English,    \* the one of the default locale
    Invalid     \* a language that is none

LocaleAssumption == English \in Languages

VARIABLES
    locales,    \* the languages in the map
    current,    \* currentLocale
    location,   \* whether Init has stored a time zone
    setter,     \* what each setter calls, and where it is
    formatter,  \* the languages of layout and names, and where it is
    fatal       \* the runtime has ended the process

vars == <<locales, current, location, setter, formatter, fatal>>

\* init of the package: initDefaultLocale.
Init ==
    /\ locales = {English} /\ current = English /\ location = FALSE
    /\ setter = [s \in Setters |-> [op |-> "none", lang |-> Invalid, at |-> "start"]]
    /\ formatter = [f \in Formatters |->
                       [layout |-> Invalid, names |-> Invalid, at |-> "start"]]
    /\ fatal = FALSE

\* parseLanguageCode: of the form of a code, and a known one.
IsCode(lang) == lang \in Languages

Writing == \E s \in Setters : setter[s].at = "writing"

\* An access of the map, in a step.
Access == fatal' \in IF Writing THEN BOOLEAN ELSE {FALSE}

SetterGoto(s, from, to) ==
    /\ ~fatal /\ setter[s].at = from
    /\ setter' = [setter EXCEPT ![s].at = to]

\* A locale that cannot be loaded: an error of SetLocale; Init goes on to
\* initDefaultLocale.
NotLoaded(s) == IF setter[s].op = "Init" THEN "default" ELSE "failed"

-----------------------------------------------------------------------------
(* Faults. *)

\* The locale is current before it is in the map: TextInOneLanguage.
WriteAfterStore(s) ==
    /\ SetterGoto(s, "write", "writing") /\ Access
    /\ current' = setter[s].lang
    /\ UNCHANGED <<locales, location, formatter>>

\* LoadLocale looks for a file of any name: TypeOK of Utilities.
LoadUnvalidated(s) ==
    /\ setter[s].at = "load"
    /\ \/ setter[s].lang \in locales /\ SetterGoto(s, "load", "store")
       \/ /\ setter[s].lang \notin locales
          /\ SetterGoto(s, "load", "write") \/ SetterGoto(s, "load", NotLoaded(s))
    /\ Access
    /\ UNCHANGED <<locales, current, location, formatter>>

-----------------------------------------------------------------------------
\* Init stores the zone, whose name may be wrong, before it looks at the
\* language.
CallInit(s, lang) ==
    /\ ~fatal /\ setter[s].at = "start"
    /\ \/ /\ location' = TRUE
          /\ setter' = [setter EXCEPT ![s] =
                [op |-> "Init", lang |-> lang,
                 at |-> IF IsCode(lang) THEN "lookup" ELSE "failed"]]
       \/ /\ setter' = [setter EXCEPT ![s].at = "failed"]
          /\ UNCHANGED location
    /\ UNCHANGED <<locales, current, formatter, fatal>>

CallSetLocale(s, lang) ==
    /\ ~fatal /\ setter[s].at = "start"
    /\ setter' = [setter EXCEPT ![s] = [op |-> "SetLocale", lang |-> lang, at |-> "lookup"]]
    /\ UNCHANGED <<locales, current, location, formatter, fatal>>

\* SetLocale looks into the map.
Lookup(s) ==
    /\ SetterGoto(s, "lookup", IF setter[s].lang \in locales THEN "store" ELSE "load")
    /\ Access
    /\ UNCHANGED <<locales, current, location, formatter>>

\* LoadLocale looks again, checks the code, then finds, reads and parses a file.
Load(s) ==
    /\ setter[s].at = "load"
    /\ \/ setter[s].lang \in locales /\ SetterGoto(s, "load", "store")
       \/ /\ setter[s].lang \notin locales
          /\ \/ IsCode(setter[s].lang) /\ SetterGoto(s, "load", "write")
             \/ SetterGoto(s, "load", NotLoaded(s))
    /\ Access
    /\ UNCHANGED <<locales, current, location, formatter>>

\* initDefaultLocale writes to the map and makes its locale the current one.
UseDefault(s) ==
    /\ ~fatal /\ setter[s].at = "default"
    /\ setter' = [setter EXCEPT ![s].lang = English, ![s].at = "write"]
    /\ UNCHANGED <<locales, current, location, formatter, fatal>>

BeginWrite(s) ==
    /\ SetterGoto(s, "write", "writing") /\ Access
    /\ UNCHANGED <<locales, current, location, formatter>>

EndWrite(s) ==
    /\ SetterGoto(s, "writing", "store")
    /\ locales' = locales \union {setter[s].lang}
    /\ UNCHANGED <<current, location, formatter, fatal>>

Store(s) ==
    /\ SetterGoto(s, "store", "returned")
    /\ current' = setter[s].lang
    /\ UNCHANGED <<locales, location, formatter, fatal>>

\* FormatDate takes the layout of the current locale.
GetLayout(f) ==
    /\ ~fatal /\ formatter[f].at = "start"
    /\ formatter' = [formatter EXCEPT ![f].layout = current, ![f].at = "current"]
    /\ UNCHANGED <<locales, current, location, setter, fatal>>

\* FormatWithLanguage starts from what is the current locale now,
GetCurrent(f) ==
    /\ ~fatal /\ formatter[f].at = "current"
    /\ formatter' = [formatter EXCEPT ![f].names = current, ![f].at = "names"]
    /\ UNCHANGED <<locales, current, location, setter, fatal>>

\* and prefers the one of the language it was given, when the map has it.
GetNames(f) ==
    /\ ~fatal /\ formatter[f].at = "names"
    /\ formatter' = [formatter EXCEPT
          ![f].names = IF formatter[f].layout \in locales THEN formatter[f].layout ELSE @,
          ![f].at = "returned"]
    /\ Access
    /\ UNCHANGED <<locales, current, location, setter>>

Next ==
    \/ \E s \in Setters :
          \/ \E lang \in Languages \union {Invalid} : CallInit(s, lang) \/ CallSetLocale(s, lang)
          \/ Lookup(s) \/ Load(s) \/ UseDefault(s)
          \/ BeginWrite(s) \/ EndWrite(s) \/ Store(s)
    \/ \E f \in Formatters : GetLayout(f) \/ GetCurrent(f) \/ GetNames(f)

Spec == Init /\ [][Next]_vars
-----------------------------------------------------------------------------
\* The types of the variables.
TypeOK ==
    /\ locales \in SUBSET Languages /\ current \in Languages
    /\ location \in BOOLEAN /\ fatal \in BOOLEAN
    /\ setter \in [Setters ->
          [op : {"none", "Init", "SetLocale"}, lang : Languages \union {Invalid},
           at : {"start", "lookup", "load", "default", "write", "writing", "store",
                 "returned", "failed"}]]
    /\ formatter \in [Formatters ->
          [layout : Languages \union {Invalid}, names : Languages \union {Invalid},
           at : {"start", "current", "names", "returned"}]]

\* A text has the layout and the names of one language although the locale may
\* change while it is written and FormatWithLanguage starts from the current one
\* again: whatever is current is in the map, since it is put there first.
TextInOneLanguage ==
    \A f \in Formatters :
        formatter[f].at = "returned" => formatter[f].names = formatter[f].layout
=============================================================================
