----------------------------- MODULE Diagnostics -----------------------------
(***************************************************************************)
(* The texts of the bridge: the descriptions of error codes and of the     *)
(* last error, static members of BaseEngine that outlive every engine; the *)
(* scheme and security names of each engine; and the calls by which a      *)
(* client first asks for the size of a text and then fetches it into a     *)
(* buffer of that size, with other calls in between.                       *)
(*                                                                         *)
(* init() of the backend is external: a series of calls of addErrorCode(), *)
(* addSchemeName() and addSecurityName(), any of which may throw, and then *)
(* initEngine() fails.  Nothing else happens while it runs.                *)
(***************************************************************************)
EXTENDS Integers

CONSTANTS
    Engine,          \* addresses of engines
    Code, BaseCode,  \* error codes, and those the wrapper describes itself
    Name,            \* schemes and security types
    Text, Length,    \* texts, and the number of characters of each
    BaseText,        \* what describes a base code
    UnknownErrorMsg, \* what describes any other code
    ExText,          \* BenchmarkDescription::getBenchmarkDescription()
    TwiceText,       \* what() of "Error code already specified."
    EmptyText,       \* m_s_last_error_description before any error
    NoText,          \* no text: not registered, or nothing written
    None,            \* no engine, or no question asked
    ClientSize       \* sizes of buffers that a client has already

ASSUME TextAssumption ==
    /\ {BaseText, UnknownErrorMsg, ExText, TwiceText, EmptyText} \subseteq Text
    /\ NoText \notin Text
    /\ Length \in [Text -> Nat]
ASSUME DiagnosticsAssumption ==
    /\ BaseCode \subseteq Code
    /\ None \notin Engine
    /\ ClientSize \subseteq Nat

VARIABLES
    errorDesc,  \* m_map_error_desc, static
    lastText,   \* m_s_last_error_description, static
    names,      \* m_map_scheme_name and m_map_security_name of each engine
    engines,    \* engines the client holds
    building,   \* the engine whose init() is running
    added,      \* codes this init() has added
    asked,      \* the client's question for a size, and the answer
    got         \* what the client's last fetch brought

statics == <<errorDesc, lastText>>
client == <<asked, got>>
vars == <<statics, names, engines, building, added, client>>

SUCCESS == 0
CRITICAL == 2147483647   \* HEBENCH_ECODE_CRITICAL_ERROR

NoNames == [n \in Name |-> NoText]
-----------------------------------------------------------------------------
(* Engine initialisation.                                                  *)

BeginInit(e) ==
    /\ building = None /\ e \notin engines
    /\ building' = e
    /\ names' = [names EXCEPT ![e] = NoNames]
    /\ added' = {}
    /\ UNCHANGED <<statics, engines, client>>

\* What init() throws leaves initEngine() without an engine for the client.
AbortInit(text) ==
    /\ building' = None
    /\ lastText' = text
    /\ UNCHANGED <<errorDesc, names, engines, added, client>>

\* Faulty variant: a code that is described already gets the new description.
AddErrorCodeAnyway(c, text) ==
    /\ building # None
    /\ errorDesc' = [errorDesc EXCEPT ![c] = text]
    /\ added' = added \cup {c}
    /\ UNCHANGED <<lastText, names, engines, building, client>>

AddErrorCode(c, text) ==
    /\ building # None
    /\ \/ errorDesc[c] # NoText /\ AbortInit(TwiceText)
       \/ /\ errorDesc[c] = NoText
          /\ errorDesc' = [errorDesc EXCEPT ![c] = text]
          /\ added' = added \cup {c}
          /\ UNCHANGED <<lastText, names, engines, building, client>>

\* Faulty variant: the map of names is static as well.
AddNameToAll(n, text) ==
    /\ building # None
    /\ names' = [e \in Engine |-> [names[e] EXCEPT ![n] = text]]
    /\ UNCHANGED <<statics, engines, building, added, client>>

\* addSchemeName(), addSecurityName().
AddName(n, text) ==
    /\ building # None
    /\ \/ names[building][n] # NoText /\ \E t \in Text : AbortInit(t)
       \/ /\ names[building][n] = NoText
          /\ names' = [names EXCEPT ![building][n] = text]
          /\ UNCHANGED <<statics, engines, building, added, client>>

InitThrows == building # None /\ \E t \in Text : AbortInit(t)

FinishInit ==
    /\ building # None
    /\ engines' = engines \cup {building}
    /\ building' = None
    /\ UNCHANGED <<statics, names, added, client>>

\* The client has no questions to an engine it destroyed.
DestroyEngine(e) ==
    /\ building = None /\ e \in engines
    /\ engines' = engines \ {e}
    /\ IF asked # None /\ asked.call.e = e
       THEN asked' = None ELSE UNCHANGED asked
    /\ UNCHANGED <<statics, names, building, added, got>>

\* Any other call fails; getErrorDesc() or what() of the exception is kept.
setLastError(text) ==
    /\ building = None
    /\ lastText' = text
    /\ UNCHANGED <<errorDesc, names, engines, building, added, client>>
-----------------------------------------------------------------------------
(* Calls that return a text.                                               *)

\* What comes of a description handle: the text of the description it matches,
\* or what is thrown, for want of a match or by the backend's override of
\* BenchmarkDescription::getBenchmarkDescription().
Described == {"text", "HEBenchError", "std::exception", "other"}

\* key is a name, an error code, or what comes of the description handle.  It
\* does not matter to a call with a null engine.
Call ==
    [fn : {"name"}, e : Engine, key : Name]
    \cup [fn : {"description"}, e : Engine, key : Described]
    \cup [fn : {"name", "description"}, e : {None}, key : {None}]
    \cup [fn : {"error"}, e : {None}, key : Code]
    \cup [fn : {"last"}, e : {None}, key : {None}]

getErrorDesc(c) ==
    IF errorDesc[c] = NoText THEN UnknownErrorMsg ELSE errorDesc[c]

\* The text that a call returns, or NoText if it throws.
TextOf(call) ==
    CASE call.fn = "last" -> lastText
      [] call.fn = "error" -> getErrorDesc(call.key)
      [] call.fn = "name" -> IF call.e = None THEN NoText
                             ELSE names[call.e][call.key]
      [] OTHER -> IF call.e # None /\ call.key = "text" THEN ExText
                  ELSE NoText

\* What the call throws if it does: a null engine or a name that is missing is
\* a std::exception.
Thrown(call) ==
    IF call.fn = "description" /\ call.e # None THEN call.key
    ELSE "std::exception"

\* The error code of a std::exception is returned as the size.
Failure(call) == IF Thrown(call) = "std::exception" THEN CRITICAL ELSE 0

\* Faulty variant: the terminator is written whatever the size.
copyStringUnsized(size, src) ==
    [returned |-> Length[src] + 1, of |-> src,
     chars |-> IF size < Length[src] + 1 THEN size - 1 ELSE Length[src]]

\* Faulty variant: the terminator is not counted.
copyStringShort(size, src) ==
    [returned |-> Length[src],
     of |-> IF size > 0 THEN src ELSE NoText,
     chars |-> IF size = 0 THEN 0
               ELSE IF size < Length[src] + 1 THEN size - 1 ELSE Length[src]]

\* Utilities::copyString(): the size of src with its terminator, and what it
\* writes to a buffer, if it is of any size: so many characters of src.
copyString(size, src) ==
    [returned |-> Length[src] + 1,
     of |-> IF size > 0 THEN src ELSE NoText,
     chars |-> IF size = 0 THEN 0
               ELSE IF size < Length[src] + 1 THEN size - 1 ELSE Length[src]]

\* What the call answers for a buffer of the size.
Answer(call, size) ==
    IF TextOf(call) # NoText THEN copyString(size, TextOf(call))
    ELSE [returned |-> Failure(call), of |-> NoText, chars |-> 0]

\* A failing call sets the last error, unless it ends in catch (...).
Failing(call) ==
    IF TextOf(call) # NoText \/ Thrown(call) = "other"
    THEN UNCHANGED lastText ELSE lastText' \in Text

\* The client passes the handle of an engine it holds, or a null one.
Callable(call) == building = None /\ call.e \in engines \cup {None}

\* The first call, with a null buffer.
Ask(call) ==
    /\ Callable(call)
    /\ asked' = [call |-> call, size |-> Answer(call, 0).returned]
    /\ Failing(call)
    /\ UNCHANGED <<errorDesc, names, engines, building, added, got>>

\* The second call, with a buffer of the size that the first one returned.
Fetch ==
    /\ asked # None /\ Callable(asked.call)
    /\ got' = [call |-> asked.call, size |-> asked.size, sized |-> TRUE,
               answer |-> Answer(asked.call, asked.size)]
    /\ asked' = None
    /\ Failing(asked.call)
    /\ UNCHANGED <<errorDesc, names, engines, building, added>>

\* A call with a buffer of the client's own choice.
FetchUnasked(call, size) ==
    /\ Callable(call)
    /\ got' = [call |-> call, size |-> size, sized |-> FALSE,
               answer |-> Answer(call, size)]
    /\ Failing(call)
    /\ UNCHANGED <<errorDesc, names, engines, building, added, asked>>
-----------------------------------------------------------------------------
Init ==
    /\ errorDesc = [c \in Code |-> IF c \in BaseCode THEN BaseText ELSE NoText]
    /\ lastText = EmptyText
    /\ names = [e \in Engine |-> NoNames]
    /\ engines = {}
    /\ building = None
    /\ added = {}
    /\ asked = None
    /\ got = None

Next ==
    \/ \E e \in Engine : BeginInit(e) \/ DestroyEngine(e)
    \/ \E c \in Code \ BaseCode, t \in Text : AddErrorCode(c, t)
    \/ \E n \in Name, t \in Text : AddName(n, t)
    \/ InitThrows
    \/ FinishInit
    \/ \E t \in Text : setLastError(t)
    \/ \E call \in Call :
          Ask(call) \/ \E size \in ClientSize : FetchUnasked(call, size)
    \/ Fetch

Spec == Init /\ [][Next]_vars
-----------------------------------------------------------------------------
(* Properties.                                                             *)

\* Type invariant.
TypeOK ==
    /\ errorDesc \in [Code -> Text \cup {NoText}]
    /\ lastText \in Text
    /\ names \in [Engine -> [Name -> Text \cup {NoText}]]
    /\ engines \subseteq Engine
    /\ building \in Engine \cup {None} /\ building \notin engines
    /\ added \subseteq Code
    /\ asked # None => asked.call \in Call /\ asked.size \in Nat
    /\ got # None => /\ got.call \in Call /\ got.size \in Nat
                     /\ got.sized \in BOOLEAN
                     /\ got.answer \in [returned : Nat, chars : Nat,
                                        of : Text \cup {NoText}]

\* A fetch never writes past the buffer, and its return value tells the client
\* whether it got the whole text, whatever happened since it asked for the
\* size: another error, another engine, a code that has a description now.
WholeOrTold ==
    got # None /\ got.answer.of # NoText =>
       LET a == got.answer IN
       /\ a.chars + 1 <= got.size
       /\ a.chars = Length[a.of] <=> a.returned <= got.size

\* The size of a scheme or security name, once asked for, is the size of the
\* name fetched: no engine that comes or goes in between changes it.
NamesFetchedWhole ==
    got # None /\ got.sized /\ got.call.fn = "name" /\ got.answer.of # NoText
       => got.answer.chars = Length[got.answer.of]

\* What describes an error code describes it for good: it does not change for
\* a client that has an engine when another is made, fails or is destroyed.
DescriptionsPersist ==
    [][\A c \in Code : errorDesc[c] # NoText => UNCHANGED errorDesc[c]]_vars

\* The C API documents the result of these calls as the number of bytes
\* needed, or zero if error.  A std::exception returns its error code.
ErrorIsZero ==
    asked # None /\ asked.call.fn = "name" /\ asked.call.e # None
       /\ names[asked.call.e][asked.call.key] = NoText => asked.size = 0

\* init() is documented to add the error codes of the backend.  One that adds
\* a code first and but once is not refused, also where the client has another
\* engine already.
FirstCodeAccepted ==
    [][engines # {} /\ added = {} =>
          ~ \E c \in Code \ BaseCode, t \in Text :
               AddErrorCode(c, t) /\ building' = None]_vars
=============================================================================
