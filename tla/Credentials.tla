------------------------------ MODULE Credentials ------------------------------
(***************************************************************************)
(* Secrets by name: credentials-local looks a name up in the keychain, the *)
(* environment and three files, in that order, reading them again on every *)
(* lookup while their owner edits them (core/credentials.py, keychain.py). *)
(***************************************************************************)
EXTENDS Naturals, SequencesExt

CONSTANTS
  Names,      \* the names of the secrets
  Values,     \* the values a secret may have
  MaxEdits,   \* bound: changes made to the sources
  MaxCalls    \* bound: lookups and checks asked for

NoValue == "none"
Empty == "empty"

CredentialsAssumption ==
  /\ IsFiniteSet(Names) /\ Names # {} /\ Values \cap {NoValue, Empty} = {}
  /\ MaxEdits \in Nat /\ MaxCalls \in Nat

Files == {"file", "profile", "home"}
Order == <<"keychain", "env", "file", "profile", "home">>
Sources == ToSet(Order)

VARIABLES
  on,         \* the sources the configuration has the service read
  holds,      \* [source |-> [name |-> value]]
  broken,     \* the sources that cannot answer: a malformed file, a denied keychain
  problems,   \* the files a reading found broken, as the service remembers
  call,       \* the call under way
  answer,     \* the answer of the last call
  edits, calls,
  quiet       \* history: no source was changed since the call began

vars == <<on, holds, broken, problems, call, answer, edits, calls, quiet>>

NoCall == [kind |-> "none", names |-> <<>>, at |-> 0, found |-> <<>>]
NoAnswer == [kind |-> "none", names |-> <<>>, found |-> <<>>, problems |-> {}]

--------------------------------------------------------------------------------
\* The user's file is always read; the others as the profile says.
Init ==
  /\ \E some \in SUBSET (Sources \ {"file"}) : on = {"file"} \cup some
  /\ holds = [s \in Sources |-> [n \in Names |-> NoValue]]
  /\ broken = {} /\ problems = {}
  /\ call = NoCall /\ answer = NoAnswer
  /\ edits = 0 /\ calls = 0 /\ quiet = TRUE

\* The owner rotates a secret, empties it or removes it, or damages and mends a source.
Edit ==
  /\ edits < MaxEdits
  /\ \E s \in Sources :
       \/ \E n \in Names, v \in Values \cup {NoValue, Empty} :
            holds' = [holds EXCEPT ![s][n] = v] /\ UNCHANGED broken
       \/ s # "env" /\ broken' \in {broken \cup {s}, broken \ {s}} /\ UNCHANGED holds
  /\ edits' = edits + 1 /\ quiet' = FALSE
  /\ UNCHANGED <<on, problems, call, answer, calls>>

Begin(kind, names, first) ==
  /\ call.kind = "none" /\ calls < MaxCalls
  /\ call' = [kind |-> kind, names |-> names, at |-> first, found |-> <<>>]
  /\ answer' = NoAnswer
  /\ calls' = calls + 1 /\ quiet' = TRUE
  /\ UNCHANGED <<on, holds, broken, problems, edits>>

\* resolve and describe look one name up, a doctor check several, one after another.
BeginLookup(n) == Begin("lookup", <<n>>, 1)
BeginCheck == \E names \in SetToSeqs(Names) : Begin("check", names, 1)
\* file_problem reads the three files.
BeginProblems == Begin("problems", <<>>, 3)

--------------------------------------------------------------------------------
(* Reading one source.                                                     *)

Source == Order[call.at]

\* Mutant: a problem found once is kept.
KeepsProblem == IF Source \in broken THEN problems \cup {Source} ELSE problems
\* A file's problem is forgotten when the file is read again, and found again if it is
\* still there.
FileProblems ==
  IF Source \in broken THEN problems \cup {Source} ELSE problems \ {Source}

\* A file that is missing or malformed holds nothing.
Read(n) == IF Source \in broken THEN NoValue ELSE holds[Source][n]

Counts(v) == v \in Values

ReadsFile == Source \in Files /\ Source \in on
Problems == IF ReadsFile THEN FileProblems ELSE problems

Step(found) ==
  LET done == found # <<>> \/ call.at = Len(Order) IN
  IF ~done THEN call' = [call EXCEPT !.at = @ + 1] /\ UNCHANGED answer
  ELSE LET all == Append(call.found, IF found = <<>> THEN <<NoValue, "nowhere">> ELSE found) IN
       IF Len(all) = Len(call.names)
       THEN /\ call' = NoCall
            /\ answer' = [kind |-> call.kind, names |-> call.names, found |-> all,
                          problems |-> {}]
       ELSE call' = [call EXCEPT !.at = 1, !.found = all] /\ UNCHANGED answer

\* Mutant: a keychain that cannot answer is passed over.
PassesOver == FALSE
KeychainFails == Source = "keychain" /\ Source \in broken

\* A keychain that cannot answer is an error, of the whole check too.
Raises ==
  /\ call.kind \in {"lookup", "check"} /\ Source \in on /\ KeychainFails
  /\ call' = NoCall
  /\ answer' = [NoAnswer EXCEPT !.kind = "error", !.names = call.names]
  /\ UNCHANGED <<on, holds, broken, problems, edits, calls, quiet>>

LookInSource ==
  /\ call.kind \in {"lookup", "check"} /\ (Source \in on => ~KeychainFails)
  /\ LET v == IF Source \in on THEN Read(call.names[Len(call.found) + 1]) ELSE NoValue IN
     Step(IF Counts(v) THEN <<v, Source>> ELSE <<>>)
  /\ problems' = Problems
  /\ UNCHANGED <<on, holds, broken, edits, calls, quiet>>

ReadForProblems ==
  /\ call.kind = "problems"
  /\ problems' = Problems
  /\ IF call.at < Len(Order)
     THEN call' = [call EXCEPT !.at = @ + 1] /\ UNCHANGED answer
     ELSE call' = NoCall /\ answer' = [NoAnswer EXCEPT !.kind = "problems", !.problems = problems']
  /\ UNCHANGED <<on, holds, broken, edits, calls, quiet>>

Next ==
  \/ Edit \/ Raises \/ LookInSource \/ ReadForProblems
  \/ \E n \in Names : BeginLookup(n)
  \/ BeginCheck \/ BeginProblems

Spec == Init /\ [][Next]_vars

--------------------------------------------------------------------------------
TypeOK ==
  /\ on \subseteq Sources /\ broken \subseteq Sources
  /\ holds \in [Sources -> [Names -> Values \cup {NoValue, Empty}]]
  /\ call.at \in 0..Len(Order)
  /\ problems \subseteq Files \cap on

\* The source that has the say over a name: the first that is read and holds a value.
Holding(n) ==
  {i \in DOMAIN Order : Order[i] \in on \ broken /\ holds[Order[i]][n] \in Values}
Configured(n) ==
  IF Holding(n) = {} THEN <<NoValue, "nowhere">>
  ELSE LET first == CHOOSE i \in Holding(n) : \A j \in Holding(n) : i <= j
       IN <<holds[Order[first]][n], Order[first]>>

\* If nobody edits the sources during a call, every name is answered with the value of
\* the first source that holds one now, whatever was read for earlier calls: a rotated
\* secret needs no restart, and a keychain that cannot answer is never passed over
\* (_lookup, _read).
AnswersAsConfigured ==
  (quiet /\ answer.kind \in {"lookup", "check"}) =>
    /\ "keychain" \in on => "keychain" \notin broken
    /\ \A i \in DOMAIN answer.names : answer.found[i] = Configured(answer.names[i])

\* After a quiet look at the files, exactly the broken ones are reported: one that was
\* mended since an earlier call found it broken is reported no more (file_problem).
ProblemsAreCurrent ==
  (quiet /\ answer.kind = "problems") => answer.problems = broken \cap Files \cap on

\* Answers and reported problems are those of the sources as they are now.
CredentialsAreCurrent == TypeOK /\ AnswersAsConfigured /\ ProblemsAreCurrent
================================================================================
