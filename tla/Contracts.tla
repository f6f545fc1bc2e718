----------------------------- MODULE Contracts -----------------------------
(***************************************************************************)
(* Artifact contracts (engine/artifacts.py): the static check of a         *)
(* workflow, step by step (check_chain), and what the runner accepts when  *)
(* a step hands over artifacts (prepare_artifacts).  The reference is what *)
(* a type stands for: the set of concrete types an artifact may have.      *)
(***************************************************************************)
EXTENDS Integers, Sequences, FiniteSets, SequencesExt

CONSTANTS Kind, Value,
          Steps,      \* bound: steps of the workflow
          Artifacts   \* bound: artifacts of a step's result

VARIABLES
    inputs,     \* the types the workflow declares for its input
    lenient,    \* allow_unverified of the workflow
    chain,      \* the contracts of the steps checked so far
    available, silent, errors, unverified,    \* check_chain's locals and report
    result,     \* the artifacts the last step has returned
    recorded,   \* prepare_artifacts: the prepared rows
    refused     \* prepare_artifacts: raised

vars == <<inputs, lenient, chain, available, silent, errors, unverified, result, recorded, refused>>

None == "none"
Placeholder == "<any>"

ContractsAssumption ==
    /\ Steps \in Nat /\ Artifacts \in Nat
    /\ Value # {} /\ Value \cap {None, Placeholder} = {}

Type == [kind : Kind, param : Value \cup {None, Placeholder}]
Malformed == [kind |-> "malformed", param |-> None]
Concrete == {t \in Type : t.param # Placeholder}

\* ArtifactType.satisfies
KindOnly(have, required) == have.kind = required.kind
Satisfies(have, required) ==
    /\ have.kind = required.kind
    /\ IF required.param = None \/ have.param = None
       THEN required.param = None /\ have.param = None
       ELSE \/ Placeholder \in {required.param, have.param}
            \/ have.param = required.param

\* What contract_of() makes of a step: declared types, nothing, no step to look at, or
\* declarations that cannot be parsed.
OneOrNone(S) == {<<>>} \cup {<<t>> : t \in S}
Declared == [state : {"declared"}, requires : OneOrNone(Type), provides : OneOrNone(Type)]
Contract == Declared \cup [state : {"undeclared", "unknown", "malformed"},
                           requires : {<<>>}, provides : {<<>>}]

Init ==
    /\ inputs \in OneOrNone(Type) /\ lenient \in BOOLEAN
    /\ chain = <<>> /\ available = inputs
    /\ silent = 0 /\ errors = {} /\ unverified = {}
    /\ result = <<>> /\ recorded = <<>> /\ refused = FALSE

-----------------------------------------------------------------------------
(* check_chain, one step of the loop at a time.                            *)

Missing(c) == {r \in ToSet(c.requires) : \A i \in 1..Len(available) : ~Satisfies(available[i], r)}
At(k, S) == {<<k, r>> : r \in S}
Excused == silent > 0 /\ lenient

Check(c) ==
    /\ Len(chain) < Steps /\ result = <<>>
    /\ chain' = Append(chain, c)
    /\ IF c.state = "declared"
       THEN /\ IF Excused
               THEN unverified' = unverified \cup At(Len(chain'), Missing(c)) /\ UNCHANGED errors
               ELSE errors' = errors \cup At(Len(chain'), Missing(c)) /\ UNCHANGED unverified
            /\ available' = available \o c.provides
            /\ UNCHANGED silent
       ELSE /\ silent' = silent + 1
            /\ errors' = IF c.state = "malformed" THEN errors \cup {<<Len(chain'), Malformed>>}
                                                  ELSE errors
            /\ UNCHANGED <<available, unverified>>
    /\ UNCHANGED <<inputs, lenient, result, recorded, refused>>

-----------------------------------------------------------------------------
(* prepare_artifacts: the step that runs is the last one checked.          *)

\* What a step may put into its result: any type or a malformed one; a path with a
\* file, one without, or none; a hash of its own or not.
Artifact == [type : Type \cup {Malformed}, file : {"file", "missing", "nopath"},
             hash : {"given", "none"}]

Runs == Len(chain) > 0 /\ chain[Len(chain)].state # "malformed"
Provides == chain[Len(chain)].provides
Undeclared == chain[Len(chain)].state # "declared"

MayRecord(t) ==
    /\ t \in Concrete
    /\ Undeclared \/ \E i \in 1..Len(Provides) : Satisfies(t, Provides[i])

\* A hash the step gives is taken without reading the file, which may not exist.
Readable(a) == a.file = "file" \/ (a.file = "missing" /\ a.hash = "given")

\* The result is validated artifact by artifact; the first that does not pass raises,
\* and none is recorded.
Prepare(a) ==
    /\ Runs /\ ~refused /\ Len(result) < Artifacts
    /\ result' = Append(result, a)
    /\ IF MayRecord(a.type) /\ Readable(a)
       THEN recorded' = Append(recorded, a.type) /\ UNCHANGED refused
       ELSE recorded' = <<>> /\ refused' = TRUE
    /\ UNCHANGED <<inputs, lenient, chain, available, silent, errors, unverified>>

Next == (\E c \in Contract : Check(c)) \/ (\E a \in Artifact : Prepare(a))

Spec == Init /\ [][Next]_vars

-----------------------------------------------------------------------------
(* The reference and the properties.                                       *)

\* The concrete types a declared type stands for.
Meaning(t) == {c \in Concrete : c.kind = t.kind
                  /\ IF t.param = Placeholder THEN c.param # None ELSE c.param = t.param}

\* Every variable keeps its type; a refused result records nothing.
TypeOK ==
    /\ chain \in Seq(Contract) /\ Len(chain) <= Steps /\ silent \in 0..Steps
    /\ available \in Seq(Type) /\ recorded \in Seq(Concrete)
    /\ refused => recorded = <<>>

Before(k) == ToSet(inputs) \cup UNION {ToSet(chain[j].provides) : j \in 1..(k - 1)}
Unmet(k, r) == \A p \in Before(k) : Meaning(p) \cap Meaning(r) = {}
SilentBefore(k) == \E j \in 1..(k - 1) : chain[j].state # "declared"

\* The check says what it promises: a requirement is reported exactly when no artifact
\* an earlier step or the input may provide could meet it, as an error unless the
\* workflow is lenient and an earlier step declares nothing (check_chain).
ReportIsExact ==
    LET unmet == UNION {At(k, {r \in ToSet(chain[k].requires) : Unmet(k, r)}) :
                        k \in 1..Len(chain)}
        gaps == {u \in unmet : lenient /\ SilentBefore(u[1])}
    IN  /\ unverified = gaps
        /\ errors = (unmet \ gaps)
                    \cup {<<k, Malformed>> : k \in {j \in 1..Len(chain) :
                                                          chain[j].state = "malformed"}}

\* What a declared step records is what the check reckoned with: each recorded type is
\* one its provides stand for, so a later step whose requirement only concrete
\* declarations met finds an artifact of a type it asked for.
RecordedIsDeclared ==
    Runs /\ ~Undeclared =>
        \A i \in 1..Len(recorded) :
            \E j \in 1..Len(Provides) :
                /\ recorded[i] \in Meaning(Provides[j])
                /\ \A r \in Type : Provides[j] \in Concrete /\ Satisfies(Provides[j], r)
                                      => recorded[i] \in Meaning(r)

=============================================================================
