----------------------------- MODULE FiberProofs ----------------------------
(***************************************************************************)
(* Theorems about module FiberKernel, for any plugins, scripts, services,  *)
(* calls and bounds: its types, and that nothing is orphaned, whatever     *)
(* raises and whoever calls back into the kernel.                          *)
(*                                                                         *)
(* The argument is about the whole call stack, which grows without bound:  *)
(* FrameHolds is what a call relies on until it is continued (a round of   *)
(* reconciling has its flag set, a load still loads, an unload unloads),   *)
(* Fits is what may stand directly on what, and Once that a fiber is in at *)
(* most one round and one unload at a time.  FiberHolds ties each fiber to *)
(* the stack: a flag that is set has the call that will clear it, and a    *)
(* fiber its parent no longer lists is disposed of, or about to be.        *)
(* An action changes the top of the stack and one fiber; what Stacked and  *)
(* the lemmas after it say of the calls below, and StackStep of the rest,  *)
(* leaves each action its own few facts.                                   *)
(***************************************************************************)
EXTENDS FiberKernel, SequenceTheorems, TLAPS

---------------------------------------------------------------------------
(* The records and the calls there are, and the invariant.                  *)

\* What the variables hold.
FiberRecords ==
    [plugin : Plugins \cup {NoPlugin}, parent : Fibers, phase : {"none", "loading", "unloading"},
     loaded : SUBSET Epochs, failed : SUBSET Epochs, reconciling : BOOLEAN, dirty : BOOLEAN,
     disposed : BOOLEAN, asked : BOOLEAN]
EffectRecords == [kind : {"apply", "child", "provide"}, id : Nat]

EpochLabels == {"decided", "load", "apply"}
RootLabels == {"disposers", "teardown", "caught", "closed"}
FiberLabels ==
    {"reconcile", "decide", "again", "unload", "undo", "unloaded", "rolledback",
     "dispose", "finalize", "restart", "retry"}
CallFrames ==
    [at : FiberLabels \cup RootLabels, f : Fibers]
        \cup [at : EpochLabels, f : Fibers, epoch : SUBSET Epochs, pc : Nat]
        \cup [at : {"notify"}, names : SUBSET Services, todo : Seq(Fibers)]
        \cup {Raised}

\* Calls about a fiber are about one that was created, and only some about the root.
Proper(fr, n) ==
    /\ fr.at \in RootLabels => fr.f \in 0 .. (n - 1)
    /\ fr.at \in FiberLabels \cup EpochLabels => fr.f \in 1 .. (n - 1)
    /\ fr.at = "notify" => \A i \in 1 .. Len(fr.todo) : fr.todo[i] \in 1 .. (n - 1)
    /\ fr.at \in {"load", "apply"} => fr.epoch # None
    /\ fr.at = "apply" => fr.pc # 0

\* Calls of a round of reconciling, of a load and of an unload; those that are only ever
\* the running call; and those that wait for the disposers to have emptied the effects.
LoopLabels == {"decide", "decided", "again"}
LoadLabels == {"load", "apply", "rolledback"}
UndoLabels == {"undo", "unloaded"}
TopLabels == {"load", "unload", "dispose", "raised"}
EmptyLabels == {"unloaded", "rolledback", "closed"}

\* Which call may stand directly on which.
Fits(a, b) ==
    /\ b.at \notin TopLabels
    /\ b.at \in EmptyLabels => a.at = "disposers" /\ a.f = b.f
    /\ b.at = "finalize" =>
          \/ a.at = "raised"
          \/ a.at \in {"unload", "undo", "unloaded", "finalize"} /\ a.f = b.f
    /\ a.at \in LoadLabels => b.at = "again" /\ b.f = a.f

\* A fiber has at most one of these calls, and whether it has one.
Once(s, labels) ==
    \A i, j \in 1 .. Len(s) :
        s[i].at \in labels /\ s[j].at \in labels /\ s[i].f = s[j].f => i = j
In(s, labels, f) == \E i \in 1 .. Len(s) : s[i].at \in labels /\ s[i].f = f

StackHolds(s, n) ==
    /\ s \in Seq(CallFrames)
    /\ \A i \in 1 .. Len(s) : Proper(s[i], n)
    /\ \A i \in 1 .. (Len(s) - 1) : Fits(s[i], s[i + 1])
    /\ s # <<>> => s[Len(s)].at \notin LoadLabels
    /\ Once(s, LoopLabels) /\ Once(s, UndoLabels)

\* What a call relies on until it is continued.
FrameHolds(fr, fb) ==
    /\ fr.at \in LoopLabels => fb[fr.f].reconciling
    /\ fr.at = "apply" =>
          fb[fr.f].phase = "loading" /\ fb[fr.f].loaded = None /\ ~fb[fr.f].disposed
    /\ fr.at = "rolledback" => fb[fr.f].phase = "unloading" /\ fb[fr.f].loaded = None
    /\ fr.at \in UndoLabels => fb[fr.f].phase = "unloading" /\ fb[fr.f].loaded # None

\* An exception left the fiber unloading; and it is as a dispose wants it.
Stuck(f, s, fb) ==
    fb[f].phase = "unloading" /\ fb[f].loaded # None /\ ~In(s, UndoLabels, f)
Gone(f, fb) == fb[f].disposed \/ (fb[f].loaded = None /\ fb[f].phase = "none")

\* What the running call relies on.
TopHolds(s, fb, es) ==
    /\ s[1].at \in EmptyLabels => es[s[1].f] = <<>>
    /\ s[1].at = "finalize" => Gone(s[1].f, fb)
    /\ s[1].at = "load" => fb[s[1].f].loaded = None /\ ~fb[s[1].f].disposed
    /\ Len(s) > 1 /\ s[2].at = "finalize" =>
          /\ s[1].at = "unload" => fb[s[1].f].phase = "none"
          /\ s[1].at = "raised" => Stuck(s[2].f, s, fb)

\* The running call is of this fiber; and a list of effects has this one.
On(s, label, f) == s # <<>> /\ s[1].at = label /\ s[1].f = f
Lists(es, e) == \E i \in 1 .. Len(es) : es[i] = e

\* The fiber will be disposed of, or cannot be any more.
Leaving(f, s, fb) ==
    \/ In(s, {"finalize"}, f)
    \/ fb[f].asked /\ fb[f].phase # "none"
    \/ fb[f].asked /\ fb[f].loaded # None /\ On(s, "unload", f)
    \/ Stuck(f, s, fb)

\* A fiber with effects is loaded or in transition; a flag that is set has the call that
\* clears it; and a fiber that is not disposed of is listed with its parent, or leaves.
FiberHolds(f, s, fb, es) ==
    /\ es[f] # <<>> => ~fb[f].disposed /\ (fb[f].phase # "none" \/ fb[f].loaded # None)
    /\ fb[f].reconciling => In(s, LoopLabels, f)
    /\ fb[f].asked => ~fb[f].disposed /\ Leaving(f, s, fb)
    /\ f # Root /\ ~fb[f].disposed =>
          Lists(es[fb[f].parent], ChildOf(f)) \/ On(s, "dispose", f) \/ Leaving(f, s, fb)

FiberTypes ==
    /\ fibers \in [Fibers -> FiberRecords] /\ effects \in [Fibers -> Seq(EffectRecords)]
    /\ impls \in [Services -> [owner : Fibers, serial : Nat]]
    /\ live \in Seq(Fibers) /\ uids \in 1 .. (MaxFibers + 1) /\ serial \in Nat \ {0}
    /\ calls \in 0 .. MaxCalls

\* What was not created yet is gone, and nothing refers to it.
Created ==
    /\ \A f \in Fibers :
          IF f \in 1 .. (uids - 1) THEN fibers[f].plugin \in Plugins
          ELSE f # Root => fibers[f].disposed
    /\ \A f \in Fibers : fibers[f].parent \in 0 .. (uids - 1)
    /\ \A n \in Services : impls[n].owner \in 0 .. (uids - 1) /\ impls[n].serial < serial
    /\ \A i \in 1 .. Len(live) : live[i] \in 1 .. (uids - 1)
    /\ \A f \in Fibers : \A i \in 1 .. Len(effects[f]) :
          effects[f][i].kind = "child" => effects[f][i].id \in 1 .. (uids - 1)
    /\ fibers[Root].loaded # None /\ ~fibers[Root].disposed /\ ~fibers[Root].asked

\* A registration is an effect of its owner.
Registered ==
    \A n \in Services :
        impls[n].serial # 0 => Lists(effects[impls[n].owner], ServiceOf(impls[n].serial))

\* The stack, and each fiber with it.
Stands(s, n, fb, es) ==
    /\ StackHolds(s, n)
    /\ \A i \in 1 .. Len(s) : FrameHolds(s[i], fb)
    /\ s # <<>> => TopHolds(s, fb, es)
    /\ \A f \in Fibers : FiberHolds(f, s, fb, es)

FiberInv == FiberTypes /\ Created /\ Registered /\ Stands(stack, uids, fibers, effects)

---------------------------------------------------------------------------
(* Stacks. *)

\* t is s with its first k calls replaced by n others.
Follows(s, t, k, n) ==
    /\ Len(t) = n + (Len(s) - k)
    /\ \A i \in (n + 1) .. Len(t) : i - n + k \in (k + 1) .. Len(s) /\ t[i] = s[i - n + k]
    /\ \A j \in (k + 1) .. Len(s) : j - k + n \in (n + 1) .. Len(t) /\ t[j - k + n] = s[j]

Leaves(s, rest, k) ==
    /\ k \in Nat /\ k <= Len(s) /\ Len(rest) = Len(s) - k
    /\ \A i \in 1 .. Len(rest) : rest[i] = s[i + k]

LEMMA Stacked ==
    ASSUME NEW S, NEW s \in Seq(S), NEW fs \in Seq(S), NEW rest \in Seq(S),
           NEW k, Leaves(s, rest, k), NEW t, t = fs \o rest
    PROVE  /\ t \in Seq(S) /\ Follows(s, t, k, Len(fs))
           /\ \A i \in 1 .. Len(fs) : t[i] = fs[i]
<1>1. /\ Len(s) \in Nat /\ Len(fs) \in Nat /\ Len(rest) \in Nat
      /\ k \in Nat /\ k <= Len(s) /\ Len(rest) = Len(s) - k
      /\ \A i \in 1 .. Len(rest) : rest[i] = s[i + k]
  BY LenProperties DEF Leaves
<1>2. /\ t \in Seq(S) /\ Len(t) = Len(fs) + Len(rest)
      /\ \A i \in 1 .. Len(fs) + Len(rest) : t[i] = IF i <= Len(fs) THEN fs[i] ELSE rest[i - Len(fs)]
  BY ConcatProperties
<1>3. \A i \in 1 .. Len(fs) : t[i] = fs[i] BY <1>1, <1>2
<1>4. ASSUME NEW i \in (Len(fs) + 1) .. Len(t)
      PROVE  i - Len(fs) + k \in (k + 1) .. Len(s) /\ t[i] = s[i - Len(fs) + k]
  <2>1. /\ i \in 1 .. Len(fs) + Len(rest) /\ ~(i <= Len(fs)) /\ i - Len(fs) \in 1 .. Len(rest)
        /\ i - Len(fs) + k \in (k + 1) .. Len(s)
    BY <1>1, <1>2
  <2> QED BY <1>1, <1>2, <2>1
<1>5. ASSUME NEW j \in (k + 1) .. Len(s)
      PROVE  j - k + Len(fs) \in (Len(fs) + 1) .. Len(t) /\ t[j - k + Len(fs)] = s[j]
  <2>1. /\ j - k + Len(fs) \in 1 .. Len(fs) + Len(rest) /\ ~(j - k + Len(fs) <= Len(fs))
        /\ j - k + Len(fs) - Len(fs) = j - k /\ j - k \in 1 .. Len(rest) /\ j - k + k = j
        /\ j - k + Len(fs) \in (Len(fs) + 1) .. Len(t)
    BY <1>1, <1>2
  <2> QED BY <1>1, <1>2, <2>1
<1>6. Len(t) = Len(fs) + (Len(s) - k) BY <1>1, <1>2
<1> QED BY <1>2, <1>3, <1>4, <1>5, <1>6 DEF Follows

\* The running call ends and others take its place.
LEMMA Replaced ==
    ASSUME NEW S, NEW s \in Seq(S), s # <<>>, NEW fs \in Seq(S), NEW t, t = fs \o Tail(s)
    PROVE  /\ t \in Seq(S) /\ Follows(s, t, 1, Len(fs)) /\ Len(s) \in Nat \ {0}
           /\ \A i \in 1 .. Len(fs) : t[i] = fs[i]
<1> PICK rest : rest = Tail(s) OBVIOUS
<1>1. rest \in Seq(S) /\ Len(rest) = Len(s) - 1 BY HeadTailProperties
<1>2. \A i \in 1 .. Len(rest) : rest[i] = s[i + 1] BY HeadTailProperties
<1>3. Len(s) \in Nat \ {0} BY EmptySeq
<1>4. 1 \in Nat /\ 1 <= Len(s) BY <1>3
<1>5. t = fs \o rest /\ s \in Seq(S) /\ fs \in Seq(S) OBVIOUS
<1>6. Leaves(s, rest, 1) BY <1>1, <1>2, <1>4 DEF Leaves
<1>7. t \in Seq(S) BY ONLY <1>1, <1>5, <1>6, Stacked
<1>8. Follows(s, t, 1, Len(fs)) BY ONLY <1>1, <1>5, <1>6, Stacked
<1>9. \A i \in 1 .. Len(fs) : t[i] = fs[i] BY ONLY <1>1, <1>5, <1>6, Stacked
<1> QED BY <1>3, <1>7, <1>8, <1>9

\* A call makes further calls.
LEMMA Entered ==
    ASSUME NEW S, NEW s \in Seq(S), NEW fs \in Seq(S), NEW t, t = fs \o s
    PROVE  /\ t \in Seq(S) /\ Follows(s, t, 0, Len(fs))
           /\ \A i \in 1 .. Len(fs) : t[i] = fs[i]
<1>1. Len(s) \in Nat BY LenProperties
<1>2. 0 \in Nat /\ 0 <= Len(s) /\ Len(s) = Len(s) - 0 BY <1>1
<1>3. \A i \in 1 .. Len(s) : s[i] = s[i + 0] BY <1>1
<1>4. Leaves(s, s, 0) BY <1>2, <1>3 DEF Leaves
<1>5. t \in Seq(S) BY <1>4, Stacked
<1>6. Follows(s, t, 0, Len(fs)) BY <1>4, Stacked
<1>7. \A i \in 1 .. Len(fs) : t[i] = fs[i] BY <1>4, Stacked
<1> QED BY <1>5, <1>6, <1>7

\* An exception leaves the call beneath it.
LEMMA Unwound ==
    ASSUME NEW S, NEW s \in Seq(S), Len(s) > 1, NEW fs \in Seq(S),
           NEW t, t = fs \o SubSeq(s, 3, Len(s))
    PROVE  /\ t \in Seq(S) /\ Follows(s, t, 2, Len(fs))
           /\ \A i \in 1 .. Len(fs) : t[i] = fs[i]
<1>1. Len(s) \in Nat /\ 2 \in Nat /\ 2 <= Len(s) BY LenProperties
<1>2. \A i \in 3 .. Len(s) : s[i] \in S BY <1>1
<1> PICK u : u = SubSeq(s, 3, Len(s)) OBVIOUS
<1>3. u \in Seq(S) BY <1>1, <1>2, SubSeqProperties
<1>4. /\ 3 <= Len(s) => Len(u) = Len(s) - 3 + 1
      /\ ~(3 <= Len(s)) => Len(u) = 0
  BY <1>1, <1>2, SubSeqProperties
<1>5. Len(u) = Len(s) - 2
  <2>1. Len(s) > 1 OBVIOUS
  <2> PICK n : n = Len(s) OBVIOUS
  <2> PICK m : m = Len(u) OBVIOUS
  <2>2. n \in Nat /\ n > 1 /\ m \in Nat /\ (3 <= n => m = n - 3 + 1) /\ (~(3 <= n) => m = 0)
    BY <1>1, <1>3, <1>4, <2>1, LenProperties
  <2>3. m = n - 2 BY ONLY <2>2
  <2> QED BY <2>3
<1>6. \A i \in 1 .. Len(s) - 3 + 1 : u[i] = s[3 + i - 1] BY <1>1, <1>2, SubSeqProperties
<1>7. \A i \in 1 .. Len(u) : i \in 1 .. Len(s) - 3 + 1 /\ 3 + i - 1 = i + 2 BY <1>1, <1>5
<1>8. \A i \in 1 .. Len(u) : u[i] = s[i + 2] BY <1>6, <1>7
<1>9. t = fs \o u /\ s \in Seq(S) /\ fs \in Seq(S) OBVIOUS
<1>10. Leaves(s, u, 2) BY ONLY <1>1, <1>5, <1>8 DEF Leaves
<1>11. t \in Seq(S) BY ONLY <1>3, <1>9, <1>10, Stacked
<1>12. Follows(s, t, 2, Len(fs)) BY ONLY <1>3, <1>9, <1>10, Stacked
<1>13. \A i \in 1 .. Len(fs) : t[i] = fs[i] BY ONLY <1>3, <1>9, <1>10, Stacked
<1> QED BY <1>11, <1>12, <1>13

\* A call of the new stack is new or is one of the old stack.
LEMMA OldCall ==
    ASSUME NEW s, Len(s) \in Nat, NEW t, NEW k \in Nat, k <= Len(s), NEW n \in Nat, Follows(s, t, k, n),
           NEW i \in 1 .. Len(t)
    PROVE  \/ i \in 1 .. n
           \/ i \in (n + 1) .. Len(t) /\ i - n + k \in (k + 1) .. Len(s) /\ t[i] = s[i - n + k]
<1>1. Len(t) \in Nat BY DEF Follows
<1>2. i \in 1 .. n \/ i \in (n + 1) .. Len(t) BY <1>1
<1> QED BY <1>2 DEF Follows

LEMMA InKept ==
    ASSUME NEW s, Len(s) \in Nat, NEW t, NEW k \in Nat, k <= Len(s), NEW n \in Nat, Follows(s, t, k, n),
           NEW labels, NEW f, In(s, labels, f),
           \A i \in 1 .. k : ~(s[i].at \in labels /\ s[i].f = f)
    PROVE  In(t, labels, f)
<1>1. PICK j \in 1 .. Len(s) : s[j].at \in labels /\ s[j].f = f BY DEF In
<1>2. j \in (k + 1) .. Len(s) BY <1>1
<1>3. j - k + n \in (n + 1) .. Len(t) /\ t[j - k + n] = s[j] BY <1>2 DEF Follows
<1>4. j - k + n \in 1 .. Len(t) BY <1>3
<1> QED BY <1>1, <1>3, <1>4 DEF In

LEMMA InBefore ==
    ASSUME NEW s, Len(s) \in Nat, NEW t, NEW k \in Nat, k <= Len(s), NEW n \in Nat, Follows(s, t, k, n),
           NEW labels, NEW f, In(t, labels, f),
           \A i \in 1 .. n : ~(t[i].at \in labels /\ t[i].f = f)
    PROVE  \E j \in (k + 1) .. Len(s) : s[j].at \in labels /\ s[j].f = f
<1>1. PICK i \in 1 .. Len(t) : t[i].at \in labels /\ t[i].f = f BY DEF In
<1>2. i - n + k \in (k + 1) .. Len(s) /\ t[i] = s[i - n + k] BY <1>1, OldCall
<1> QED BY <1>1, <1>2

\* The new calls with one of these labels are of fibers that no other such call is of.
Fresh(t, n, s, k, labels) ==
    \A i \in 1 .. n : t[i].at \in labels =>
        /\ \A j \in 1 .. n : t[j].at \in labels => i = j
        /\ \A j \in (k + 1) .. Len(s) : s[j].at \in labels => s[j].f # t[i].f

LEMMA OnceStays ==
    ASSUME NEW s, Len(s) \in Nat, NEW t, NEW k \in Nat, k <= Len(s), NEW n \in Nat, Follows(s, t, k, n),
           NEW labels, Once(s, labels), Fresh(t, n, s, k, labels)
    PROVE  Once(t, labels)
<1> SUFFICES ASSUME NEW i \in 1 .. Len(t), NEW j \in 1 .. Len(t),
                    t[i].at \in labels, t[j].at \in labels, t[i].f = t[j].f
             PROVE  i = j
  BY DEF Once
<1>0. Len(t) \in Nat BY DEF Follows
<1>1. CASE i \in 1 .. n /\ j \in 1 .. n BY <1>1 DEF Fresh
<1>2. CASE i \in 1 .. n /\ j \notin 1 .. n
  <2>1. j \in (n + 1) .. Len(t) BY <1>0, <1>2
  <2>2. j - n + k \in (k + 1) .. Len(s) BY <2>1 DEF Follows
  <2>3. t[j] = s[j - n + k] BY <2>1 DEF Follows
  <2> QED BY <1>2, <2>2, <2>3 DEF Fresh
<1>3. CASE i \notin 1 .. n /\ j \in 1 .. n
  <2>1. i \in (n + 1) .. Len(t) BY <1>0, <1>3
  <2>2. i - n + k \in (k + 1) .. Len(s) BY <2>1 DEF Follows
  <2>3. t[i] = s[i - n + k] BY <2>1 DEF Follows
  <2> QED BY <1>3, <2>2, <2>3 DEF Fresh
<1>4. CASE i \notin 1 .. n /\ j \notin 1 .. n
  <2>0. i \in (n + 1) .. Len(t) /\ j \in (n + 1) .. Len(t) BY <1>0, <1>4
  <2>f. Follows(s, t, k, n) OBVIOUS
  <2>1. i - n + k \in (k + 1) .. Len(s) /\ t[i] = s[i - n + k] BY ONLY <2>0, <2>f DEF Follows
  <2>2. j - n + k \in (k + 1) .. Len(s) /\ t[j] = s[j - n + k] BY ONLY <2>0, <2>f DEF Follows
  <2>3. i - n + k \in 1 .. Len(s) /\ j - n + k \in 1 .. Len(s) BY <2>1, <2>2
  <2>4. i - n + k = j - n + k BY <2>1, <2>2, <2>3 DEF Once
  <2>5. i \in Int /\ j \in Int
    <3>1. Len(t) \in Int BY DEF Follows
    <3> QED BY <3>1
  <2> QED BY <2>4, <2>5
<1> QED BY <1>1, <1>2, <1>3, <1>4

LEMMA StackStep ==
    ASSUME NEW u \in Nat, NEW v \in Nat, u <= v, NEW s, StackHolds(s, u),
           NEW t \in Seq(CallFrames), NEW k \in Nat, k <= Len(s), NEW n \in Nat, Follows(s, t, k, n),
           \A i \in 1 .. n : Proper(t[i], v),
           \A i \in 1 .. (n - 1) : Fits(t[i], t[i + 1]),
           n # 0 /\ k # Len(s) => Fits(t[n], s[k + 1]),
           n # 0 /\ k = Len(s) => t[n].at \notin LoadLabels,
           Fresh(t, n, s, k, LoopLabels), Fresh(t, n, s, k, UndoLabels)
    PROVE  StackHolds(t, v)
<1>1. Len(s) \in Nat /\ Len(t) \in Nat /\ Len(t) = n + (Len(s) - k)
  BY LenProperties DEF StackHolds, Follows
<1>2. ASSUME NEW i \in 1 .. Len(t) PROVE Proper(t[i], v)
  <2>1. CASE i \in 1 .. n BY <2>1
  <2>2. CASE i \notin 1 .. n
    <3>0. i \in (n + 1) .. Len(t) BY <1>1, <2>2
    <3>1. i - n + k \in (k + 1) .. Len(s) /\ t[i] = s[i - n + k] BY <3>0 DEF Follows
    <3>2. i - n + k \in 1 .. Len(s) BY <3>1
    <3>3. Proper(t[i], u) BY <3>1, <3>2 DEF StackHolds
    <3>4. 0 .. (u - 1) \subseteq 0 .. (v - 1) /\ 1 .. (u - 1) \subseteq 1 .. (v - 1) OBVIOUS
    <3> QED BY <3>3, <3>4 DEF Proper
  <2> QED BY <2>1, <2>2
<1>3. ASSUME NEW i \in 1 .. (Len(t) - 1) PROVE Fits(t[i], t[i + 1])
  <2>1. CASE i \in 1 .. (n - 1) BY <2>1
  <2>2. CASE i = n
    <3>1. n # 0 /\ k # Len(s) /\ n + 1 \in (n + 1) .. Len(t) /\ (n + 1) - n + k = k + 1
      BY <1>1, <2>2
    <3>2. t[n + 1] = s[k + 1] BY <3>1 DEF Follows
    <3> QED BY <2>2, <3>1, <3>2
  <2>3. CASE i > n
    <3>1. /\ i \in (n + 1) .. Len(t) /\ i + 1 \in (n + 1) .. Len(t)
          /\ (i + 1) - n + k = (i - n + k) + 1 /\ i - n + k \in 1 .. (Len(s) - 1)
      BY <1>1, <2>3
    <3>2. t[i] = s[i - n + k] /\ t[i + 1] = s[(i - n + k) + 1]
      BY <3>1 DEF Follows
    <3>3. Fits(s[i - n + k], s[(i - n + k) + 1]) BY <3>1 DEF StackHolds
    <3> QED BY <3>2, <3>3
  <2>4. i \in 1 .. (n - 1) \/ i = n \/ i > n BY <1>1
  <2> QED BY <2>1, <2>2, <2>3, <2>4
<1>4. ASSUME t # <<>> PROVE t[Len(t)].at \notin LoadLabels
  <2>1. Len(t) # 0 BY <1>4, EmptySeq
  <2>2. CASE k = Len(s)
    <3>1. Len(t) = n /\ n # 0 BY <1>1, <2>1, <2>2
    <3> QED BY <2>2, <3>1
  <2>3. CASE k # Len(s)
    <3>1. Len(t) \in (n + 1) .. Len(t) /\ Len(t) - n + k = Len(s) /\ Len(s) # 0 BY <1>1, <2>3
    <3>2. t[Len(t)] = s[Len(s)] BY <3>1 DEF Follows
    <3>3. s # <<>> BY <3>1
    <3> QED BY <3>2, <3>3 DEF StackHolds
  <2> QED BY <2>2, <2>3
<1>5. Once(t, LoopLabels) /\ Once(t, UndoLabels) BY <1>1, OnceStays DEF StackHolds
<1> QED BY <1>2, <1>3, <1>4, <1>5 DEF StackHolds

\* The stack t is s with its first k calls replaced by n others.
Turns(s, t, k, n) ==
    /\ s \in Seq(CallFrames) /\ t \in Seq(CallFrames) /\ Len(s) \in Nat
    /\ k \in Nat /\ n \in Nat /\ k <= Len(s) /\ Follows(s, t, k, n)

\* The call a may stand on what is left of the stack.
Above(a, s, k) == IF k = Len(s) THEN a.at \notin LoadLabels ELSE Fits(a, s[k + 1])
New(a, s, k) ==
    /\ a.at \in LoopLabels =>
          \A j \in (k + 1) .. Len(s) : s[j].at \in LoopLabels => s[j].f # a.f
    /\ a.at \in UndoLabels =>
          \A j \in (k + 1) .. Len(s) : s[j].at \in UndoLabels => s[j].f # a.f

Kind(a, b, labels) == ~(a.at \in labels /\ b.at \in labels)

LEMMA Pops ==
    ASSUME NEW s \in Seq(CallFrames), s # <<>>, NEW t, t = <<>> \o Tail(s)
    PROVE  Turns(s, t, 1, 0)
<1>1. <<>> \in Seq(CallFrames) /\ Len(<<>>) = 0 OBVIOUS
<1>2. t \in Seq(CallFrames) /\ Follows(s, t, 1, 0) /\ Len(s) \in Nat \ {0} BY <1>1, Replaced
<1> QED BY <1>2 DEF Turns

LEMMA Turned ==
    ASSUME NEW s \in Seq(CallFrames), NEW a \in CallFrames, s # <<>>, NEW t, t = <<a>> \o Tail(s)
    PROVE  Turns(s, t, 1, 1) /\ t[1] = a
<1> PICK fs : fs = <<a>> OBVIOUS
<1>1. fs \in Seq(CallFrames) /\ Len(fs) = 1 /\ fs[1] = a OBVIOUS
<1>2. s \in Seq(CallFrames) /\ s # <<>> /\ t = fs \o Tail(s) OBVIOUS
<1>3. t \in Seq(CallFrames) /\ Len(s) \in Nat \ {0} BY ONLY <1>1, <1>2, Replaced
<1>4. Follows(s, t, 1, Len(fs)) BY ONLY <1>1, <1>2, Replaced
<1>5. \A i \in 1 .. Len(fs) : t[i] = fs[i] BY <1>1, <1>2, Replaced
<1>6. t[1] = a BY <1>1, <1>5
<1> QED BY <1>1, <1>3, <1>4, <1>6 DEF Turns

Twice(s, t, a, b) == t = <<a, b>> \o Tail(s)

LEMMA TurnedTwice ==
    ASSUME NEW s \in Seq(CallFrames), NEW a \in CallFrames, NEW b \in CallFrames,
           s # <<>>, NEW t, Twice(s, t, a, b)
    PROVE  Turns(s, t, 1, 2) /\ t[1] = a /\ t[2] = b
<1>1. /\ <<a, b>> \in Seq(CallFrames) /\ Len(<<a, b>>) = 2
      /\ <<a, b>>[1] = a /\ <<a, b>>[2] = b
  OBVIOUS
<1>5. t = <<a, b>> \o Tail(s) BY DEF Twice
<1>2. t \in Seq(CallFrames) /\ Follows(s, t, 1, 2) /\ Len(s) \in Nat \ {0} BY <1>1, <1>5, Replaced
<1>3. \A i \in 1 .. Len(<<a, b>>) : t[i] = <<a, b>>[i] BY <1>1, <1>5, Replaced
<1>4. t[1] = a /\ t[2] = b BY <1>1, <1>3
<1> QED BY <1>2, <1>4 DEF Turns

LEMMA Pushed ==
    ASSUME NEW s \in Seq(CallFrames), NEW a \in CallFrames, NEW t, t = <<a>> \o s
    PROVE  Turns(s, t, 0, 1) /\ t[1] = a
<1>1. <<a>> \in Seq(CallFrames) /\ Len(<<a>>) = 1 /\ <<a>>[1] = a OBVIOUS
<1>2. t \in Seq(CallFrames) /\ Follows(s, t, 0, 1) BY <1>1, Entered
<1>3. t[1] = a BY <1>1, Entered
<1>4. Len(s) \in Nat BY LenProperties
<1> QED BY <1>2, <1>3, <1>4 DEF Turns

OnTop(s, t, a, b) == t = <<a, b>> \o s

LEMMA PushedTwice ==
    ASSUME NEW s \in Seq(CallFrames), NEW a \in CallFrames, NEW b \in CallFrames,
           NEW t, OnTop(s, t, a, b)
    PROVE  Turns(s, t, 0, 2) /\ t[1] = a /\ t[2] = b
<1>1. /\ <<a, b>> \in Seq(CallFrames) /\ Len(<<a, b>>) = 2
      /\ <<a, b>>[1] = a /\ <<a, b>>[2] = b
  OBVIOUS
<1>6. t = <<a, b>> \o s BY DEF OnTop
<1>2. t \in Seq(CallFrames) /\ Follows(s, t, 0, 2) BY <1>1, <1>6, Entered
<1>3. \A i \in 1 .. Len(<<a, b>>) : t[i] = <<a, b>>[i] BY <1>1, <1>6, Entered
<1>4. t[1] = a /\ t[2] = b BY <1>1, <1>3
<1>5. Len(s) \in Nat BY LenProperties
<1> QED BY <1>2, <1>4, <1>5 DEF Turns

\* The calls of a stack that turned are again of the form the invariant asks for.
LEMMA StandsOn ==
    ASSUME NEW u \in Nat, NEW v \in Nat, u <= v, NEW s, NEW t, NEW k, NEW n,
           StackHolds(s, u), Turns(s, t, k, n), n \in 0 .. 2,
           \A i \in 1 .. n : Proper(t[i], v) /\ New(t[i], s, k),
           n # 0 => Above(t[n], s, k),
           n = 2 => Fits(t[1], t[2]) /\ Kind(t[1], t[2], LoopLabels) /\ Kind(t[1], t[2], UndoLabels)
    PROVE  StackHolds(t, v)
<1>1. \A i \in 1 .. n : Proper(t[i], v) OBVIOUS
<1>2. \A i \in 1 .. (n - 1) : i = 1 /\ n = 2 /\ i + 1 = 2 OBVIOUS
<1>3. \A i \in 1 .. (n - 1) : Fits(t[i], t[i + 1]) BY <1>2
<1>4. n # 0 /\ k # Len(s) => Fits(t[n], s[k + 1]) BY DEF Above
<1>5. n # 0 /\ k = Len(s) => t[n].at \notin LoadLabels BY DEF Above
<1>6. \A i \in 1 .. n : \A j \in 1 .. n : i # j => n = 2 /\ i \in {1, 2} /\ j \in {1, 2} OBVIOUS
<1>7. ASSUME NEW i \in 1 .. n, t[i].at \in LoopLabels
      PROVE  /\ \A j \in 1 .. n : t[j].at \in LoopLabels => i = j
             /\ \A j \in (k + 1) .. Len(s) : s[j].at \in LoopLabels => s[j].f # t[i].f
  <2>1. \A j \in (k + 1) .. Len(s) : s[j].at \in LoopLabels => s[j].f # t[i].f BY <1>7 DEF New
  <2>2. \A j \in 1 .. n : t[j].at \in LoopLabels => i = j BY <1>6, <1>7 DEF Kind
  <2> QED BY <2>1, <2>2
<1>8. ASSUME NEW i \in 1 .. n, t[i].at \in UndoLabels
      PROVE  /\ \A j \in 1 .. n : t[j].at \in UndoLabels => i = j
             /\ \A j \in (k + 1) .. Len(s) : s[j].at \in UndoLabels => s[j].f # t[i].f
  <2>1. \A j \in (k + 1) .. Len(s) : s[j].at \in UndoLabels => s[j].f # t[i].f BY <1>8 DEF New
  <2>2. \A j \in 1 .. n : t[j].at \in UndoLabels => i = j BY <1>6, <1>8 DEF Kind
  <2> QED BY <2>1, <2>2
<1>9. Fresh(t, n, s, k, LoopLabels) BY <1>7 DEF Fresh
<1>10. Fresh(t, n, s, k, UndoLabels) BY <1>8 DEF Fresh
<1>11. /\ t \in Seq(CallFrames) /\ k \in Nat /\ k <= Len(s) /\ n \in Nat /\ Follows(s, t, k, n)
  BY DEF Turns
<1> QED BY <1>1, <1>3, <1>4, <1>5, <1>9, <1>10, <1>11, StackStep

LEMMA FramesStay ==
    ASSUME NEW s, NEW t, NEW k, NEW n, Turns(s, t, k, n), NEW fb,
           \A i \in 1 .. n : FrameHolds(t[i], fb),
           \A j \in (k + 1) .. Len(s) : FrameHolds(s[j], fb),
           NEW i \in 1 .. Len(t)
    PROVE  FrameHolds(t[i], fb)
<1>1. i \in 1 .. n \/ (i - n + k \in (k + 1) .. Len(s) /\ t[i] = s[i - n + k]) BY OldCall DEF Turns
<1> QED BY <1>1

\* The call beneath one that ended.
LEMMA TopStays ==
    ASSUME NEW u, NEW s, NEW t, StackHolds(s, u), Turns(s, t, 1, 0), t # <<>>, NEW fb, NEW es,
           s[2].at \in EmptyLabels => es[s[2].f] = <<>>,
           s[2].at = "finalize" => Gone(s[2].f, fb)
    PROVE  TopHolds(t, fb, es)
<1>1. Len(t) # 0 /\ Len(t) \in Nat /\ Len(s) \in Nat BY EmptySeq, LenProperties DEF Turns
<1>2. Len(t) = Len(s) - 1 BY <1>1 DEF Turns, Follows
<1>3. 1 \in 1 .. Len(t) /\ 1 \in (0 + 1) .. Len(t) /\ 1 - 0 + 1 = 2 /\ 1 \in 1 .. (Len(s) - 1) /\ 1 + 1 = 2
  BY <1>1, <1>2
<1>4. t[1] = s[2] BY <1>3 DEF Turns, Follows
<1>5. Fits(s[1], s[2]) BY <1>3 DEF StackHolds
<1>6. t[1].at \notin TopLabels BY <1>4, <1>5 DEF Fits
<1> QED BY <1>4, <1>6 DEF TopHolds, TopLabels

\* No two loads of a fiber are in progress: each has a round of its own beneath it.
LEMMA LoadsOnce ==
    ASSUME NEW u, NEW s, StackHolds(s, u)
    PROVE  Once(s, LoadLabels)
<1> SUFFICES ASSUME NEW i \in 1 .. Len(s), NEW j \in 1 .. Len(s),
                    s[i].at \in LoadLabels, s[j].at \in LoadLabels, s[i].f = s[j].f
             PROVE  i = j
  BY DEF Once
<1>1. Len(s) \in Nat BY LenProperties DEF StackHolds
<1>2. s # <<>> BY <1>1
<1>3. s[Len(s)].at \notin LoadLabels BY <1>2 DEF StackHolds
<1>4. i \in 1 .. (Len(s) - 1) /\ j \in 1 .. (Len(s) - 1) BY <1>1, <1>3
<1>5. Fits(s[i], s[i + 1]) /\ Fits(s[j], s[j + 1]) BY <1>4 DEF StackHolds
<1>6. s[i + 1].at = "again" /\ s[i + 1].f = s[i].f /\ s[j + 1].at = "again" /\ s[j + 1].f = s[j].f
  BY <1>5 DEF Fits
<1>7. i + 1 \in 1 .. Len(s) /\ j + 1 \in 1 .. Len(s) BY <1>1, <1>4
<1>8. i + 1 = j + 1 BY <1>6, <1>7 DEF StackHolds, Once, LoopLabels
<1> QED BY <1>1, <1>8

\* What a step leaves alone of a fiber.
Alike(r, q) ==
    q.phase = r.phase /\ q.loaded = r.loaded /\ q.disposed = r.disposed /\ q.asked = r.asked
        /\ q.parent = r.parent

LEMMA OthersHold ==
    ASSUME NEW s, NEW t, NEW fb, NEW fc, NEW es, NEW et, NEW g, FiberHolds(g, s, fb, es),
           Alike(fb[g], fc[g]),
           fc[g].reconciling => In(t, LoopLabels, g),
           et[g] # <<>> => es[g] # <<>>,
           Lists(es[fb[g].parent], ChildOf(g)) =>
               Lists(et[fb[g].parent], ChildOf(g)) \/ On(t, "dispose", g),
           In(s, {"finalize"}, g) => In(t, {"finalize"}, g) \/ Stuck(g, t, fc),
           In(t, UndoLabels, g) => In(s, UndoLabels, g),
           On(s, "unload", g) => On(t, "unload", g) \/ fb[g].loaded = None \/ fb[g].phase # "none",
           On(s, "dispose", g) => On(t, "dispose", g) \/ fb[g].disposed
    PROVE  FiberHolds(g, t, fc, et)
<1>1. Leaving(g, s, fb) => Leaving(g, t, fc) BY DEF Leaving, Stuck, Alike
<1> QED BY <1>1 DEF FiberHolds, Alike

LEMMA Stays ==
    ASSUME NEW s, NEW t, NEW k, NEW n, Turns(s, t, k, n), NEW labels, NEW g,
           \A i \in 1 .. k : ~(s[i].at \in labels /\ s[i].f = g),
           In(s, labels, g)
    PROVE  In(t, labels, g)
BY InKept DEF Turns

LEMMA Was ==
    ASSUME NEW s, NEW t, NEW k, NEW n, Turns(s, t, k, n), NEW labels, NEW g,
           \A i \in 1 .. n : ~(t[i].at \in labels /\ t[i].f = g),
           In(t, labels, g)
    PROVE  In(s, labels, g)
<1>1. k \in Nat /\ n \in Nat /\ Len(s) \in Nat /\ k <= Len(s) /\ Follows(s, t, k, n) BY DEF Turns
<1>2. \E j \in (k + 1) .. Len(s) : s[j].at \in labels /\ s[j].f = g BY <1>1, InBefore
<1>3. (k + 1) .. Len(s) \subseteq 1 .. Len(s) BY <1>1
<1> QED BY <1>2, <1>3 DEF In

LEMMA IsIn ==
    ASSUME NEW s, NEW labels, NEW g, NEW i \in 1 .. Len(s), s[i].at \in labels, s[i].f = g
    PROVE  In(s, labels, g)
BY DEF In

LEMMA Only ==
    ASSUME NEW s, Len(s) \in Nat, NEW labels, Once(s, labels), NEW i \in 1 .. Len(s), s[i].at \in labels,
           NEW j \in 1 .. Len(s), j # i, s[j].at \in labels
    PROVE  s[j].f # s[i].f
BY DEF Once

LEMMA StandsAgain ==
    ASSUME NEW u \in Nat, NEW v \in Nat, u <= v, NEW s, NEW t, NEW k, NEW n, NEW fb, NEW fc, NEW es, NEW et,
           Stands(s, u, fb, es), Turns(s, t, k, n), n \in 0 .. 2,
           \A i \in 1 .. n : Proper(t[i], v) /\ New(t[i], s, k) /\ FrameHolds(t[i], fc),
           n # 0 => Above(t[n], s, k),
           n = 2 => Fits(t[1], t[2]) /\ Kind(t[1], t[2], LoopLabels) /\ Kind(t[1], t[2], UndoLabels),
           \A j \in (k + 1) .. Len(s) : FrameHolds(s[j], fc),
           t # <<>> => TopHolds(t, fc, et),
           \A g \in Fibers : FiberHolds(g, t, fc, et)
    PROVE  Stands(t, v, fc, et)
<1>1. StackHolds(s, u) BY DEF Stands
<1>2. StackHolds(t, v) BY <1>1, StandsOn
<1>3. \A i \in 1 .. Len(t) : FrameHolds(t[i], fc) BY FramesStay
<1> QED BY <1>2, <1>3 DEF Stands

\* A step leaves the fibers other than f alone.
OthersKept(u, f, fb, fc) ==
    \A g \in 0 .. (u - 1) : g # f => Alike(fb[g], fc[g]) /\ (fb[g].reconciling => fc[g].reconciling)

\* A call keeps what it relies on unless the step changes its own fiber.
LEMMA FrameKeeps ==
    ASSUME NEW u, NEW fr, NEW fb, NEW fc, NEW f, Proper(fr, u), FrameHolds(fr, fb),
           OthersKept(u, f, fb, fc),
           fr.at \in LoopLabels \cup LoadLabels \cup UndoLabels /\ fr.f = f => FrameHolds(fr, fc),
           u \in Nat
    PROVE  FrameHolds(fr, fc)
<1>1. CASE fr.at \notin LoopLabels \cup LoadLabels \cup UndoLabels
  BY <1>1 DEF FrameHolds, LoadLabels
<1>2. CASE fr.at \in LoopLabels \cup LoadLabels \cup UndoLabels /\ fr.f # f
  <2>1. fr.at \in FiberLabels \cup EpochLabels
    BY <1>2 DEF LoopLabels, LoadLabels, UndoLabels, FiberLabels, EpochLabels
  <2>2. fr.f \in 0 .. (u - 1) BY <2>1 DEF Proper
  <2>3. Alike(fb[fr.f], fc[fr.f]) /\ (fb[fr.f].reconciling => fc[fr.f].reconciling)
    BY <1>2, <2>2 DEF OthersKept
  <2> QED BY <2>3 DEF FrameHolds, Alike
<1> QED BY <1>1, <1>2

Passes(s, t, k, n, g) ==
    /\ \A i \in 1 .. k : ~(s[i].at \in LoopLabels \cup {"finalize"} /\ s[i].f = g)
    /\ \A i \in 1 .. n : ~(t[i].at \in UndoLabels /\ t[i].f = g)
    /\ ~On(s, "unload", g) /\ ~On(s, "dispose", g)

\* A fiber that none of the calls that came and went is about.
LEMMA Bystander ==
    ASSUME NEW s, NEW t, NEW k, NEW n, Turns(s, t, k, n), NEW fb, NEW fc, NEW es, NEW et, NEW g,
           FiberHolds(g, s, fb, es), Passes(s, t, k, n, g),
           Alike(fb[g], fc[g]), fc[g].reconciling => fb[g].reconciling,
           et[g] # <<>> => es[g] # <<>>,
           Lists(es[fb[g].parent], ChildOf(g)) =>
               Lists(et[fb[g].parent], ChildOf(g)) \/ On(t, "dispose", g)
    PROVE  FiberHolds(g, t, fc, et)
<1>1. fc[g].reconciling => In(s, LoopLabels, g) BY DEF FiberHolds
<1>2. \A i \in 1 .. k : ~(s[i].at \in LoopLabels /\ s[i].f = g) BY DEF Passes
<1>3. fc[g].reconciling => In(t, LoopLabels, g) BY <1>1, <1>2, Stays
<1>4. \A i \in 1 .. k : ~(s[i].at \in {"finalize"} /\ s[i].f = g) BY DEF Passes
<1>5. In(s, {"finalize"}, g) => In(t, {"finalize"}, g) BY <1>4, Stays
<1>6. In(t, UndoLabels, g) => In(s, UndoLabels, g) BY Was DEF Passes
<1> QED BY <1>3, <1>5, <1>6, OthersHold DEF Passes

---------------------------------------------------------------------------
(* The calls there are. *)

LEMMA FiberFrame ==
    ASSUME NEW l \in FiberLabels \cup RootLabels, NEW f \in Fibers
    PROVE  /\ Frame(l, f) \in CallFrames /\ Frame(l, f).at = l /\ Frame(l, f).f = f
BY DEF Frame, CallFrames

LEMMA OtherFrames ==
    /\ \A l \in EpochLabels : \A f \in Fibers : \A e \in SUBSET Epochs :
          /\ EpochFrame(l, f, e) \in CallFrames
          /\ EpochFrame(l, f, e).at = l /\ EpochFrame(l, f, e).f = f
          /\ EpochFrame(l, f, e).epoch = e /\ EpochFrame(l, f, e).pc = 1
    /\ Raised \in CallFrames /\ Raised.at = "raised"
BY DEF EpochFrame, Raised, CallFrames

LEMMA Notifies ==
    ASSUME FiberTypes, Created, NEW names \in SUBSET Services
    PROVE  /\ NotifyFrame(names) \in CallFrames /\ NotifyFrame(names).at = "notify"
           /\ Proper(NotifyFrame(names), uids)
<1>1. /\ NotifyFrame(names) \in CallFrames /\ NotifyFrame(names).at = "notify"
      /\ NotifyFrame(names).todo = live
  BY DEF NotifyFrame, CallFrames, FiberTypes
<1> QED BY <1>1 DEF Proper, Created, RootLabels, FiberLabels, EpochLabels

\* The call in progress.
LEMMA TopOf ==
    ASSUME FiberInv, NEW l, At(l)
    PROVE  /\ stack # <<>> /\ Len(stack) \in Nat \ {0} /\ Top = stack[1] /\ stack \in Seq(CallFrames)
           /\ stack[1] \in CallFrames /\ stack[1].at = l
           /\ Proper(stack[1], uids) /\ FrameHolds(stack[1], fibers)
           /\ TopHolds(stack, fibers, effects)
<1>1. stack # <<>> /\ stack \in Seq(CallFrames)
  BY DEF At, Idle, FiberInv, Stands, StackHolds
<1>2. Top = stack[1] BY <1>1, HeadTailProperties DEF Top
<1>3. Len(stack) \in Nat \ {0} BY <1>1, EmptySeq, LenProperties
<1>4. 1 \in 1 .. Len(stack) BY <1>3
<1>5. stack[1] \in CallFrames BY <1>1, <1>4, ElementOfSeq
<1> QED BY <1>1, <1>2, <1>3, <1>4, <1>5 DEF At, FiberInv, Stands, StackHolds

LEMMA TopFiber ==
    ASSUME FiberAssumption, FiberInv, NEW l \in FiberLabels \cup RootLabels \cup EpochLabels, At(l)
    PROVE  /\ Top.f \in 0 .. (uids - 1) /\ Top.f \in Fibers /\ fibers[Top.f] \in FiberRecords
           /\ l \in FiberLabels \cup EpochLabels => Top.f # Root
<1>1. Top = stack[1] /\ stack[1].at = l /\ Proper(stack[1], uids) BY TopOf
<1>2. uids \in 1 .. (MaxFibers + 1) /\ fibers \in [Fibers -> FiberRecords] BY DEF FiberInv, FiberTypes
<1>3. Top.f \in 0 .. (uids - 1) /\ (l \in FiberLabels \cup EpochLabels => Top.f # Root)
  <2>1. l \in RootLabels => Top.f \in 0 .. (uids - 1) BY <1>1 DEF Proper
  <2>2. l \in FiberLabels \cup EpochLabels => Top.f \in 1 .. (uids - 1) BY <1>1 DEF Proper
  <2>3. 0 \notin 1 .. (uids - 1) /\ 1 .. (uids - 1) \subseteq 0 .. (uids - 1) BY <1>2
  <2>4. l \notin FiberLabels \cup EpochLabels => l \in RootLabels OBVIOUS
  <2> QED BY <2>1, <2>2, <2>3, <2>4 DEF Root
<1>4. Top.f \in Fibers BY <1>2, <1>3 DEF Fibers, FiberAssumption
<1> QED BY <1>2, <1>3, <1>4

\* A step that changes the record of one fiber and no table.
LEMMA Quiet ==
    ASSUME FiberAssumption, FiberTypes, Created, Registered, UNCHANGED table, calls' \in 0 .. MaxCalls,
           NEW f \in 0 .. (uids - 1), NEW r \in FiberRecords, fibers' = [fibers EXCEPT ![f] = r],
           r.plugin = fibers[f].plugin, r.parent = fibers[f].parent,
           f = Root => r.loaded # None /\ ~r.disposed /\ ~r.asked
    PROVE  FiberTypes' /\ Created' /\ Registered'
<1>1. UNCHANGED <<live, effects, impls, serial, uids>> BY DEF table
<1>2. FiberTypes' BY <1>1 DEF FiberTypes
<1>3. f \in Fibers BY DEF FiberTypes, Fibers, FiberAssumption
<1>4. \A g \in Fibers : fibers'[g] = IF g = f THEN r ELSE fibers[g] BY <1>3 DEF FiberTypes
<1>5. uids \in Nat \ {0} /\ (f # Root => f \in 1 .. (uids - 1)) BY DEF FiberTypes, Root
<1>6. Created'
  <2>1. ASSUME NEW g \in Fibers
        PROVE  IF g \in 1 .. (uids' - 1) THEN fibers'[g].plugin \in Plugins
               ELSE g # Root => fibers'[g].disposed
    BY <1>1, <1>4, <1>5, <2>1 DEF Created
  <2>2. \A g \in Fibers : fibers'[g].parent \in 0 .. (uids' - 1) BY <1>1, <1>4 DEF Created
  <2>3. fibers'[Root].loaded # None /\ ~fibers'[Root].disposed /\ ~fibers'[Root].asked
    <3>1. Root \in Fibers BY DEF Root, Fibers, FiberAssumption
    <3> QED BY <1>4, <3>1 DEF Created
  <2> QED BY <1>1, <2>1, <2>2, <2>3 DEF Created
<1>7. Registered' BY <1>1 DEF Registered
<1> QED BY <1>2, <1>6, <1>7

OldFrames(s, k, f, fc) ==
    \A j \in (k + 1) .. Len(s) :
        s[j].at \in LoopLabels \cup LoadLabels \cup UndoLabels /\ s[j].f = f => FrameHolds(s[j], fc)

Alters(f, r) ==
    /\ f \in 0 .. (uids - 1) /\ r \in FiberRecords /\ fibers' = [fibers EXCEPT ![f] = r]
    /\ r.plugin = fibers[f].plugin /\ r.parent = fibers[f].parent
    /\ f = Root => r.loaded # None /\ ~r.disposed /\ ~r.asked
    /\ UNCHANGED table /\ calls' \in 0 .. MaxCalls

LEMMA QuietStep ==
    ASSUME FiberAssumption, FiberInv, NEW f, NEW r, Alters(f, r),
           NEW k, NEW n, Turns(stack, stack', k, n), n \in 0 .. 2,
           \A i \in 1 .. n : Proper(stack'[i], uids) /\ New(stack'[i], stack, k) /\ FrameHolds(stack'[i], fibers'),
           n # 0 => Above(stack'[n], stack, k),
           n = 2 => /\ Fits(stack'[1], stack'[2])
                    /\ Kind(stack'[1], stack'[2], LoopLabels) /\ Kind(stack'[1], stack'[2], UndoLabels),
           OldFrames(stack, k, f, fibers'),
           stack' # <<>> => TopHolds(stack', fibers', effects),
           FiberHolds(f, stack', fibers', effects),
           \A g \in Fibers : g # f => Passes(stack, stack', k, n, g)
    PROVE  FiberInv'
<1>1. FiberTypes /\ Created /\ Registered /\ Stands(stack, uids, fibers, effects) BY DEF FiberInv
<1>2. FiberTypes' /\ Created' /\ Registered' BY <1>1, Quiet DEF Alters
<1>3. effects' = effects /\ uids' = uids /\ uids \in Nat BY <1>1 DEF table, FiberTypes, Alters
<1>4. \A g \in Fibers : g # f => fibers'[g] = fibers[g] BY <1>1 DEF FiberTypes, Alters
<1>5. 0 .. (uids - 1) \subseteq Fibers BY <1>1 DEF FiberTypes, FiberAssumption, Fibers
<1>6. ASSUME NEW j \in (k + 1) .. Len(stack) PROVE FrameHolds(stack[j], fibers')
  <2>1. j \in 1 .. Len(stack) BY DEF Turns
  <2>2. Proper(stack[j], uids) /\ FrameHolds(stack[j], fibers) BY <1>1, <2>1 DEF Stands, StackHolds
  <2>3. OthersKept(uids, f, fibers, fibers') BY <1>4, <1>5 DEF Alike, OthersKept
  <2>4. stack[j].at \in LoopLabels \cup LoadLabels \cup UndoLabels /\ stack[j].f = f
          => FrameHolds(stack[j], fibers')
    BY DEF OldFrames
  <2> QED BY <1>3, <2>2, <2>3, <2>4, FrameKeeps
<1>7. ASSUME NEW g \in Fibers PROVE FiberHolds(g, stack', fibers', effects)
  <2>1. CASE g = f BY <2>1
  <2>2. CASE g # f
    <3>1. FiberHolds(g, stack, fibers, effects) BY <1>1 DEF Stands
    <3>2. Passes(stack, stack', k, n, g) BY <2>2
    <3>3. Alike(fibers[g], fibers'[g]) /\ (fibers'[g].reconciling => fibers[g].reconciling)
      BY <1>4, <2>2 DEF Alike
    <3> QED BY <3>1, <3>2, <3>3, Bystander
  <2> QED BY <2>1, <2>2
<1>8. uids <= uids BY <1>3
<1>9. Stands(stack', uids, fibers', effects) BY <1>1, <1>3, <1>6, <1>7, <1>8, StandsAgain
<1> QED BY <1>2, <1>3, <1>9 DEF FiberInv

\* The call in progress is about f, or of a kind no fiber depends on.
About(fr, f) == fr.f = f \/ fr.at \notin LoopLabels \cup {"finalize", "unload", "dispose"}

LEMMA QuietPop ==
    ASSUME FiberAssumption, FiberInv, NEW f, NEW r, Alters(f, r), stack # <<>>, About(stack[1], f),
           stack' = <<>> \o Tail(stack), OldFrames(stack, 1, f, fibers'),
           Len(stack) > 1 => /\ stack[2].at \in EmptyLabels => effects[stack[2].f] = <<>>
                             /\ stack[2].at = "finalize" => Gone(stack[2].f, fibers'),
           Turns(stack, stack', 1, 0) => FiberHolds(f, stack', fibers', effects)
    PROVE  FiberInv'
<1>1. stack \in Seq(CallFrames) BY DEF FiberInv, Stands, StackHolds
<1>2. Turns(stack, stack', 1, 0) BY <1>1, Pops
<1>3. ASSUME stack' # <<>> PROVE TopHolds(stack', fibers', effects)
  <2>1. Len(stack') # 0 /\ Len(stack') = Len(stack) - 1 /\ Len(stack) \in Nat /\ Len(stack') \in Nat
    BY <1>2, <1>3, EmptySeq, LenProperties DEF Turns, Follows
  <2>2. Len(stack) > 1 BY <2>1
  <2>3. StackHolds(stack, uids) BY DEF FiberInv, Stands
  <2> QED BY <1>2, <1>3, <2>2, <2>3, TopStays
<1>4. ASSUME NEW g \in Fibers, g # f PROVE Passes(stack, stack', 1, 0, g)
  BY <1>4 DEF Passes, On, About
<1> QED BY <1>2, <1>3, <1>4, QuietStep

LEMMA QuietTurn ==
    ASSUME FiberAssumption, FiberInv, NEW f, NEW r, Alters(f, r), stack # <<>>, About(stack[1], f),
           NEW a \in CallFrames, stack' = <<a>> \o Tail(stack), OldFrames(stack, 1, f, fibers'),
           Proper(a, uids), New(a, stack, 1), FrameHolds(a, fibers'), Above(a, stack, 1),
           a.at \in UndoLabels => a.f = f,
           Turns(stack, stack', 1, 1) /\ stack'[1] = a =>
               TopHolds(stack', fibers', effects) /\ FiberHolds(f, stack', fibers', effects)
    PROVE  FiberInv'
<1>1. stack \in Seq(CallFrames) BY DEF FiberInv, Stands, StackHolds
<1>2. Turns(stack, stack', 1, 1) /\ stack'[1] = a BY <1>1, Turned
<1>3. ASSUME NEW g \in Fibers, g # f PROVE Passes(stack, stack', 1, 1, g)
  BY <1>2, <1>3 DEF Passes, On, About
<1>4. \A i \in 1 .. 1 : stack'[i] = a BY <1>2
<1> QED BY <1>2, <1>3, <1>4, QuietStep

LEMMA QuietTwice ==
    ASSUME FiberAssumption, FiberInv, NEW f, NEW r, Alters(f, r), stack # <<>>, About(stack[1], f),
           NEW a \in CallFrames, NEW b \in CallFrames, stack' = <<a, b>> \o Tail(stack),
           OldFrames(stack, 1, f, fibers'),
           Proper(a, uids), New(a, stack, 1), FrameHolds(a, fibers'),
           Proper(b, uids), New(b, stack, 1), FrameHolds(b, fibers'),
           Fits(a, b), Above(b, stack, 1), Kind(a, b, LoopLabels), Kind(a, b, UndoLabels),
           a.at \in UndoLabels => a.f = f, b.at \in UndoLabels => b.f = f,
           Turns(stack, stack', 1, 2) /\ stack'[1] = a /\ stack'[2] = b =>
               TopHolds(stack', fibers', effects) /\ FiberHolds(f, stack', fibers', effects)
    PROVE  FiberInv'
<1>1. stack \in Seq(CallFrames) BY DEF FiberInv, Stands, StackHolds
<1>0. /\ a \in CallFrames /\ b \in CallFrames /\ stack # <<>> /\ stack' = <<a, b>> \o Tail(stack)
  OBVIOUS
<1> PICK t : t = stack' OBVIOUS
<1>9. Twice(stack, t, a, b) BY <1>0 DEF Twice
<1>10. Turns(stack, t, 1, 2) /\ t[1] = a /\ t[2] = b BY ONLY <1>0, <1>1, <1>9, TurnedTwice
<1>2. Turns(stack, stack', 1, 2) /\ stack'[1] = a /\ stack'[2] = b BY <1>10
<1>3. ASSUME NEW g \in Fibers, g # f PROVE Passes(stack, stack', 1, 2, g)
  BY <1>2, <1>3 DEF Passes, On, About
<1>4. \A i \in 1 .. 2 : stack'[i] = a \/ stack'[i] = b BY <1>2
<1>5. \A i \in 1 .. 2 :
         Proper(stack'[i], uids) /\ New(stack'[i], stack, 1) /\ FrameHolds(stack'[i], fibers')
  BY <1>4
<1>6. Fits(stack'[1], stack'[2]) /\ Kind(stack'[1], stack'[2], LoopLabels)
      /\ Kind(stack'[1], stack'[2], UndoLabels) /\ Above(stack'[2], stack, 1)
  BY <1>2
<1>7. TopHolds(stack', fibers', effects) /\ FiberHolds(f, stack', fibers', effects) BY <1>2
<1>8. 2 \in 0 .. 2 OBVIOUS
<1> QED BY <1>2, <1>3, <1>5, <1>6, <1>7, <1>8, QuietStep

LEMMA Same ==
    ASSUME FiberInv, NEW f \in Fibers, NEW t, NEW k, NEW n, Turns(stack, t, k, n), NEW fc,
           Passes(stack, t, k, n, f), Alike(fibers[f], fc[f]), fc[f].reconciling => fibers[f].reconciling
    PROVE  FiberHolds(f, t, fc, effects)
<1>1. FiberHolds(f, stack, fibers, effects) BY DEF FiberInv, Stands
<1> QED BY <1>1, Bystander

LEMMA Beneath ==
    ASSUME FiberInv, Len(stack) > 1
    PROVE  Fits(stack[1], stack[2]) /\ 2 \in 1 .. Len(stack)
<1>1. Len(stack) \in Nat BY LenProperties DEF FiberInv, Stands, StackHolds
<1>2. 1 \in 1 .. (Len(stack) - 1) /\ 1 + 1 = 2 /\ 2 \in 1 .. Len(stack) BY <1>1
<1> QED BY <1>2 DEF FiberInv, Stands, StackHolds

LEMMA Rest ==
    ASSUME FiberInv, NEW j \in 2 .. Len(stack)
    PROVE  j \in 1 .. Len(stack) /\ FrameHolds(stack[j], fibers)
<1>1. j \in 1 .. Len(stack) BY LenProperties DEF FiberInv, Stands, StackHolds
<1> QED BY <1>1 DEF FiberInv, Stands

\* Beneath most calls stands nothing that relies on what they do.
Plainly == {"disposers", "raised", "unload", "undo", "unloaded", "finalize"}

LEMMA Plain ==
    ASSUME FiberInv, NEW l, At(l), l \notin Plainly
    PROVE  /\ \A a : a.at \notin LoadLabels => Above(a, stack, 1)
           /\ Len(stack) > 1 => stack[2].at \notin EmptyLabels /\ stack[2].at # "finalize"
<1>1. stack[1].at = l /\ Len(stack) \in Nat \ {0} BY TopOf
<1>2. Len(stack) > 1 => /\ stack[2].at \notin EmptyLabels /\ stack[2].at # "finalize"
                        /\ stack[2].at \notin TopLabels
  BY <1>1, Beneath DEF Fits, Plainly
<1>3. 1 # Len(stack) => Len(stack) > 1 /\ 1 + 1 = 2
  <2> PICK n : n = Len(stack) OBVIOUS
  <2>1. n \in Nat \ {0} BY <1>1
  <2>2. 1 # n => n > 1 BY ONLY <2>1
  <2> QED BY <2>2
<1>4. ASSUME NEW a, a.at \notin LoadLabels PROVE Above(a, stack, 1)
  <2>2. 1 # Len(stack) => Fits(a, stack[2]) BY <1>2, <1>3, <1>4 DEF Fits
  <2> QED BY <1>3, <1>4, <2>2 DEF Above
<1> QED BY <1>2, <1>4

LEMMA NothingChanges ==
    ASSUME FiberAssumption, FiberInv, UNCHANGED <<fibers, table, calls>>, NEW f \in 0 .. (uids - 1)
    PROVE  /\ Alters(f, fibers[f]) /\ \A k \in Nat : OldFrames(stack, k, f, fibers')
           /\ f \in Fibers /\ fibers' = fibers /\ effects' = effects
<1>1. f \in Fibers /\ fibers[f] \in FiberRecords /\ fibers' = [fibers EXCEPT ![f] = fibers[f]]
  BY DEF FiberInv, FiberTypes, Fibers, FiberAssumption
<1>2. f = Root => fibers[f].loaded # None /\ ~fibers[f].disposed /\ ~fibers[f].asked
  BY DEF FiberInv, Created
<1>3. UNCHANGED table /\ calls' \in 0 .. MaxCalls BY DEF FiberInv, FiberTypes
<1>4. ASSUME NEW k \in Nat PROVE OldFrames(stack, k, f, fibers')
  <2>1. (k + 1) .. Len(stack) \subseteq 1 .. Len(stack) BY LenProperties DEF FiberInv, Stands, StackHolds
  <2> QED BY <2>1 DEF OldFrames, FiberInv, Stands
<1> QED BY <1>1, <1>2, <1>3, <1>4 DEF Alters, table

LEMMA NewPlain ==
    ASSUME NEW a, a.at \notin LoopLabels \cup UndoLabels, NEW s, NEW k
    PROVE  New(a, s, k)
BY DEF New

LEMMA TopPlain ==
    ASSUME NEW t, t[1].at \notin EmptyLabels \cup {"finalize", "load", "unload", "raised"}, NEW fb, NEW es
    PROVE  TopHolds(t, fb, es)
BY DEF TopHolds

LEMMA FramePlain ==
    ASSUME NEW a, a.at \notin LoopLabels \cup LoadLabels \cup UndoLabels, NEW fb
    PROVE  FrameHolds(a, fb)
BY DEF FrameHolds, LoadLabels

\* A call that ends and changes nothing.
LEMMA EndsPlain ==
    ASSUME FiberAssumption, FiberInv, NEW l, At(l), l \notin Plainly \cup LoopLabels \cup {"dispose"},
           stack' = <<>> \o Tail(stack), UNCHANGED <<fibers, table, calls>>
    PROVE  FiberInv'
<1>1. stack # <<>> /\ stack[1].at = l BY TopOf
<1>2. Root \in 0 .. (uids - 1) BY DEF Root, FiberInv, FiberTypes
<1>3. /\ Alters(Root, fibers[Root]) /\ OldFrames(stack, 1, Root, fibers') /\ Root \in Fibers
      /\ fibers' = fibers /\ effects' = effects
  BY <1>2, NothingChanges
<1>4. About(stack[1], Root) BY <1>1 DEF About, Plainly
<1>5. Len(stack) > 1 => stack[2].at \notin EmptyLabels /\ stack[2].at # "finalize" BY Plain
<1>6. ASSUME Turns(stack, stack', 1, 0) PROVE FiberHolds(Root, stack', fibers', effects)
  <2>1. Passes(stack, stack', 1, 0, Root) BY <1>1 DEF Passes, On, Plainly
  <2>2. Alike(fibers[Root], fibers'[Root]) BY <1>3 DEF Alike
  <2> QED BY <1>3, <1>6, <2>1, <2>2, Same
<1> QED BY <1>1, <1>3, <1>4, <1>5, <1>6, QuietPop

\* A call whose place another takes, and nothing changes.
LEMMA TurnsPlain ==
    ASSUME FiberAssumption, FiberInv, NEW l, At(l), l \notin Plainly \cup LoopLabels \cup {"dispose"},
           NEW a \in CallFrames, Proper(a, uids),
           a.at \notin LoopLabels \cup LoadLabels \cup UndoLabels \cup EmptyLabels
                         \cup {"finalize", "unload", "raised"},
           stack' = <<a>> \o Tail(stack), UNCHANGED <<fibers, table, calls>>
    PROVE  FiberInv'
<1>1. stack # <<>> /\ stack[1].at = l BY TopOf
<1>2. Root \in 0 .. (uids - 1) BY DEF Root, FiberInv, FiberTypes
<1>3. /\ Alters(Root, fibers[Root]) /\ OldFrames(stack, 1, Root, fibers') /\ Root \in Fibers
      /\ fibers' = fibers /\ effects' = effects
  BY <1>2, NothingChanges
<1>4. About(stack[1], Root) BY <1>1 DEF About, Plainly
<1>5. New(a, stack, 1) BY NewPlain
<1>6. FrameHolds(a, fibers') BY FramePlain
<1>7. Above(a, stack, 1) BY Plain
<1>8. ASSUME Turns(stack, stack', 1, 1), stack'[1] = a
      PROVE  TopHolds(stack', fibers', effects) /\ FiberHolds(Root, stack', fibers', effects)
  <2>1. Passes(stack, stack', 1, 1, Root) BY <1>1, <1>8 DEF Passes, On, Plainly
  <2>2. Alike(fibers[Root], fibers'[Root]) BY <1>3 DEF Alike
  <2>3. FiberHolds(Root, stack', fibers', effects) BY <1>3, <1>8, <2>1, <2>2, Same
  <2>4. TopHolds(stack', fibers', effects) BY <1>8, TopPlain DEF LoadLabels
  <2> QED BY <2>3, <2>4
<1> QED BY <1>1, <1>3, <1>4, <1>5, <1>6, <1>7, <1>8, QuietTurn

LEMMA TwoCalls ==
    ASSUME NEW a, NEW b
    PROVE  <<a>> \o <<b>> = <<a, b>>
<1> PICK S : S = {a, b} OBVIOUS
<1> PICK p : p = <<a>> \o <<b>> OBVIOUS
<1>1. <<a>> \in Seq(S) /\ <<b>> \in Seq(S) /\ Len(<<a>>) = 1 /\ Len(<<b>>) = 1
      /\ <<a>>[1] = a /\ <<b>>[1] = b
  OBVIOUS
<1>2. /\ p \in Seq(S) /\ Len(p) = 1 + 1
      /\ \A i \in 1 .. 1 + 1 : p[i] = IF i <= 1 THEN <<a>>[i] ELSE <<b>>[i - 1]
  BY <1>1, ConcatProperties
<1>3. p[1] = a /\ p[2] = b BY <1>1, <1>2
<1>4. <<a, b>> \in Seq(S) /\ Len(<<a, b>>) = 2 /\ <<a, b>>[1] = a /\ <<a, b>>[2] = b OBVIOUS
<1>5. Len(p) = Len(<<a, b>>) BY <1>2, <1>4
<1> PICK q : q = <<a, b>> OBVIOUS
<1>8. q \in Seq(S) /\ Len(q) = 2 /\ q[1] = a /\ q[2] = b BY <1>4
<1>9. \A i \in 1 .. Len(p) : i = 1 \/ i = 2 BY <1>2
<1>6. \A i \in 1 .. Len(p) : p[i] = q[i] BY <1>3, <1>8, <1>9
<1>7. p = q BY <1>2, <1>4, <1>5, <1>6, <1>8, SeqEqual
<1> QED BY <1>7

LEMMA TwicePlain ==
    ASSUME FiberAssumption, FiberInv, NEW l, At(l), l \notin Plainly \cup LoopLabels \cup {"dispose"},
           NEW a \in CallFrames, Proper(a, uids), NEW b \in CallFrames, Proper(b, uids),
           a.at \notin LoopLabels \cup LoadLabels \cup UndoLabels \cup EmptyLabels \cup {"finalize", "raised"},
           b.at \notin LoopLabels \cup LoadLabels \cup UndoLabels \cup EmptyLabels \cup TopLabels
                         \cup {"finalize"},
           stack' = <<a, b>> \o Tail(stack), UNCHANGED <<fibers, table, calls>>
    PROVE  FiberInv'
<1>1. stack # <<>> /\ stack[1].at = l BY TopOf
<1>2. Root \in 0 .. (uids - 1) BY DEF Root, FiberInv, FiberTypes
<1>3. /\ Alters(Root, fibers[Root]) /\ OldFrames(stack, 1, Root, fibers') /\ Root \in Fibers
      /\ fibers' = fibers /\ effects' = effects
  BY <1>2, NothingChanges
<1>4. About(stack[1], Root) BY <1>1 DEF About, Plainly
<1>5. New(a, stack, 1) /\ New(b, stack, 1) BY NewPlain
<1>6. FrameHolds(a, fibers') /\ FrameHolds(b, fibers') BY FramePlain
<1>7. Above(b, stack, 1) BY Plain
<1>8. ASSUME Turns(stack, stack', 1, 2), stack'[1] = a, stack'[2] = b
      PROVE  TopHolds(stack', fibers', effects) /\ FiberHolds(Root, stack', fibers', effects)
  <2>0. \A i \in 1 .. 2 : stack'[i] = a \/ stack'[i] = b BY <1>8
  <2>1. Passes(stack, stack', 1, 2, Root) BY <1>1, <2>0 DEF Passes, On, Plainly
  <2>2. Alike(fibers[Root], fibers'[Root]) BY <1>3 DEF Alike
  <2>3. FiberHolds(Root, stack', fibers', effects) BY <1>3, <1>8, <2>1, <2>2, Same
  <2>4. TopHolds(stack', fibers', effects) BY <1>8 DEF LoadLabels, TopHolds
  <2> QED BY <2>3, <2>4
<1>9. Fits(a, b) /\ Kind(a, b, LoopLabels) /\ Kind(a, b, UndoLabels)
  BY DEF Fits, Kind
<1> QED BY <1>1, <1>3, <1>4, <1>5, <1>6, <1>7, <1>8, <1>9, QuietTwice

LEMMA ProperFiber ==
    ASSUME NEW a, NEW n, a.at \in FiberLabels \cup RootLabels, a.f \in 1 .. (n - 1), n \in Nat
    PROVE  Proper(a, n)
<1>1. a.f \in 0 .. (n - 1) OBVIOUS
<1> QED BY <1>1 DEF Proper, FiberLabels, RootLabels

LEMMA NotRoot ==
    ASSUME FiberAssumption, FiberInv, NEW l \in FiberLabels \cup EpochLabels, At(l)
    PROVE  Top.f \in 1 .. (uids - 1)
<1>1. Top.f \in 0 .. (uids - 1) /\ Top.f # 0 BY TopFiber DEF Root
<1> QED BY <1>1 DEF FiberInv, FiberTypes

\* A call about a fiber that was created is a proper call.
LEMMA CallTo ==
    ASSUME FiberAssumption, FiberInv, NEW l \in FiberLabels, NEW f \in 1 .. (uids - 1)
    PROVE  Frame(l, f) \in CallFrames /\ Proper(Frame(l, f), uids) /\ Frame(l, f).at = l /\ Frame(l, f).f = f
<1>1. f \in Fibers /\ uids \in Nat BY DEF FiberInv, FiberTypes, Fibers, FiberAssumption
<1> QED BY <1>1, FiberFrame, ProperFiber

LEMMA TeardownHolds ==
    ASSUME FiberAssumption, FiberInv, Teardown
    PROVE  FiberInv'
BY EndsPlain DEF Teardown, Then, Plainly, LoopLabels

LEMMA CaughtHolds ==
    ASSUME FiberAssumption, FiberInv, Caught
    PROVE  FiberInv'
BY EndsPlain DEF Caught, Then, Plainly, LoopLabels

LEMMA RestartHolds ==
    ASSUME FiberAssumption, FiberInv, Restart
    PROVE  FiberInv'
<1>1. At("restart") /\ UNCHANGED <<fibers, table, calls>> BY DEF Restart
<1>2. CASE stack' = <<>> \o Tail(stack)
  BY <1>1, <1>2, EndsPlain DEF Plainly, LoopLabels
<1>3. CASE stack' = <<Frame("unload", Top.f), Frame("retry", Top.f)>> \o Tail(stack)
  <2>1. Top.f \in 1 .. (uids - 1) BY <1>1, NotRoot DEF FiberLabels
  <2> PICK a : a = Frame("unload", Top.f) OBVIOUS
  <2> PICK b : b = Frame("retry", Top.f) OBVIOUS
  <2>2. a \in CallFrames /\ Proper(a, uids) /\ a.at = "unload" BY <2>1, CallTo DEF FiberLabels
  <2>3. b \in CallFrames /\ Proper(b, uids) /\ b.at = "retry" BY <2>1, CallTo DEF FiberLabels
  <2>4. a.at \notin LoopLabels \cup LoadLabels \cup UndoLabels \cup EmptyLabels \cup {"finalize", "raised"}
    BY <2>2 DEF LoopLabels, LoadLabels, UndoLabels, EmptyLabels
  <2>5. b.at \notin LoopLabels \cup LoadLabels \cup UndoLabels \cup EmptyLabels \cup TopLabels
                      \cup {"finalize"}
    BY <2>3 DEF LoopLabels, LoadLabels, UndoLabels, EmptyLabels, TopLabels
  <2>6. "restart" \notin Plainly \cup LoopLabels \cup {"dispose"} BY DEF Plainly, LoopLabels
  <2>7. stack' = <<a, b>> \o Tail(stack) BY <1>3
  <2> QED BY <1>1, <2>2, <2>3, <2>4, <2>5, <2>6, <2>7, TwicePlain
<1> QED BY <1>2, <1>3 DEF Restart, Then

LEMMA NotifyHolds ==
    ASSUME FiberAssumption, FiberInv, Notify
    PROVE  FiberInv'
<1>1. At("notify") /\ UNCHANGED <<fibers, table, calls>> BY DEF Notify
<1>2. CASE Top.todo = <<>>
  <2>1. stack' = <<>> \o Tail(stack) BY <1>2 DEF Notify, Then
  <2> QED BY <1>1, <2>1, EndsPlain DEF Plainly, LoopLabels
<1>3. CASE Top.todo # <<>>
  <2> PICK f : f = Head(Top.todo) OBVIOUS
  <2> PICK b : b = [Top EXCEPT !.todo = Tail(@)] OBVIOUS
  <2>1. Top \in CallFrames /\ Top.at = "notify" /\ Proper(Top, uids) BY <1>1, TopOf
  <2>2. Top \in [at : {"notify"}, names : SUBSET Services, todo : Seq(Fibers)]
    BY <2>1 DEF CallFrames, FiberLabels, RootLabels, EpochLabels, Raised
  <2>3. /\ Tail(Top.todo) \in Seq(Fibers) /\ Len(Tail(Top.todo)) = Len(Top.todo) - 1
        /\ \A i \in 1 .. Len(Tail(Top.todo)) : Tail(Top.todo)[i] = Top.todo[i + 1]
        /\ Head(Top.todo) = Top.todo[1] /\ Len(Top.todo) \in Nat \ {0}
    BY <1>3, <2>2, HeadTailProperties, EmptySeq, LenProperties
  <2>4. b \in [at : {"notify"}, names : SUBSET Services, todo : Seq(Fibers)] /\ b.todo = Tail(Top.todo)
    BY <2>2, <2>3
  <2>5. b \in CallFrames /\ b.at = "notify" BY <2>4 DEF CallFrames
  <2>6. \A i \in 1 .. Len(Top.todo) : Top.todo[i] \in 1 .. (uids - 1) BY <2>1 DEF Proper
  <2>13. 1 \in 1 .. Len(Top.todo) /\ \A i \in 1 .. Len(b.todo) : i + 1 \in 1 .. Len(Top.todo)
    BY <2>3, <2>4
  <2>14. f \in 1 .. (uids - 1) BY <2>3, <2>6, <2>13
  <2>15. \A i \in 1 .. Len(b.todo) : b.todo[i] = Top.todo[i + 1] BY <2>3, <2>4
  <2>7. f \in 1 .. (uids - 1) /\ \A i \in 1 .. Len(b.todo) : b.todo[i] \in 1 .. (uids - 1)
    BY <2>6, <2>13, <2>14, <2>15
  <2>8. Proper(b, uids) BY <2>5, <2>7 DEF Proper, RootLabels, FiberLabels, EpochLabels
  <2>9. b.at \notin LoopLabels \cup LoadLabels \cup UndoLabels \cup EmptyLabels \cup TopLabels
                      \cup {"finalize", "unload", "raised"}
    BY <2>5 DEF LoopLabels, LoadLabels, UndoLabels, EmptyLabels, TopLabels
  <2>10. "notify" \notin Plainly \cup LoopLabels \cup {"dispose"} BY DEF Plainly, LoopLabels
  <2>11. CASE stack' = <<>> \o <<b>> \o Tail(stack)
    <3>1. stack' = <<b>> \o Tail(stack) BY <2>11
    <3> QED BY <1>1, <2>5, <2>8, <2>9, <2>10, <3>1, TurnsPlain
  <2>12. CASE stack' = <<Frame("reconcile", f)>> \o <<b>> \o Tail(stack)
    <3> PICK a : a = Frame("reconcile", f) OBVIOUS
    <3>1. a \in CallFrames /\ Proper(a, uids) /\ a.at = "reconcile" BY <2>7, CallTo DEF FiberLabels
    <3>2. a.at \notin LoopLabels \cup LoadLabels \cup UndoLabels \cup EmptyLabels \cup {"finalize", "raised"}
      BY <3>1 DEF LoopLabels, LoadLabels, UndoLabels, EmptyLabels
    <3>4. <<a>> \o <<b>> = <<a, b>> BY TwoCalls
    <3>3. stack' = <<a, b>> \o Tail(stack) BY <2>12, <3>4
    <3> QED BY <1>1, <2>5, <2>8, <2>9, <2>10, <3>1, <3>2, <3>3, TwicePlain
  <2> QED BY <1>3, <2>11, <2>12 DEF Notify, Then
<1> QED BY <1>2, <1>3

LEMMA OldAlike ==
    ASSUME FiberInv, NEW f, NEW fc, Alike(fibers[f], fc[f]), fibers[f].reconciling => fc[f].reconciling,
           NEW k \in Nat
    PROVE  OldFrames(stack, k, f, fc)
<1>1. (k + 1) .. Len(stack) \subseteq 1 .. Len(stack)
  BY LenProperties DEF FiberInv, Stands, StackHolds
<1>2. ASSUME NEW j \in (k + 1) .. Len(stack), stack[j].f = f PROVE FrameHolds(stack[j], fc)
  <2>1. FrameHolds(stack[j], fibers) BY <1>1 DEF FiberInv, Stands
  <2> QED BY <1>2, <2>1 DEF FrameHolds, Alike
<1> QED BY <1>2 DEF OldFrames

\* A step that changes the record of the fiber the running call is about.
LEMMA ChangesTop ==
    ASSUME FiberAssumption, FiberInv, NEW l \in FiberLabels \cup EpochLabels, At(l),
           NEW r \in FiberRecords, fibers' = [fibers EXCEPT ![Top.f] = r],
           r.plugin = fibers[Top.f].plugin, r.parent = fibers[Top.f].parent, UNCHANGED <<table, calls>>
    PROVE  /\ Alters(Top.f, r) /\ fibers'[Top.f] = r /\ effects' = effects /\ Top.f \in Fibers
           /\ Top.f \in 1 .. (uids - 1)
           /\ stack # <<>> /\ Len(stack) \in Nat \ {0} /\ Top = stack[1] /\ stack[1].at = l
<1>1. Top.f \in 0 .. (uids - 1) /\ Top.f # Root /\ Top.f \in Fibers BY TopFiber
<1>2. calls' \in 0 .. MaxCalls BY DEF FiberInv, FiberTypes
<1>3. fibers'[Top.f] = r BY <1>1 DEF FiberInv, FiberTypes
<1>4. stack # <<>> /\ Len(stack) \in Nat \ {0} /\ Top = stack[1] /\ stack[1].at = l BY TopOf
<1> QED BY <1>1, <1>2, <1>3, <1>4, NotRoot DEF Alters, table

LEMMA RetryHolds ==
    ASSUME FiberAssumption, FiberInv, Retry
    PROVE  FiberInv'
<1>1. At("retry") /\ UNCHANGED <<table, calls>> /\ "retry" \in FiberLabels BY DEF Retry, FiberLabels
<1> PICK f : f = Top.f OBVIOUS
<1> PICK r : r = [fibers[f] EXCEPT !.failed = None] OBVIOUS
<1> PICK a : a = Frame("reconcile", f) OBVIOUS
<1>2. fibers[f] \in FiberRecords BY <1>1, TopFiber
<1>3. r \in FiberRecords /\ r.plugin = fibers[f].plugin /\ r.parent = fibers[f].parent
      /\ Alike(fibers[f], r) /\ r.reconciling = fibers[f].reconciling
  BY <1>2 DEF FiberRecords, None, Alike
<1>4. fibers' = [fibers EXCEPT ![f] = r] /\ stack' = <<a>> \o Tail(stack) BY DEF Retry, Then
<1>5. /\ Alters(f, r) /\ fibers'[f] = r /\ effects' = effects /\ f \in Fibers /\ f \in 1 .. (uids - 1)
      /\ stack # <<>> /\ stack[1] = Top /\ stack[1].at = "retry"
  BY <1>1, <1>3, <1>4, ChangesTop
<1>6. a \in CallFrames /\ Proper(a, uids) /\ a.at = "reconcile" BY <1>5, CallTo DEF FiberLabels
<1>7. a.at \notin LoopLabels \cup LoadLabels \cup UndoLabels \cup EmptyLabels \cup {"finalize", "load", "unload", "raised"}
  BY <1>6 DEF LoopLabels, LoadLabels, UndoLabels, EmptyLabels
<1>8. OldFrames(stack, 1, f, fibers') BY <1>3, <1>5, OldAlike
<1>9. New(a, stack, 1) /\ FrameHolds(a, fibers') BY <1>7, NewPlain, FramePlain
<1>10. Above(a, stack, 1) BY <1>1, <1>7, Plain DEF Plainly
<1>11. About(stack[1], f) BY <1>5 DEF About
<1>12. ASSUME Turns(stack, stack', 1, 1), stack'[1] = a
       PROVE  TopHolds(stack', fibers', effects) /\ FiberHolds(f, stack', fibers', effects)
  <2>1. TopHolds(stack', fibers', effects) BY <1>7, <1>12, TopPlain
  <2>2. Passes(stack, stack', 1, 1, f)
    BY <1>5, <1>7, <1>12 DEF Passes, On, LoopLabels
  <2>3. FiberHolds(f, stack', fibers', effects) BY <1>3, <1>5, <1>12, <2>2, Same
  <2> QED BY <2>1, <2>3
<1> QED BY <1>4, <1>5, <1>6, <1>7, <1>8, <1>9, <1>10, <1>11, <1>12, QuietTurn

\* The other rounds of a fiber: there are none.
LEMMA OtherLoops ==
    ASSUME FiberInv, stack # <<>>, stack[1].at \in LoopLabels, NEW j \in 2 .. Len(stack),
           stack[j].at \in LoopLabels
    PROVE  stack[j].f # stack[1].f
<1>1. Len(stack) \in Nat /\ Once(stack, LoopLabels) BY LenProperties DEF FiberInv, Stands, StackHolds
<1>2. 1 \in 1 .. Len(stack) /\ j \in 1 .. Len(stack) /\ j # 1 BY <1>1
<1> QED BY <1>1, <1>2, Only

LEMMA NoLoops ==
    ASSUME FiberInv, NEW f, ~fibers[f].reconciling, NEW j \in 1 .. Len(stack), stack[j].at \in LoopLabels
    PROVE  stack[j].f # f
BY DEF FiberInv, Stands, FrameHolds

LEMMA ReconcileHolds ==
    ASSUME FiberAssumption, FiberInv, Reconcile
    PROVE  FiberInv'
<1>1. At("reconcile") /\ UNCHANGED <<table, calls>> /\ "reconcile" \in FiberLabels BY DEF Reconcile, FiberLabels
<1> PICK f : f = Top.f OBVIOUS
<1>2. /\ fibers[f] \in FiberRecords /\ stack # <<>> /\ stack[1] = Top /\ stack[1].at = "reconcile"
      /\ Len(stack) \in Nat \ {0} /\ About(stack[1], f) /\ f \in 1 .. (uids - 1)
  BY <1>1, TopFiber, TopOf, NotRoot DEF About
<1>3. Len(stack) > 1 => stack[2].at \notin EmptyLabels /\ stack[2].at # "finalize"
  BY <1>1, Plain DEF Plainly
<1>4. CASE stack' = <<>> \o Tail(stack) /\ fibers' = fibers
  BY <1>1, <1>4, EndsPlain DEF Plainly, LoopLabels
<1>5. CASE stack' = <<>> \o Tail(stack) /\ fibers' = [fibers EXCEPT ![f].dirty = TRUE]
  <2> PICK r : r = [fibers[f] EXCEPT !.dirty = TRUE] OBVIOUS
  <2>1. r \in FiberRecords /\ r.plugin = fibers[f].plugin /\ r.parent = fibers[f].parent
        /\ Alike(fibers[f], r) /\ r.reconciling = fibers[f].reconciling
    BY <1>2 DEF FiberRecords, None, Alike
  <2>2. fibers' = [fibers EXCEPT ![f] = r] BY <1>5
  <2>3. Alters(f, r) /\ fibers'[f] = r /\ effects' = effects /\ f \in Fibers
    BY <1>1, <2>1, <2>2, ChangesTop
  <2>4. OldFrames(stack, 1, f, fibers') BY <2>1, <2>3, OldAlike
  <2>5. ASSUME Turns(stack, stack', 1, 0) PROVE FiberHolds(f, stack', fibers', effects)
    <3>1. Passes(stack, stack', 1, 0, f) BY <1>2 DEF Passes, On, LoopLabels
    <3> QED BY <2>1, <2>3, <2>5, <3>1, Same
  <2> QED BY <1>2, <1>3, <1>5, <2>3, <2>4, <2>5, QuietPop
<1>6. CASE /\ stack' = <<Frame("decide", f)>> \o Tail(stack) /\ ~fibers[f].reconciling
           /\ fibers' = [fibers EXCEPT ![f].reconciling = TRUE]
  <2> PICK r : r = [fibers[f] EXCEPT !.reconciling = TRUE] OBVIOUS
  <2> PICK a : a = Frame("decide", f) OBVIOUS
  <2>1. r \in FiberRecords /\ r.plugin = fibers[f].plugin /\ r.parent = fibers[f].parent
        /\ Alike(fibers[f], r) /\ r.reconciling
    BY <1>2 DEF FiberRecords, None, Alike
  <2>2. fibers' = [fibers EXCEPT ![f] = r] /\ stack' = <<a>> \o Tail(stack) BY <1>6
  <2>3. Alters(f, r) /\ fibers'[f] = r /\ effects' = effects /\ f \in Fibers
    BY <1>1, <2>1, <2>2, ChangesTop
  <2>4. OldFrames(stack, 1, f, fibers') BY <2>1, <2>3, OldAlike
  <2>5. a \in CallFrames /\ Proper(a, uids) /\ a.at = "decide" /\ a.f = f BY <1>2, CallTo DEF FiberLabels
  <2>6. a.at \notin LoadLabels \cup UndoLabels \cup EmptyLabels \cup {"finalize", "load", "unload", "raised"}
    BY <2>5 DEF LoadLabels, UndoLabels, EmptyLabels
  <2>7. 2 .. Len(stack) \subseteq 1 .. Len(stack) /\ 1 + 1 = 2 OBVIOUS
  <2>8. New(a, stack, 1) BY <1>6, <2>5, <2>6, <2>7, NoLoops DEF New
  <2>9. FrameHolds(a, fibers') BY <2>1, <2>3, <2>5, <2>6 DEF FrameHolds, LoadLabels
  <2>10. Above(a, stack, 1) BY <1>1, <2>6, Plain DEF Plainly
  <2>11. ASSUME Turns(stack, stack', 1, 1), stack'[1] = a
         PROVE  TopHolds(stack', fibers', effects) /\ FiberHolds(f, stack', fibers', effects)
    <3>1. TopHolds(stack', fibers', effects) BY <2>6, <2>11, TopPlain
    <3>2. 1 \in 1 .. Len(stack') BY <1>2, <2>11 DEF Turns, Follows
    <3>3. In(stack', LoopLabels, f) BY <2>5, <2>11, <3>2, IsIn DEF LoopLabels
    <3>4. FiberHolds(f, stack, fibers, effects) BY <2>3 DEF FiberInv, Stands
    <3>5. \A i \in 1 .. 1 : stack[i] = Top /\ stack'[i] = a BY <1>2, <2>11
    <3>6. In(stack, {"finalize"}, f) => In(stack', {"finalize"}, f) BY <1>2, <2>11, <3>5, Stays
    <3>7. In(stack', UndoLabels, f) => In(stack, UndoLabels, f) BY <2>6, <2>11, <3>5, Was
    <3>8. ~On(stack, "unload", f) /\ ~On(stack, "dispose", f) BY <1>2 DEF On
    <3>9. FiberHolds(f, stack', fibers', effects)
      BY <2>1, <2>3, <3>3, <3>4, <3>6, <3>7, <3>8, OthersHold
    <3> QED BY <3>1, <3>9
  <2> QED BY <1>2, <2>2, <2>3, <2>4, <2>5, <2>6, <2>8, <2>9, <2>10, <2>11, QuietTurn
<1> QED BY <1>4, <1>5, <1>6 DEF Reconcile, Then

LEMMA LoopTop ==
    ASSUME FiberInv, stack # <<>>, stack[1].at \in LoopLabels, NEW fc, Alike(fibers[stack[1].f], fc[stack[1].f])
    PROVE  OldFrames(stack, 1, stack[1].f, fc)
<1>1. Len(stack) \in Nat /\ 2 .. Len(stack) \subseteq 1 .. Len(stack) /\ 1 + 1 = 2
  BY LenProperties DEF FiberInv, Stands, StackHolds
<1>2. ASSUME NEW j \in 2 .. Len(stack), stack[j].f = stack[1].f PROVE FrameHolds(stack[j], fc)
  <2>1. FrameHolds(stack[j], fibers) BY <1>1 DEF FiberInv, Stands
  <2>2. stack[j].at \notin LoopLabels BY <1>2, OtherLoops
  <2> QED BY <1>2, <2>1, <2>2 DEF FrameHolds, Alike
<1> QED BY <1>1, <1>2 DEF OldFrames

LEMMA LoopGoesOn ==
    ASSUME FiberInv, stack # <<>>, stack[1].at \in LoopLabels, NEW f \in Fibers, f = stack[1].f,
           NEW fc, Alike(fibers[f], fc[f]), fc[f].reconciling => fibers[f].reconciling,
           NEW t, NEW n \in 0 .. 2, Turns(stack, t, 1, n),
           \A i \in 1 .. n : t[i].at \notin UndoLabels,
           fc[f].reconciling => n # 0 /\ t[n].at \in LoopLabels /\ t[n].f = f
    PROVE  FiberHolds(f, t, fc, effects)
<1>1. FiberHolds(f, stack, fibers, effects) BY DEF FiberInv, Stands
<1>2. Len(stack) \in Nat \ {0} /\ Len(t) \in Nat /\ Len(t) = n + (Len(stack) - 1)
  BY EmptySeq, LenProperties DEF Turns, Follows
<1>3. n # 0 => n \in 1 .. Len(t) BY <1>2
<1>4. fc[f].reconciling => In(t, LoopLabels, f) BY <1>3, IsIn
<1>5. \A i \in 1 .. 1 : ~(stack[i].at \in {"finalize"} /\ stack[i].f = f) BY DEF LoopLabels
<1>6. In(stack, {"finalize"}, f) => In(t, {"finalize"}, f) BY <1>5, Stays
<1>7. In(t, UndoLabels, f) => In(stack, UndoLabels, f) BY Was
<1>8. ~On(stack, "unload", f) /\ ~On(stack, "dispose", f) BY DEF On, LoopLabels
<1> QED BY <1>1, <1>4, <1>6, <1>7, <1>8, OthersHold

\* A round that goes on: the call that takes over is about the same fiber.
RoundChanges(f, r) ==
    /\ r \in FiberRecords /\ r.plugin = fibers[f].plugin /\ r.parent = fibers[f].parent
    /\ Alike(fibers[f], r) /\ fibers' = [fibers EXCEPT ![f] = r] /\ UNCHANGED <<table, calls>>

LEMMA RoundTop ==
    ASSUME FiberAssumption, FiberInv, NEW l \in LoopLabels, At(l), NEW r, RoundChanges(Top.f, r)
    PROVE  /\ Alters(Top.f, r) /\ fibers'[Top.f] = r /\ effects' = effects /\ Top.f \in Fibers
           /\ Top.f \in 1 .. (uids - 1) /\ About(stack[1], Top.f)
           /\ stack # <<>> /\ Len(stack) \in Nat \ {0} /\ Top = stack[1] /\ stack[1].at = l
           /\ fibers[Top.f].reconciling /\ OldFrames(stack, 1, Top.f, fibers')
           /\ Len(stack) > 1 => stack[2].at \notin EmptyLabels /\ stack[2].at # "finalize"
           /\ \A a : a.at \notin LoadLabels => Above(a, stack, 1)
<1>1. l \in FiberLabels \cup EpochLabels /\ l \notin Plainly
  BY DEF LoopLabels, FiberLabels, EpochLabels, Plainly
<1>2. /\ Alters(Top.f, r) /\ fibers'[Top.f] = r /\ effects' = effects /\ Top.f \in Fibers
      /\ Top.f \in 1 .. (uids - 1)
      /\ stack # <<>> /\ Len(stack) \in Nat \ {0} /\ Top = stack[1] /\ stack[1].at = l
  BY <1>1, ChangesTop DEF RoundChanges
<1>3. About(stack[1], Top.f) BY <1>2 DEF About
<1>4. fibers[Top.f].reconciling BY <1>2, TopOf DEF FrameHolds
<1>5. OldFrames(stack, 1, Top.f, fibers') BY <1>2, LoopTop DEF RoundChanges
<1> QED BY <1>1, <1>2, <1>3, <1>4, <1>5, Plain

LEMMA RoundEnds ==
    ASSUME FiberAssumption, FiberInv, NEW l \in LoopLabels, At(l), NEW r, RoundChanges(Top.f, r),
           ~r.reconciling, stack' = <<>> \o Tail(stack)
    PROVE  FiberInv'
<1> PICK f : f = Top.f OBVIOUS
<1>1. /\ Alters(f, r) /\ fibers'[f] = r /\ effects' = effects /\ f \in Fibers /\ About(stack[1], f)
      /\ stack # <<>> /\ stack[1].f = f /\ stack[1].at = l
      /\ OldFrames(stack, 1, f, fibers')
      /\ Len(stack) > 1 => stack[2].at \notin EmptyLabels /\ stack[2].at # "finalize"
  BY RoundTop
<1>2. ASSUME Turns(stack, stack', 1, 0) PROVE FiberHolds(f, stack', fibers', effects)
  <2>1. Alike(fibers[f], fibers'[f]) /\ ~fibers'[f].reconciling BY <1>1 DEF RoundChanges
  <2> QED BY <1>1, <1>2, <2>1, LoopGoesOn
<1> QED BY <1>1, <1>2, QuietPop

LEMMA RoundTurns ==
    ASSUME FiberAssumption, FiberInv, NEW l \in LoopLabels, At(l), NEW r, RoundChanges(Top.f, r),
           r.reconciling = fibers[Top.f].reconciling,
           NEW b \in CallFrames, Proper(b, uids), b.at \in LoopLabels, b.f = Top.f,
           stack' = <<b>> \o Tail(stack)
    PROVE  FiberInv'
<1> PICK f : f = Top.f OBVIOUS
<1>1. /\ Alters(f, r) /\ fibers'[f] = r /\ effects' = effects /\ f \in Fibers /\ About(stack[1], f)
      /\ stack # <<>> /\ stack[1].f = f /\ stack[1].at = l /\ fibers[f].reconciling
      /\ OldFrames(stack, 1, f, fibers') /\ \A a : a.at \notin LoadLabels => Above(a, stack, 1)
  BY RoundTop
<1>2. b.at \notin LoadLabels \cup UndoLabels \cup EmptyLabels \cup {"finalize", "load", "unload", "raised"}
  BY DEF LoopLabels, LoadLabels, UndoLabels, EmptyLabels
<1>3. \A j \in 2 .. Len(stack) : stack[j].at \in LoopLabels => stack[j].f # f BY <1>1, OtherLoops
<1>4. New(b, stack, 1) BY <1>2, <1>3 DEF New
<1>5. FrameHolds(b, fibers') BY <1>1, <1>2 DEF FrameHolds, LoadLabels
<1>6. Above(b, stack, 1) BY <1>1, <1>2
<1>7. ASSUME Turns(stack, stack', 1, 1), stack'[1] = b
      PROVE  TopHolds(stack', fibers', effects) /\ FiberHolds(f, stack', fibers', effects)
  <2>1. TopHolds(stack', fibers', effects) BY <1>2, <1>7, TopPlain
  <2>2. Alike(fibers[f], fibers'[f]) /\ fibers'[f].reconciling BY <1>1 DEF RoundChanges
  <2>3. \A i \in 1 .. 1 : stack'[i].at \notin UndoLabels BY <1>2, <1>7
  <2>5. 1 \in 0 .. 2 /\ 1 # 0 OBVIOUS
  <2>6. stack'[1].at \in LoopLabels /\ stack'[1].f = f BY <1>7
  <2>4. FiberHolds(f, stack', fibers', effects) BY <1>1, <1>7, <2>2, <2>3, <2>5, <2>6, LoopGoesOn
  <2> QED BY <2>1, <2>4
<1> QED BY <1>1, <1>2, <1>4, <1>5, <1>6, <1>7, QuietTurn

LEMMA RoundCalls ==
    ASSUME FiberAssumption, FiberInv, NEW l \in LoopLabels, At(l), NEW r, RoundChanges(Top.f, r),
           r.reconciling = fibers[Top.f].reconciling,
           NEW b \in CallFrames, Proper(b, uids), b.at \in LoopLabels, b.f = Top.f,
           NEW a \in CallFrames, Proper(a, uids), a.f = Top.f, a.at \in {"load", "unload"},
           a.at = "load" => r.loaded = None /\ ~r.disposed /\ b.at = "again",
           stack' = <<a, b>> \o Tail(stack)
    PROVE  FiberInv'
<1> PICK f : f = Top.f OBVIOUS
<1>1. /\ Alters(f, r) /\ fibers'[f] = r /\ effects' = effects /\ f \in Fibers /\ About(stack[1], f)
      /\ stack # <<>> /\ stack[1].f = f /\ stack[1].at = l /\ fibers[f].reconciling
      /\ OldFrames(stack, 1, f, fibers') /\ \A c : c.at \notin LoadLabels => Above(c, stack, 1)
  BY RoundTop
<1>2. b.at \notin LoadLabels \cup UndoLabels \cup EmptyLabels \cup TopLabels \cup {"finalize", "load", "unload", "raised"}
  BY DEF LoopLabels, LoadLabels, UndoLabels, EmptyLabels, TopLabels
<1>3. a.at \notin LoopLabels \cup UndoLabels \cup EmptyLabels \cup {"finalize", "apply", "rolledback", "raised"}
  BY DEF LoopLabels, UndoLabels, EmptyLabels
<1>4. \A j \in 2 .. Len(stack) : stack[j].at \in LoopLabels => stack[j].f # f BY <1>1, OtherLoops
<1>5. New(b, stack, 1) BY <1>2, <1>4 DEF New
<1>6. New(a, stack, 1) BY <1>3, NewPlain
<1>7. FrameHolds(b, fibers') BY <1>1, <1>2 DEF FrameHolds, LoadLabels
<1>8. FrameHolds(a, fibers') BY <1>3 DEF FrameHolds
<1>9. Above(b, stack, 1) BY <1>1, <1>2
<1>10. Fits(a, b) BY <1>2, <1>3 DEF Fits, LoadLabels
<1>11. Kind(a, b, LoopLabels) /\ Kind(a, b, UndoLabels) BY <1>2, <1>3 DEF Kind
<1>12. ASSUME Turns(stack, stack', 1, 2), stack'[1] = a, stack'[2] = b
      PROVE  TopHolds(stack', fibers', effects) /\ FiberHolds(f, stack', fibers', effects)
  <2>1. TopHolds(stack', fibers', effects) BY <1>1, <1>2, <1>3, <1>12 DEF TopHolds
  <2>2. Alike(fibers[f], fibers'[f]) /\ fibers'[f].reconciling BY <1>1 DEF RoundChanges
  <2>3. \A i \in 1 .. 2 : stack'[i] = a \/ stack'[i] = b BY <1>12
  <2>4. \A i \in 1 .. 2 : stack'[i].at \notin UndoLabels BY <1>2, <1>3, <2>3
  <2>5. 2 \in 0 .. 2 /\ 2 # 0 OBVIOUS
  <2>6. FiberHolds(f, stack', fibers', effects) BY <1>1, <1>12, <2>2, <2>4, <2>5, LoopGoesOn
  <2> QED BY <2>1, <2>6
<1> QED BY <1>1, <1>2, <1>3, <1>5, <1>6, <1>7, <1>8, <1>9, <1>10, <1>11, <1>12, QuietTwice

LEMMA EpochCall ==
    ASSUME FiberAssumption, FiberInv, NEW l \in EpochLabels, NEW f \in 1 .. (uids - 1),
           NEW e \in SUBSET Epochs, l \in {"load", "apply"} => e # None
    PROVE  /\ EpochFrame(l, f, e) \in CallFrames /\ Proper(EpochFrame(l, f, e), uids)
           /\ EpochFrame(l, f, e).at = l /\ EpochFrame(l, f, e).f = f
<1>1. f \in Fibers /\ uids \in Nat BY DEF FiberInv, FiberTypes, Fibers, FiberAssumption
<1> PICK a : a = EpochFrame(l, f, e) OBVIOUS
<1>2. a \in CallFrames /\ a.at = l /\ a.f = f /\ a.epoch = e /\ a.pc = 1
  BY <1>1, OtherFrames
<1>3. Proper(a, uids) BY <1>1, <1>2 DEF Proper, FiberLabels, RootLabels, EpochLabels
<1> QED BY <1>2, <1>3

LEMMA TopEpoch ==
    ASSUME FiberInv, NEW l \in EpochLabels, At(l)
    PROVE  Top \in [at : EpochLabels, f : Fibers, epoch : SUBSET Epochs, pc : Nat]
<1>1. Top \in CallFrames /\ Top.at = l BY TopOf
<1> QED BY <1>1 DEF CallFrames, FiberLabels, RootLabels, EpochLabels, Raised

LEMMA EpochType ==
    ASSUME FiberAssumption, FiberInv, NEW f \in 1 .. (uids - 1)
    PROVE  Epoch(f) \in SUBSET Epochs
<1>1. f \in Fibers BY DEF FiberInv, FiberTypes, Fibers, FiberAssumption
<1>2. Injected(f) \subseteq Services
  BY <1>1 DEF Injected, FiberAssumption, FiberInv, FiberTypes, Created
<1>3. \A n \in Services : impls[n].serial \in Nat BY DEF FiberInv, FiberTypes
<1>4. \A n \in Injected(f) : <<n, impls[n].serial>> \in Services \X Nat BY <1>2, <1>3
<1>5. {<<n, impls[n].serial>> : n \in Injected(f)} \in Epochs BY <1>4 DEF Epochs
<1> QED BY <1>5 DEF Epoch, None

LEMMA DecideHolds ==
    ASSUME FiberAssumption, FiberInv, Decide
    PROVE  FiberInv'
<1>1. At("decide") /\ UNCHANGED <<table, calls>> /\ "decide" \in LoopLabels /\ "decide" \in FiberLabels
  BY DEF Decide, LoopLabels, FiberLabels
<1> PICK f : f = Top.f OBVIOUS
<1>2. fibers[f] \in FiberRecords /\ f \in 1 .. (uids - 1) BY <1>1, TopFiber, NotRoot
<1>3. CASE fibers[f].disposed
  <2> PICK r : r = [fibers[f] EXCEPT !.reconciling = FALSE] OBVIOUS
  <2>1. r \in FiberRecords /\ r.plugin = fibers[f].plugin /\ r.parent = fibers[f].parent
        /\ Alike(fibers[f], r) /\ ~r.reconciling
    BY <1>2 DEF FiberRecords, Alike
  <2>2. fibers' = [fibers EXCEPT ![f] = r] /\ stack' = <<>> \o Tail(stack) BY <1>3 DEF Decide, Then
  <2>3. RoundChanges(Top.f, r) BY <1>1, <2>1, <2>2 DEF RoundChanges
  <2> QED BY <1>1, <2>1, <2>2, <2>3, RoundEnds
<1>4. CASE ~fibers[f].disposed
  <2> PICK r : r = [fibers[f] EXCEPT !.dirty = FALSE] OBVIOUS
  <2> PICK e : e = Epoch(f) OBVIOUS
  <2> PICK b : b = EpochFrame("decided", f, e) OBVIOUS
  <2> PICK a : a = Frame("unload", f) OBVIOUS
  <2>1. r \in FiberRecords /\ r.plugin = fibers[f].plugin /\ r.parent = fibers[f].parent
        /\ Alike(fibers[f], r) /\ r.reconciling = fibers[f].reconciling
    BY <1>2 DEF FiberRecords, Alike
  <2>2. fibers' = [fibers EXCEPT ![f] = r] BY <1>4 DEF Decide, Cleared
  <2>3. RoundChanges(Top.f, r) BY <1>1, <2>1, <2>2 DEF RoundChanges
  <2>4. e \in SUBSET Epochs BY <1>2, EpochType
  <2>5. b \in CallFrames /\ Proper(b, uids) /\ b.at = "decided" /\ b.f = f
    BY <1>2, <2>4, EpochCall DEF EpochLabels
  <2>6. a \in CallFrames /\ Proper(a, uids) /\ a.at = "unload" /\ a.f = f BY <1>2, CallTo DEF FiberLabels
  <2>7. b.at \in LoopLabels BY <2>5 DEF LoopLabels
  <2>8. \/ stack' = (<<a>> \o <<b>>) \o Tail(stack)
        \/ stack' = (<<>> \o <<b>>) \o Tail(stack)
    BY <1>4 DEF Decide, Then
  <2>9. <<a>> \o <<b>> = <<a, b>> BY TwoCalls
  <2>10. CASE stack' = <<a, b>> \o Tail(stack)
    BY <1>1, <2>1, <2>3, <2>5, <2>6, <2>7, <2>10, RoundCalls
  <2>11. CASE stack' = <<b>> \o Tail(stack)
    BY <1>1, <2>1, <2>3, <2>5, <2>7, <2>11, RoundTurns
  <2>12. <<>> \o <<b>> = <<b>> OBVIOUS
  <2> QED BY <2>8, <2>9, <2>10, <2>11, <2>12
<1> QED BY <1>3, <1>4

LEMMA DecidedHolds ==
    ASSUME FiberAssumption, FiberInv, Decided
    PROVE  FiberInv'
<1>1. /\ At("decided") /\ UNCHANGED <<fibers, table, calls>>
      /\ "decided" \in LoopLabels /\ "decided" \in EpochLabels
  BY DEF Decided, LoopLabels, EpochLabels
<1> PICK f : f = Top.f OBVIOUS
<1> PICK e : e = Top.epoch OBVIOUS
<1> PICK b : b = Frame("again", f) OBVIOUS
<1> PICK a : a = EpochFrame("load", f, e) OBVIOUS
<1>2. fibers[f] \in FiberRecords /\ f \in 1 .. (uids - 1) /\ f \in Fibers BY <1>1, TopFiber, NotRoot
<1>3. e \in SUBSET Epochs BY <1>1, TopEpoch
<1>4. fibers' = [fibers EXCEPT ![f] = fibers[f]] BY <1>1, <1>2 DEF FiberInv, FiberTypes
<1>5. RoundChanges(Top.f, fibers[f]) BY <1>1, <1>2, <1>4 DEF RoundChanges, Alike
<1>6. b \in CallFrames /\ Proper(b, uids) /\ b.at = "again" /\ b.f = f BY <1>2, CallTo DEF FiberLabels
<1>7. b.at \in LoopLabels BY <1>6 DEF LoopLabels
<1>8. \/ stack' = (<<a>> \o <<b>>) \o Tail(stack) /\ MayLoad(f, e)
      \/ stack' = (<<>> \o <<b>>) \o Tail(stack)
  BY DEF Decided, Then
<1>9. <<a>> \o <<b>> = <<a, b>> /\ <<>> \o <<b>> = <<b>> BY TwoCalls
<1>10. CASE stack' = <<a, b>> \o Tail(stack) /\ MayLoad(f, e)
  <2>1. e # None /\ fibers[f].loaded = None /\ ~fibers[f].disposed BY <1>10 DEF MayLoad
  <2>2. a \in CallFrames /\ Proper(a, uids) /\ a.at = "load" /\ a.f = f
    BY <1>2, <1>3, <2>1, EpochCall DEF EpochLabels
  <2> QED BY <1>1, <1>5, <1>6, <1>7, <1>10, <2>1, <2>2, RoundCalls
<1>11. CASE stack' = <<b>> \o Tail(stack)
  BY <1>1, <1>5, <1>6, <1>7, <1>11, RoundTurns
<1> QED BY <1>8, <1>9, <1>10, <1>11

LEMMA AgainHolds ==
    ASSUME FiberAssumption, FiberInv, Again
    PROVE  FiberInv'
<1>1. At("again") /\ UNCHANGED <<table, calls>> /\ "again" \in LoopLabels /\ "again" \in FiberLabels
  BY DEF Again, LoopLabels, FiberLabels
<1> PICK f : f = Top.f OBVIOUS
<1>2. fibers[f] \in FiberRecords /\ f \in 1 .. (uids - 1) /\ f \in Fibers BY <1>1, TopFiber, NotRoot
<1>3. CASE fibers[f].dirty
  <2> PICK b : b = Frame("decide", f) OBVIOUS
  <2>1. fibers' = fibers /\ stack' = <<b>> \o Tail(stack) BY <1>3 DEF Again, Then
  <2>2. fibers' = [fibers EXCEPT ![f] = fibers[f]] BY <1>2, <2>1 DEF FiberInv, FiberTypes
  <2>3. RoundChanges(Top.f, fibers[f]) BY <1>1, <1>2, <2>2 DEF RoundChanges, Alike
  <2>4. b \in CallFrames /\ Proper(b, uids) /\ b.at = "decide" /\ b.f = f BY <1>2, CallTo DEF FiberLabels
  <2>5. b.at \in LoopLabels BY <2>4 DEF LoopLabels
  <2> QED BY <1>1, <2>1, <2>3, <2>4, <2>5, RoundTurns
<1>4. CASE ~fibers[f].dirty
  <2> PICK r : r = [fibers[f] EXCEPT !.reconciling = FALSE] OBVIOUS
  <2>1. r \in FiberRecords /\ r.plugin = fibers[f].plugin /\ r.parent = fibers[f].parent
        /\ Alike(fibers[f], r) /\ ~r.reconciling
    BY <1>2 DEF FiberRecords, Alike
  <2>2. fibers' = [fibers EXCEPT ![f] = r] /\ stack' = <<>> \o Tail(stack) BY <1>4 DEF Again, Then
  <2>3. RoundChanges(Top.f, r) BY <1>1, <2>1, <2>2 DEF RoundChanges
  <2> QED BY <1>1, <2>1, <2>2, <2>3, RoundEnds
<1> QED BY <1>3, <1>4

\* The fiber the running call is about, when it is neither a round nor the end of a dispose.
LEMMA OwnHolds ==
    ASSUME FiberInv, NEW f \in Fibers, NEW t, NEW n, Turns(stack, t, 1, n),
           stack[1].at \notin LoopLabels \cup {"finalize"}, NEW fc,
           fc[f].parent = fibers[f].parent, fc[f].disposed = fibers[f].disposed,
           fc[f].reconciling => fibers[f].reconciling, fibers[f].asked => fc[f].asked,
           effects[f] # <<>> => fc[f].phase # "none" \/ fc[f].loaded # None,
           fc[f].asked => ~fc[f].disposed /\ Leaving(f, t, fc),
           On(stack, "dispose", f) => fc[f].disposed \/ Leaving(f, t, fc),
           Stuck(f, stack, fibers) => Stuck(f, t, fc)
    PROVE  FiberHolds(f, t, fc, effects)
<1>1. FiberHolds(f, stack, fibers, effects) BY DEF FiberInv, Stands
<1>2. In(stack, LoopLabels, f) => In(t, LoopLabels, f) BY Stays
<1>3. In(stack, {"finalize"}, f) => In(t, {"finalize"}, f) BY Stays
<1>4. Leaving(f, stack, fibers) => Leaving(f, t, fc)
  <2>1. In(stack, {"finalize"}, f) => Leaving(f, t, fc) BY <1>3 DEF Leaving
  <2>2. fibers[f].asked => Leaving(f, t, fc) OBVIOUS
  <2>3. Stuck(f, stack, fibers) => Leaving(f, t, fc) BY DEF Leaving
  <2> QED BY <2>1, <2>2, <2>3 DEF Leaving
<1> QED BY <1>1, <1>2, <1>4 DEF FiberHolds

\* What stands beneath an unload, an undo or its end is beneath their successor.
LEMMA AboveSame ==
    ASSUME FiberInv, NEW l \in {"unload", "undo", "unloaded", "finalize"}, At(l),
           NEW a, a.at \in {"unload", "undo", "unloaded", "finalize"}, a.f = Top.f
    PROVE  Above(a, stack, 1)
<1>1. stack[1].at = l /\ Len(stack) \in Nat \ {0} /\ stack[1] = Top BY TopOf
<1>2. a.at \notin LoadLabels BY DEF LoadLabels
<1>3. 1 # Len(stack) => Len(stack) > 1 /\ 1 + 1 = 2
  <2> PICK n : n = Len(stack) OBVIOUS
  <2>1. n \in Nat \ {0} BY <1>1
  <2>2. 1 # n => n > 1 BY ONLY <2>1
  <2> QED BY <2>2
<1>4. Len(stack) > 1 => Fits(a, stack[2])
  BY <1>1, <1>2, Beneath DEF Fits
<1> QED BY <1>2, <1>3, <1>4 DEF Above

LEMMA DisposeHolds ==
    ASSUME FiberAssumption, FiberInv, Dispose
    PROVE  FiberInv'
<1>1. At("dispose") /\ UNCHANGED <<table, calls>> /\ "dispose" \in FiberLabels BY DEF Dispose, FiberLabels
<1> PICK f : f = Top.f OBVIOUS
<1>2. /\ fibers[f] \in FiberRecords /\ stack # <<>> /\ stack[1] = Top /\ stack[1].at = "dispose"
      /\ Len(stack) \in Nat \ {0} /\ About(stack[1], f) /\ f \in 1 .. (uids - 1) /\ f \in Fibers
  BY <1>1, TopFiber, TopOf, NotRoot DEF About
<1>3. Len(stack) > 1 => stack[2].at \notin EmptyLabels /\ stack[2].at # "finalize"
  BY <1>1, Plain DEF Plainly
<1>4. stack[1].at \notin LoopLabels \cup {"finalize"} BY <1>2 DEF LoopLabels
<1>5. FiberHolds(f, stack, fibers, effects) BY <1>2 DEF FiberInv, Stands
<1>6. ASSUME Turns(stack, stack', 1, 0)
      PROVE  In(stack', UndoLabels, f) => In(stack, UndoLabels, f)
  BY <1>6, Was
<1>7. CASE fibers[f].disposed /\ stack' = <<>> \o Tail(stack) /\ fibers' = fibers
  <2>1. f \in 0 .. (uids - 1) BY <1>2
  <2>2. Alters(f, fibers[f]) /\ OldFrames(stack, 1, f, fibers') /\ effects' = effects
    BY <1>1, <1>7, <2>1, NothingChanges
  <2>3. ASSUME Turns(stack, stack', 1, 0) PROVE FiberHolds(f, stack', fibers', effects)
    <3>1. Stuck(f, stack, fibers) => Stuck(f, stack', fibers') BY <1>6, <1>7, <2>3 DEF Stuck
    <3>2. ~fibers[f].asked BY <1>5, <1>7 DEF FiberHolds
    <3>3. effects[f] = <<>> BY <1>5, <1>7 DEF FiberHolds
    <3> QED BY <1>2, <1>4, <1>7, <2>3, <3>1, <3>2, <3>3, OwnHolds
  <2> QED BY <1>2, <1>3, <1>7, <2>2, <2>3, QuietPop
<1>8. CASE /\ stack' = <<>> \o Tail(stack) /\ ~fibers[f].disposed /\ fibers[f].phase # "none"
           /\ fibers' = [fibers EXCEPT ![f].asked = TRUE]
  <2> PICK r : r = [fibers[f] EXCEPT !.asked = TRUE] OBVIOUS
  <2>1. /\ r \in FiberRecords /\ r.plugin = fibers[f].plugin /\ r.parent = fibers[f].parent
        /\ r.phase = fibers[f].phase /\ r.loaded = fibers[f].loaded /\ r.disposed = fibers[f].disposed
        /\ r.asked /\ r.reconciling = fibers[f].reconciling
    BY <1>2 DEF FiberRecords
  <2>2. fibers' = [fibers EXCEPT ![f] = r] BY <1>8
  <2>3. Alters(f, r) /\ fibers'[f] = r /\ effects' = effects
    <3>1. Top.f = f /\ fibers' = [fibers EXCEPT ![Top.f] = r] BY <2>2
    <3>2. Alters(Top.f, r) BY <1>1, <2>1, <3>1, ChangesTop
    <3>3. fibers'[Top.f] = r /\ effects' = effects BY <1>1, <2>1, <3>1, ChangesTop
    <3> QED BY <3>1, <3>2, <3>3
  <2>4. OldFrames(stack, 1, f, fibers')
    <3>1. 1 + 1 = 2 OBVIOUS
    <3>3. ASSUME NEW j \in 2 .. Len(stack), stack[j].f = f PROVE FrameHolds(stack[j], fibers')
      <4>1. FrameHolds(stack[j], fibers) BY Rest
      <4>2. /\ fibers'[f].phase = fibers[f].phase /\ fibers'[f].loaded = fibers[f].loaded
            /\ fibers'[f].disposed = fibers[f].disposed /\ fibers'[f].reconciling = fibers[f].reconciling
        BY <2>1, <2>3
      <4> QED BY ONLY <3>3, <4>1, <4>2 DEF FrameHolds
    <3> QED BY <3>1, <3>3 DEF OldFrames
  <2>5. ASSUME Turns(stack, stack', 1, 0) PROVE FiberHolds(f, stack', fibers', effects)
    <3>1. Stuck(f, stack, fibers) => Stuck(f, stack', fibers') BY <1>6, <2>1, <2>3, <2>5 DEF Stuck
    <3>2. Leaving(f, stack', fibers') BY <1>8, <2>1, <2>3 DEF Leaving
    <3>3. fibers'[f].phase # "none" /\ ~fibers'[f].disposed BY <1>8, <2>1, <2>3
    <3>4. /\ fibers'[f].parent = fibers[f].parent /\ fibers'[f].disposed = fibers[f].disposed
          /\ fibers'[f].reconciling => fibers[f].reconciling
      BY <2>1, <2>3
    <3>5. fibers'[f].asked BY <2>1, <2>3
    <3> QED BY <1>2, <1>4, <2>3, <2>5, <3>1, <3>2, <3>3, <3>4, <3>5, OwnHolds
  <2> QED BY <1>2, <1>3, <1>8, <2>3, <2>4, <2>5, QuietPop
<1>9. CASE /\ stack' = <<Frame("unload", f), Frame("finalize", f)>> \o Tail(stack)
           /\ ~fibers[f].disposed /\ fibers[f].phase = "none" /\ fibers' = fibers
  <2> PICK a : a = Frame("unload", f) OBVIOUS
  <2> PICK b : b = Frame("finalize", f) OBVIOUS
  <2>1. f \in 0 .. (uids - 1) BY <1>2
  <2>2. Alters(f, fibers[f]) /\ OldFrames(stack, 1, f, fibers') /\ effects' = effects
    BY <1>1, <1>9, <2>1, NothingChanges
  <2>3. a \in CallFrames /\ Proper(a, uids) /\ a.at = "unload" /\ a.f = f BY <1>2, CallTo DEF FiberLabels
  <2>4. b \in CallFrames /\ Proper(b, uids) /\ b.at = "finalize" /\ b.f = f BY <1>2, CallTo DEF FiberLabels
  <2>5. a.at \notin LoopLabels \cup LoadLabels \cup UndoLabels \cup EmptyLabels
    BY <2>3 DEF LoopLabels, LoadLabels, UndoLabels, EmptyLabels
  <2>6. b.at \notin LoopLabels \cup LoadLabels \cup UndoLabels \cup EmptyLabels \cup TopLabels
    BY <2>4 DEF LoopLabels, LoadLabels, UndoLabels, EmptyLabels, TopLabels
  <2>7. /\ New(a, stack, 1) /\ New(b, stack, 1) /\ FrameHolds(a, fibers') /\ FrameHolds(b, fibers')
    BY <2>5, <2>6, NewPlain, FramePlain
  <2>8. Above(b, stack, 1) BY <1>1, <2>6, Plain DEF Plainly
  <2>9. Fits(a, b) BY <2>3, <2>4, <2>5, <2>6 DEF Fits
  <2>10. Kind(a, b, LoopLabels) /\ Kind(a, b, UndoLabels) BY <2>5 DEF Kind
  <2>11. stack' = <<a, b>> \o Tail(stack) BY <1>9
  <2>12. ASSUME Turns(stack, stack', 1, 2), stack'[1] = a, stack'[2] = b
         PROVE  TopHolds(stack', fibers', effects) /\ FiberHolds(f, stack', fibers', effects)
    <3>1. TopHolds(stack', fibers', effects) BY <1>9, <2>3, <2>4, <2>5, <2>12 DEF TopHolds
    <3>2. 2 \in 1 .. Len(stack') BY <1>2, <2>12 DEF Turns, Follows
    <3>3. In(stack', {"finalize"}, f) BY <2>4, <2>12, <3>2, IsIn
    <3>4. Leaving(f, stack', fibers') BY <3>3 DEF Leaving
    <3>5. \A i \in 1 .. 2 : stack'[i] = a \/ stack'[i] = b BY <2>12
    <3>6. In(stack', UndoLabels, f) => In(stack, UndoLabels, f) BY <2>5, <2>6, <2>12, <3>5, Was
    <3>7. Stuck(f, stack, fibers) => Stuck(f, stack', fibers') BY <1>9, <3>6 DEF Stuck
    <3>8. effects[f] # <<>> => fibers[f].loaded # None BY <1>5, <1>9 DEF FiberHolds
    <3>9. FiberHolds(f, stack', fibers', effects)
      BY <1>2, <1>4, <1>9, <2>12, <3>4, <3>7, <3>8, OwnHolds
    <3> QED BY <3>1, <3>9
  <2>13. b.at \notin UndoLabels /\ a.at \notin UndoLabels BY <2>5, <2>6
  <2> QED BY <1>2, <2>2, <2>3, <2>4, <2>7, <2>8, <2>9, <2>10, <2>11, <2>12, <2>13, QuietTwice
<1> QED BY <1>7, <1>8, <1>9 DEF Dispose, Then

LEMMA ServicesWithin ==
    ASSUME NEW f
    PROVE  ProvidedWithin(f) \in SUBSET Services
BY DEF ProvidedWithin

LEMMA RootType ==
    ASSUME FiberAssumption, FiberInv
    PROVE  uids \in Nat \ {0} /\ \A f \in 1 .. (uids - 1) : f \in Fibers /\ f \in 0 .. (uids - 1) /\ f # Root
BY DEF FiberInv, FiberTypes, Fibers, FiberAssumption, Root

\* Beneath the top of the stack.
LEMMA RestHolds ==
    ASSUME NEW f, NEW fc,
           \A j \in 2 .. Len(stack) :
               stack[j].at \in LoopLabels \cup LoadLabels \cup UndoLabels /\ stack[j].f = f
                 => FrameHolds(stack[j], fc)
    PROVE  OldFrames(stack, 1, f, fc)
<1>1. 1 + 1 = 2 OBVIOUS
<1> QED BY <1>1 DEF OldFrames

LEMMA UnloadHolds ==
    ASSUME FiberAssumption, FiberInv, Unload
    PROVE  FiberInv'
<1>1. At("unload") /\ UNCHANGED <<table, calls>> /\ "unload" \in FiberLabels BY DEF Unload, FiberLabels
<1> PICK f : f = Top.f OBVIOUS
<1>2. /\ fibers[f] \in FiberRecords /\ stack # <<>> /\ stack[1] = Top /\ stack[1].at = "unload"
      /\ Len(stack) \in Nat \ {0} /\ About(stack[1], f) /\ f \in 1 .. (uids - 1) /\ f \in Fibers
      /\ TopHolds(stack, fibers, effects)
  BY <1>1, TopFiber, TopOf, NotRoot DEF About
<1>3. stack[1].at \notin LoopLabels \cup {"finalize"} BY <1>2 DEF LoopLabels
<1>4. FiberHolds(f, stack, fibers, effects) BY <1>2 DEF FiberInv, Stands
<1>5. CASE /\ stack' = <<>> \o Tail(stack) /\ fibers' = fibers
           /\ fibers[f].phase = "unloading" \/ fibers[f].loaded = None
  <2>1. f \in 0 .. (uids - 1) BY <1>2
  <2>2. Alters(f, fibers[f]) /\ OldFrames(stack, 1, f, fibers') /\ effects' = effects
    BY <1>1, <1>5, <2>1, NothingChanges
  <2>3. ASSUME Turns(stack, stack', 1, 0) PROVE FiberHolds(f, stack', fibers', effects)
    <3>1. Alike(fibers[f], fibers'[f]) BY <1>5 DEF Alike
    <3>2. In(stack, LoopLabels, f) => In(stack', LoopLabels, f) BY <1>3, <2>3, Stays
    <3>3. fibers'[f].reconciling => In(stack', LoopLabels, f) BY <1>4, <1>5, <3>2 DEF FiberHolds
    <3>4. In(stack, {"finalize"}, f) => In(stack', {"finalize"}, f) BY <1>3, <2>3, Stays
    <3>5. In(stack', UndoLabels, f) => In(stack, UndoLabels, f) BY <2>3, Was
    <3>6. ~On(stack, "dispose", f) BY <1>2 DEF On
    <3>7. fibers[f].loaded = None \/ fibers[f].phase # "none" BY <1>5
    <3> QED BY <1>4, <3>1, <3>3, <3>4, <3>5, <3>6, <3>7, OthersHold
  <2>4. ASSUME Len(stack) > 1
        PROVE  /\ stack[2].at \in EmptyLabels => effects[stack[2].f] = <<>>
               /\ stack[2].at = "finalize" => Gone(stack[2].f, fibers')
    <3>1. Fits(stack[1], stack[2]) BY <2>4, Beneath
    <3>2. stack[2].at \notin EmptyLabels BY <1>2, <3>1 DEF Fits
    <3>3. stack[2].at = "finalize" => stack[2].f = f /\ fibers[f].phase = "none"
      BY <1>2, <2>4, <3>1 DEF Fits, TopHolds
    <3> QED BY <1>5, <3>2, <3>3 DEF Gone
  <2> QED BY <1>2, <1>5, <2>2, <2>3, <2>4, QuietPop
<1>6. CASE /\ stack' = <<NotifyFrame(ProvidedWithin(f)), Frame("undo", f)>> \o Tail(stack)
           /\ fibers[f].phase # "unloading" /\ fibers[f].loaded # None
           /\ fibers' = [fibers EXCEPT ![f].phase = "unloading"]
  <2> PICK a : a = NotifyFrame(ProvidedWithin(f)) OBVIOUS
  <2> PICK b : b = Frame("undo", f) OBVIOUS
  <2> PICK r : r = [fibers[f] EXCEPT !.phase = "unloading"] OBVIOUS
  <2>1. /\ r \in FiberRecords /\ r.plugin = fibers[f].plugin /\ r.parent = fibers[f].parent
        /\ r.phase = "unloading" /\ r.loaded = fibers[f].loaded /\ r.disposed = fibers[f].disposed
        /\ r.asked = fibers[f].asked /\ r.reconciling = fibers[f].reconciling
    <3>1. fibers[f] \in FiberRecords /\ r = [fibers[f] EXCEPT !.phase = "unloading"] BY <1>2
    <3> QED BY ONLY <3>1 DEF FiberRecords
  <2>2. fibers' = [fibers EXCEPT ![f] = r] /\ stack' = <<a, b>> \o Tail(stack) BY <1>6
  <2>3. Alters(f, r) /\ fibers'[f] = r /\ effects' = effects
    <3>1. Top.f = f /\ fibers' = [fibers EXCEPT ![Top.f] = r] BY <2>2
    <3>2. Alters(Top.f, r) BY <1>1, <2>1, <3>1, ChangesTop
    <3>3. fibers'[Top.f] = r /\ effects' = effects BY <1>1, <2>1, <3>1, ChangesTop
    <3> QED BY <3>1, <3>2, <3>3
  <2>4. a \in CallFrames /\ Proper(a, uids) /\ a.at = "notify"
    BY ServicesWithin, Notifies DEF FiberInv
  <2>5. b \in CallFrames /\ Proper(b, uids) /\ b.at = "undo" /\ b.f = f BY <1>2, CallTo DEF FiberLabels
  <2>6. a.at \notin LoopLabels \cup LoadLabels \cup UndoLabels \cup EmptyLabels \cup {"finalize", "load", "unload", "raised"}
    BY <2>4 DEF LoopLabels, LoadLabels, UndoLabels, EmptyLabels
  <2>7. b.at \in UndoLabels /\ b.at \notin LoopLabels \cup LoadLabels \cup EmptyLabels \cup TopLabels
    BY <2>5 DEF LoopLabels, LoadLabels, UndoLabels, EmptyLabels, TopLabels
  <2>8. ASSUME NEW j \in 2 .. Len(stack), stack[j].f = f,
               stack[j].at \in LoopLabels \cup LoadLabels \cup UndoLabels
        PROVE  FrameHolds(stack[j], fibers') /\ stack[j].at \notin UndoLabels
    <3>1. FrameHolds(stack[j], fibers) BY Rest
    <3>2. stack[j].at \notin UndoLabels BY <1>6, <2>8, <3>1 DEF FrameHolds
    <3> QED BY <1>6, <2>1, <2>3, <2>8, <3>1, <3>2 DEF FrameHolds
  <2>9. OldFrames(stack, 1, f, fibers') BY <2>8, RestHolds
  <2>10. New(a, stack, 1) /\ FrameHolds(a, fibers') BY <2>6, NewPlain, FramePlain
  <2>11. New(b, stack, 1) BY <2>5, <2>7, <2>8 DEF New
  <2>18. fibers'[f].phase = "unloading" /\ fibers'[f].loaded # None BY <1>6, <2>1, <2>3
  <2>12. FrameHolds(b, fibers') BY <2>5, <2>18 DEF FrameHolds, LoopLabels
  <2>13. Above(b, stack, 1) BY <1>1, <2>5, AboveSame
  <2>14. Fits(a, b) BY <2>5, <2>6, <2>7 DEF Fits
  <2>15. Kind(a, b, LoopLabels) /\ Kind(a, b, UndoLabels) BY <2>6 DEF Kind
  <2>16. ASSUME Turns(stack, stack', 1, 2), stack'[1] = a, stack'[2] = b
         PROVE  TopHolds(stack', fibers', effects) /\ FiberHolds(f, stack', fibers', effects)
    <3>1. TopHolds(stack', fibers', effects) BY <2>6, <2>16, TopPlain
    <3>2. fibers'[f].asked => ~fibers'[f].disposed /\ Leaving(f, stack', fibers')
      BY <1>4, <2>1, <2>3 DEF FiberHolds, Leaving
    <3>3. ~Stuck(f, stack, fibers) /\ ~On(stack, "dispose", f) BY <1>2, <1>6 DEF Stuck, On
    <3>4. /\ fibers'[f].parent = fibers[f].parent /\ fibers'[f].disposed = fibers[f].disposed
          /\ fibers'[f].reconciling => fibers[f].reconciling
          /\ fibers[f].asked => fibers'[f].asked
          /\ fibers'[f].phase # "none"
      BY <2>1, <2>3
    <3>5. FiberHolds(f, stack', fibers', effects)
      BY <1>2, <1>3, <2>16, <3>2, <3>3, <3>4, OwnHolds
    <3> QED BY <3>1, <3>5
  <2>17. a.at \notin UndoLabels BY <2>6
  <2> QED BY <1>2, <2>2, <2>3, <2>4, <2>5, <2>9, <2>10, <2>11, <2>12, <2>13, <2>14, <2>15, <2>16, <2>17, QuietTwice
<1> QED BY <1>5, <1>6 DEF Unload, Then, DependentsFirst

LEMMA OtherUndos ==
    ASSUME FiberInv, stack # <<>>, stack[1].at \in UndoLabels, NEW j \in 2 .. Len(stack),
           stack[j].at \in UndoLabels
    PROVE  stack[j].f # stack[1].f
<1>1. Len(stack) \in Nat /\ Once(stack, UndoLabels) BY LenProperties DEF FiberInv, Stands, StackHolds
<1>2. 1 \in 1 .. Len(stack) /\ j \in 1 .. Len(stack) /\ j # 1 BY <1>1
<1> QED BY <1>1, <1>2, Only

LEMMA OtherLoads ==
    ASSUME FiberInv, stack # <<>>, stack[1].at \in LoadLabels, NEW j \in 2 .. Len(stack),
           stack[j].at \in LoadLabels
    PROVE  stack[j].f # stack[1].f
<1>1. Len(stack) \in Nat /\ StackHolds(stack, uids) BY LenProperties DEF FiberInv, Stands, StackHolds
<1>2. 1 \in 1 .. Len(stack) /\ j \in 1 .. Len(stack) /\ j # 1 BY <1>1
<1>3. Once(stack, LoadLabels) BY <1>1, LoadsOnce
<1> QED BY <1>1, <1>2, <1>3, Only

LEMMA UndoHolds ==
    ASSUME FiberAssumption, FiberInv, Undo
    PROVE  FiberInv'
<1>1. At("undo") /\ UNCHANGED <<fibers, table, calls>> /\ "undo" \in FiberLabels BY DEF Undo, FiberLabels
<1> PICK f : f = Top.f OBVIOUS
<1> PICK a : a = Frame("disposers", f) OBVIOUS
<1> PICK b : b = Frame("unloaded", f) OBVIOUS
<1>2. /\ fibers[f] \in FiberRecords /\ stack # <<>> /\ stack[1] = Top /\ stack[1].at = "undo"
      /\ Len(stack) \in Nat \ {0} /\ About(stack[1], f) /\ f \in 1 .. (uids - 1) /\ f \in Fibers
      /\ f \in 0 .. (uids - 1) /\ FrameHolds(stack[1], fibers)
  BY <1>1, TopFiber, TopOf, NotRoot DEF About
<1>3. stack[1].at \notin LoopLabels \cup {"finalize"} /\ stack[1].at \in UndoLabels
  BY <1>2 DEF LoopLabels, UndoLabels
<1>4. FiberHolds(f, stack, fibers, effects) BY <1>2 DEF FiberInv, Stands
<1>5. Alters(f, fibers[f]) /\ OldFrames(stack, 1, f, fibers') /\ effects' = effects /\ fibers' = fibers
  BY <1>1, <1>2, NothingChanges
<1>6. a \in CallFrames /\ a.at = "disposers" /\ a.f = f BY <1>2, FiberFrame DEF RootLabels
<1>7. b \in CallFrames /\ Proper(b, uids) /\ b.at = "unloaded" /\ b.f = f BY <1>2, CallTo DEF FiberLabels
<1>8. Proper(a, uids) BY <1>2, <1>6 DEF Proper, FiberLabels, EpochLabels, RootLabels
<1>9. a.at \notin LoopLabels \cup LoadLabels \cup UndoLabels \cup EmptyLabels \cup {"finalize", "load", "unload", "raised"}
  BY <1>6 DEF LoopLabels, LoadLabels, UndoLabels, EmptyLabels
<1>10. b.at \in UndoLabels /\ b.at \notin LoopLabels \cup LoadLabels \cup TopLabels \cup {"finalize"}
  BY <1>7 DEF LoopLabels, LoadLabels, UndoLabels, TopLabels
<1>11. New(a, stack, 1) /\ FrameHolds(a, fibers') BY <1>9, NewPlain, FramePlain
<1>12. \A j \in 2 .. Len(stack) : stack[j].at \in UndoLabels => stack[j].f # f BY <1>2, <1>3, OtherUndos
<1>13. New(b, stack, 1) BY <1>7, <1>10, <1>12 DEF New
<1>14. FrameHolds(b, fibers') BY <1>2, <1>3, <1>5, <1>7 DEF FrameHolds, LoopLabels
<1>15. Above(b, stack, 1) BY <1>1, <1>7, AboveSame
<1>16. Fits(a, b) BY <1>6, <1>7, <1>9, <1>10 DEF Fits
<1>17. Kind(a, b, LoopLabels) /\ Kind(a, b, UndoLabels) BY <1>9 DEF Kind
<1>18. stack' = <<a, b>> \o Tail(stack) BY DEF Undo, Then
<1>19. ASSUME Turns(stack, stack', 1, 2), stack'[1] = a, stack'[2] = b
       PROVE  TopHolds(stack', fibers', effects) /\ FiberHolds(f, stack', fibers', effects)
  <2>1. TopHolds(stack', fibers', effects) BY <1>9, <1>19, TopPlain
  <2>2. In(stack, LoopLabels, f) => In(stack', LoopLabels, f) BY <1>3, <1>19, Stays
  <2>3. fibers'[f].reconciling => In(stack', LoopLabels, f) BY <1>4, <1>5, <2>2 DEF FiberHolds
  <2>4. In(stack, {"finalize"}, f) => In(stack', {"finalize"}, f) BY <1>3, <1>19, Stays
  <2>5. 1 \in 1 .. Len(stack) BY <1>2
  <2>6. In(stack, UndoLabels, f) BY <1>2, <1>3, <2>5, IsIn
  <2>7. ~On(stack, "dispose", f) /\ ~On(stack, "unload", f) BY <1>2 DEF On
  <2>8. Alike(fibers[f], fibers'[f]) BY <1>5 DEF Alike
  <2>9. FiberHolds(f, stack', fibers', effects)
    BY <1>4, <2>3, <2>4, <2>6, <2>7, <2>8, OthersHold
  <2> QED BY <2>1, <2>9
<1>20. a.at \notin UndoLabels BY <1>9
<1> QED BY <1>2, <1>5, <1>6, <1>7, <1>8, <1>11, <1>13, <1>14, <1>15, <1>16, <1>17, <1>18, <1>19, <1>20, QuietTwice

\* The end of an undo: the fiber is as if it had never loaded, and its dispose may follow.
LEMMA Ended ==
    ASSUME FiberAssumption, FiberInv, NEW l \in {"unloaded", "rolledback"}, At(l),
           NEW r \in FiberRecords, fibers' = [fibers EXCEPT ![Top.f] = r],
           r.plugin = fibers[Top.f].plugin, r.parent = fibers[Top.f].parent, r.phase = "none", r.loaded = None,
           r.disposed = fibers[Top.f].disposed, r.asked = fibers[Top.f].asked,
           r.reconciling = fibers[Top.f].reconciling, UNCHANGED <<table, calls>>,
           Then(DisposeIfAsked(Top.f))
    PROVE  FiberInv'
<1> PICK f : f = Top.f OBVIOUS
<1> PICK a : a = Frame("finalize", f) OBVIOUS
<1>1. l \in FiberLabels \cup EpochLabels BY DEF FiberLabels
<1>2. /\ fibers[f] \in FiberRecords /\ stack # <<>> /\ stack[1] = Top /\ stack[1].at = l
      /\ Len(stack) \in Nat \ {0} /\ About(stack[1], f) /\ f \in 1 .. (uids - 1) /\ f \in Fibers
      /\ FrameHolds(stack[1], fibers) /\ TopHolds(stack, fibers, effects)
  BY <1>1, TopFiber, TopOf, NotRoot DEF About
<1>3. stack[1].at \notin LoopLabels \cup {"finalize"} BY <1>2 DEF LoopLabels
<1>4. FiberHolds(f, stack, fibers, effects) BY <1>2 DEF FiberInv, Stands
<1>5. Alters(f, r) /\ fibers'[f] = r /\ effects' = effects BY <1>1, ChangesTop
<1>6. effects[f] = <<>> BY <1>2 DEF TopHolds, EmptyLabels
<1>7. ~Stuck(f, stack, fibers)
  <2>1. CASE l = "rolledback" BY <1>2, <2>1 DEF FrameHolds, Stuck
  <2>2. CASE l = "unloaded"
    <3>1. 1 \in 1 .. Len(stack) BY <1>2
    <3>2. In(stack, UndoLabels, f) BY <1>2, <2>2, <3>1, IsIn DEF UndoLabels
    <3> QED BY <3>2 DEF Stuck
  <2> QED BY <2>1, <2>2
<1>8. OldFrames(stack, 1, f, fibers')
  <2>1. ASSUME NEW j \in 2 .. Len(stack), stack[j].f = f,
               stack[j].at \in LoopLabels \cup LoadLabels \cup UndoLabels
        PROVE  FrameHolds(stack[j], fibers')
    <3>1. FrameHolds(stack[j], fibers) BY Rest
    <3>2. stack[j].at \notin LoadLabels /\ stack[j].at \notin UndoLabels
      <4>1. CASE l = "unloaded"
        <5>1. stack[j].at \notin UndoLabels BY <1>2, <2>1, <4>1, OtherUndos DEF UndoLabels
        <5>2. fibers[f].phase = "unloading" /\ fibers[f].loaded # None
          BY <1>2, <4>1 DEF FrameHolds, UndoLabels
        <5>3. stack[j].at # "apply" /\ stack[j].at # "rolledback"
          BY <2>1, <3>1, <5>2 DEF FrameHolds
        <5>4. j \in 1 .. Len(stack) BY Rest
        <5>5. stack[j].at # "load"
          <6>1. j - 1 \in 1 .. (Len(stack) - 1) /\ (j - 1) + 1 = j BY <1>2
          <6>2. Fits(stack[j - 1], stack[(j - 1) + 1]) BY <6>1 DEF FiberInv, Stands, StackHolds
          <6>3. stack[j].at \notin TopLabels BY <6>1, <6>2 DEF Fits
          <6> QED BY <6>3 DEF TopLabels
        <5> QED BY <5>1, <5>3, <5>5 DEF LoadLabels
      <4>2. CASE l = "rolledback"
        <5>1. stack[j].at \notin LoadLabels BY <1>2, <2>1, <4>2, OtherLoads DEF LoadLabels
        <5>2. fibers[f].loaded = None BY <1>2, <4>2 DEF FrameHolds
        <5> QED BY <2>1, <3>1, <5>1, <5>2 DEF FrameHolds
      <4> QED BY <4>1, <4>2
    <3>3. fibers'[f].reconciling = fibers[f].reconciling BY <1>5
    <3> QED BY <2>1, <3>1, <3>2, <3>3 DEF FrameHolds, LoadLabels
  <2> QED BY <2>1, RestHolds
<1>9. ASSUME NEW n, Turns(stack, stack', 1, n), \A i \in 1 .. n : stack'[i].at \notin UndoLabels,
             fibers[f].asked => In(stack', {"finalize"}, f)
      PROVE  FiberHolds(f, stack', fibers', effects)
  <2>1. fibers'[f].asked => ~fibers'[f].disposed /\ Leaving(f, stack', fibers')
    BY <1>4, <1>5, <1>9 DEF FiberHolds, Leaving
  <2>2. /\ fibers'[f].parent = fibers[f].parent /\ fibers'[f].disposed = fibers[f].disposed
        /\ fibers'[f].reconciling => fibers[f].reconciling
        /\ fibers[f].asked => fibers'[f].asked
    BY <1>5
  <2>3. ~On(stack, "dispose", f) BY <1>2 DEF On
  <2> QED BY <1>2, <1>3, <1>6, <1>7, <1>9, <2>1, <2>2, <2>3, OwnHolds
<1>10. Len(stack) > 1 => /\ stack[2].at \notin EmptyLabels
                         /\ stack[2].at = "finalize" => stack[2].f = f
  BY <1>2, Beneath DEF Fits, LoadLabels
<1>11. Gone(f, fibers') BY <1>5 DEF Gone
<1>12. CASE ~fibers[f].asked
  <2>1. stack' = <<>> \o Tail(stack) BY <1>12 DEF Then, DisposeIfAsked
  <2>3. \A i \in 1 .. 0 : stack'[i].at \notin UndoLabels OBVIOUS
  <2>2. Turns(stack, stack', 1, 0) => FiberHolds(f, stack', fibers', effects) BY <1>9, <1>12, <2>3
  <2> QED BY <1>2, <1>5, <1>8, <1>10, <1>11, <2>1, <2>2, QuietPop
<1>13. CASE fibers[f].asked
  <2>1. stack' = <<a>> \o Tail(stack) BY <1>13 DEF Then, DisposeIfAsked
  <2>2. a \in CallFrames /\ Proper(a, uids) /\ a.at = "finalize" /\ a.f = f BY <1>2, CallTo DEF FiberLabels
  <2>3. a.at \notin LoopLabels \cup LoadLabels \cup UndoLabels \cup EmptyLabels \cup {"load", "unload", "raised"}
    BY <2>2 DEF LoopLabels, LoadLabels, UndoLabels, EmptyLabels
  <2>4. New(a, stack, 1) /\ FrameHolds(a, fibers') BY <2>3, NewPlain, FramePlain
  <2>5. Above(a, stack, 1)
    <3>1. CASE l = "unloaded" BY <2>2, <3>1, AboveSame
    <3>2. CASE l = "rolledback"
      <4>1. l \notin Plainly BY <3>2 DEF Plainly
      <4> QED BY <2>3, <4>1, Plain
    <3> QED BY <3>1, <3>2
  <2>6. ASSUME Turns(stack, stack', 1, 1), stack'[1] = a
        PROVE  TopHolds(stack', fibers', effects) /\ FiberHolds(f, stack', fibers', effects)
    <3>1. TopHolds(stack', fibers', effects) BY <1>11, <2>2, <2>3, <2>6 DEF TopHolds
    <3>2. 1 \in 1 .. Len(stack') BY <1>2, <2>6 DEF Turns, Follows
    <3>3. In(stack', {"finalize"}, f) BY <2>2, <2>6, <3>2, IsIn
    <3>4. \A i \in 1 .. 1 : stack'[i].at \notin UndoLabels BY <2>3, <2>6
    <3> QED BY <1>9, <2>6, <3>1, <3>3, <3>4
  <2>7. a.at \notin UndoLabels BY <2>3
  <2> QED BY <1>2, <1>5, <1>8, <2>1, <2>2, <2>4, <2>5, <2>6, <2>7, QuietTurn
<1> QED BY <1>12, <1>13

LEMMA UnloadedHolds ==
    ASSUME FiberAssumption, FiberInv, Unloaded
    PROVE  FiberInv'
<1>1. At("unloaded") /\ UNCHANGED <<table, calls>> /\ Then(DisposeIfAsked(Top.f)) BY DEF Unloaded
<1> PICK r : r = [fibers[Top.f] EXCEPT !.loaded = None, !.phase = "none"] OBVIOUS
<1>2. fibers[Top.f] \in FiberRecords BY <1>1, TopFiber DEF FiberLabels
<1>3. /\ r \in FiberRecords /\ r.plugin = fibers[Top.f].plugin /\ r.parent = fibers[Top.f].parent
      /\ r.phase = "none" /\ r.loaded = None /\ r.disposed = fibers[Top.f].disposed
      /\ r.asked = fibers[Top.f].asked /\ r.reconciling = fibers[Top.f].reconciling
  BY <1>2 DEF FiberRecords, None
<1>4. Top.f \in Fibers BY <1>1, TopFiber DEF FiberLabels
<1>5. fibers' = [fibers EXCEPT ![Top.f] = r] BY <1>4 DEF Unloaded, FiberInv, FiberTypes
<1> QED BY <1>1, <1>3, <1>5, Ended

LEMMA RolledBackHolds ==
    ASSUME FiberAssumption, FiberInv, RolledBack
    PROVE  FiberInv'
<1>1. At("rolledback") /\ UNCHANGED <<table, calls>> /\ Then(DisposeIfAsked(Top.f)) BY DEF RolledBack
<1> PICK r : r = [fibers[Top.f] EXCEPT !.phase = "none"] OBVIOUS
<1>2. fibers[Top.f] \in FiberRecords BY <1>1, TopFiber DEF FiberLabels
<1>3. /\ r \in FiberRecords /\ r.plugin = fibers[Top.f].plugin /\ r.parent = fibers[Top.f].parent
      /\ r.phase = "none" /\ r.loaded = fibers[Top.f].loaded /\ r.disposed = fibers[Top.f].disposed
      /\ r.asked = fibers[Top.f].asked /\ r.reconciling = fibers[Top.f].reconciling
  BY <1>2 DEF FiberRecords
<1>4. fibers[Top.f].loaded = None BY <1>1, TopOf DEF FrameHolds
<1>5. fibers' = [fibers EXCEPT ![Top.f] = r] BY DEF RolledBack
<1> QED BY <1>1, <1>3, <1>4, <1>5, Ended

\* Calls are made between two others, or from an apply or a teardown.
MayEnter == stack = <<>> \/ stack[1].at \in {"apply", "teardown"}

LEMMA AboveCaller ==
    ASSUME FiberInv, MayEnter, NEW a, a.at \notin LoadLabels
    PROVE  Above(a, stack, 0)
<1>1. 0 # Len(stack) => stack # <<>> /\ 0 + 1 = 1 BY DEF FiberInv, Stands, StackHolds
<1>2. stack # <<>> => Fits(a, stack[1]) BY DEF MayEnter, Fits, TopLabels, EmptyLabels
<1> QED BY <1>1, <1>2 DEF Above

LEMMA QuietPush ==
    ASSUME FiberAssumption, FiberInv, MayEnter, UNCHANGED <<fibers, table>>, calls' \in 0 .. MaxCalls,
           NEW a \in CallFrames, Proper(a, uids),
           a.at \notin LoopLabels \cup LoadLabels \cup UndoLabels \cup EmptyLabels \cup {"finalize", "unload"},
           stack' = <<a>> \o stack
    PROVE  FiberInv'
<1>1. Root \in 0 .. (uids - 1) BY DEF Root, FiberInv, FiberTypes
<1>2. /\ Root \in Fibers /\ fibers[Root] \in FiberRecords /\ fibers' = [fibers EXCEPT ![Root] = fibers[Root]]
      /\ fibers' = fibers /\ effects' = effects /\ stack \in Seq(CallFrames)
  <2>1. Root \in Fibers BY DEF Root, Fibers, FiberAssumption
  <2>2. fibers \in [Fibers -> FiberRecords] BY DEF FiberInv, FiberTypes
  <2>3. stack \in Seq(CallFrames) BY DEF FiberInv, Stands, StackHolds
  <2>4. fibers' = fibers /\ effects' = effects BY DEF table
  <2> QED BY <2>1, <2>2, <2>3, <2>4
<1>3. fibers[Root].loaded # None /\ ~fibers[Root].disposed /\ ~fibers[Root].asked
  BY DEF FiberInv, Created
<1>4. Alters(Root, fibers[Root]) BY <1>1, <1>2, <1>3 DEF Alters
<1>5. Turns(stack, stack', 0, 1) /\ stack'[1] = a BY <1>2, Pushed
<1>6. Alike(fibers[Root], fibers'[Root]) BY <1>2 DEF Alike
<1>7. OldFrames(stack, 0, Root, fibers') BY <1>2, <1>6, OldAlike
<1>8. New(a, stack, 0) /\ FrameHolds(a, fibers') BY NewPlain, FramePlain
<1>9. Above(a, stack, 0) BY AboveCaller
<1>10. \A g \in Fibers : Passes(stack, stack', 0, 1, g)
  <2>1. \A i \in 1 .. 1 : stack'[i] = a BY <1>5
  <2> QED BY <2>1 DEF Passes, On, MayEnter
<1>11. FiberHolds(Root, stack', fibers', effects) BY <1>2, <1>5, <1>6, <1>10, Same
<1>12. TopHolds(stack', fibers', effects)
  <2>1. CASE Len(stack') > 1
    <3>1. 0 + 1 \in (0 + 1) .. Len(stack) /\ 1 - 0 + 1 = 2 /\ stack # <<>>
      BY <1>5, <2>1 DEF Turns, Follows
    <3>2. stack'[2] = stack[1] BY <1>5, <3>1 DEF Turns, Follows
    <3>3. stack'[2].at # "finalize" BY <3>1, <3>2 DEF MayEnter
    <3> QED BY <1>5, <3>3 DEF TopHolds, LoadLabels
  <2>2. CASE ~(Len(stack') > 1) BY <1>5, <2>2 DEF TopHolds, LoadLabels
  <2> QED BY <2>1, <2>2
<1>13. \A i \in 1 .. 1 : stack'[i] = a BY <1>5
<1>14. 0 \in Nat /\ 1 \in 0 .. 2 /\ 1 # 2 OBVIOUS
<1> QED BY <1>2, <1>4, <1>5, <1>7, <1>8, <1>9, <1>10, <1>11, <1>12, <1>13, <1>14, QuietStep

LEMMA Raises ==
    ASSUME FiberAssumption, FiberInv, At("apply"), stack' = <<Raised>> \o stack,
           UNCHANGED <<fibers, table, calls>>
    PROVE  FiberInv'
<1> PICK a : a = Raised OBVIOUS
<1>1. a \in CallFrames /\ a.at = "raised" BY OtherFrames
<1>2. Proper(a, uids) BY <1>1 DEF Proper, FiberLabels, EpochLabels, RootLabels
<1>3. a.at \notin LoopLabels \cup LoadLabels \cup UndoLabels \cup EmptyLabels \cup {"finalize", "unload"}
  BY <1>1 DEF LoopLabels, LoadLabels, UndoLabels, EmptyLabels
<1>4. MayEnter BY TopOf DEF MayEnter
<1>5. calls' \in 0 .. MaxCalls BY DEF FiberInv, FiberTypes
<1>6. stack' = <<a>> \o stack OBVIOUS
<1> QED BY <1>1, <1>2, <1>3, <1>4, <1>5, <1>6, QuietPush

LEMMA ApplyFailsHolds ==
    ASSUME FiberAssumption, FiberInv, ApplyFails
    PROVE  FiberInv'
BY Raises DEF ApplyFails, Running, Enter

LEMMA ApplyEndsHolds ==
    ASSUME FiberAssumption, FiberInv, ApplyEnds
    PROVE  FiberInv'
<1>1. /\ At("apply") /\ UNCHANGED <<table, calls>> /\ "apply" \in FiberLabels \cup EpochLabels
      /\ "apply" \in EpochLabels
  BY DEF ApplyEnds, EpochLabels
<1> PICK f : f = Top.f OBVIOUS
<1> PICK e : e = Top.epoch OBVIOUS
<1> PICK r : r = [fibers[f] EXCEPT !.loaded = e, !.phase = "none"] OBVIOUS
<1> PICK a : a = AfterApply(f) OBVIOUS
<1>2. /\ fibers[f] \in FiberRecords /\ stack # <<>> /\ stack[1] = Top /\ stack[1].at = "apply"
      /\ Len(stack) \in Nat \ {0} /\ About(stack[1], f) /\ f \in 1 .. (uids - 1) /\ f \in Fibers
      /\ FrameHolds(stack[1], fibers) /\ Proper(stack[1], uids)
  BY <1>1, TopFiber, TopOf, NotRoot DEF About
<1>3. stack[1].at \notin LoopLabels \cup {"finalize"} /\ stack[1].at \in LoadLabels
  BY <1>2 DEF LoopLabels, LoadLabels
<1>4. FiberHolds(f, stack, fibers, effects) BY <1>2 DEF FiberInv, Stands
<1>5. e \in SUBSET Epochs /\ e # None
  <2>1. Top \in [at : EpochLabels, f : Fibers, epoch : SUBSET Epochs, pc : Nat] BY <1>1, TopEpoch
  <2> QED BY <1>2, <2>1 DEF Proper
<1>6. fibers[f].phase = "loading" /\ fibers[f].loaded = None /\ ~fibers[f].disposed
  BY <1>2 DEF FrameHolds
<1>7. /\ r \in FiberRecords /\ r.plugin = fibers[f].plugin /\ r.parent = fibers[f].parent
      /\ r.phase = "none" /\ r.loaded = e /\ r.disposed = fibers[f].disposed
      /\ r.asked = fibers[f].asked /\ r.reconciling = fibers[f].reconciling
  <2>1. r = [fibers[f] EXCEPT !.loaded = e, !.phase = "none"] OBVIOUS
  <2>2. fibers[f] \in FiberRecords BY <1>2
  <2> QED BY ONLY <1>5, <2>1, <2>2 DEF FiberRecords
<1>8. fibers' = [fibers EXCEPT ![f] = r] /\ stack' = <<a>> \o Tail(stack)
  BY <1>2 DEF ApplyEnds, Then, FiberInv, FiberTypes
<1>9. Alters(f, r) /\ fibers'[f] = r /\ effects' = effects
  <2>1. Top.f = f /\ fibers' = [fibers EXCEPT ![Top.f] = r] BY <1>8
  <2>2. Alters(Top.f, r) BY <1>1, <1>7, <2>1, ChangesTop
  <2>3. fibers'[Top.f] = r /\ effects' = effects BY <1>1, <1>7, <2>1, ChangesTop
  <2> QED BY <2>1, <2>2, <2>3
<1>10. OldFrames(stack, 1, f, fibers')
  <2>1. ASSUME NEW j \in 2 .. Len(stack), stack[j].f = f,
               stack[j].at \in LoopLabels \cup LoadLabels \cup UndoLabels
        PROVE  FrameHolds(stack[j], fibers')
    <3>1. FrameHolds(stack[j], fibers) BY Rest
    <3>2. stack[j].at \notin LoadLabels BY <1>2, <1>3, <2>1, OtherLoads
    <3>3. stack[j].at \notin UndoLabels BY <1>6, <2>1, <3>1 DEF FrameHolds
    <3>4. fibers'[f].reconciling = fibers[f].reconciling BY <1>7, <1>9
    <3> QED BY <2>1, <3>1, <3>2, <3>3, <3>4 DEF FrameHolds, LoadLabels
  <2> QED BY <2>1, RestHolds
<1>11. /\ a \in CallFrames /\ Proper(a, uids) /\ a.at \in {"unload", "notify"}
       /\ fibers[f].asked => a.at = "unload" /\ a.f = f
  <2>1. CASE fibers[f].asked
    <3>1. a = Frame("unload", f) BY <2>1 DEF AfterApply
    <3> QED BY <1>2, <3>1, CallTo DEF FiberLabels
  <2>2. CASE ~fibers[f].asked
    <3>1. a = NotifyFrame(ProvidedWithin(f)) BY <2>2 DEF AfterApply
    <3> QED BY <2>2, <3>1, ServicesWithin, Notifies DEF FiberInv
  <2> QED BY <2>1, <2>2
<1>12. a.at \notin LoopLabels \cup LoadLabels \cup UndoLabels \cup EmptyLabels \cup {"finalize", "raised"}
  BY <1>11 DEF LoopLabels, LoadLabels, UndoLabels, EmptyLabels
<1>13. New(a, stack, 1) /\ FrameHolds(a, fibers') BY <1>12, NewPlain, FramePlain
<1>14. Above(a, stack, 1) BY <1>1, <1>12, Plain DEF Plainly
<1>15. ASSUME Turns(stack, stack', 1, 1), stack'[1] = a
       PROVE  TopHolds(stack', fibers', effects) /\ FiberHolds(f, stack', fibers', effects)
  <2>1. TopHolds(stack', fibers', effects)
    <3>1. CASE Len(stack') > 1
      <4>1. 2 \in (1 + 1) .. Len(stack) /\ 2 - 1 + 1 = 2 BY <1>2, <1>15, <3>1 DEF Turns, Follows
      <4>2. stack'[2] = stack[2] BY <1>15, <4>1 DEF Turns, Follows
      <4>3. Len(stack) > 1 BY <1>2, <4>1
      <4>4. stack[2].at # "finalize" BY <1>1, <4>3, Plain DEF Plainly
      <4> QED BY <1>12, <1>15, <4>2, <4>4 DEF TopHolds, LoadLabels
    <3>2. CASE ~(Len(stack') > 1) BY <1>12, <1>15, <3>2 DEF TopHolds, LoadLabels
    <3> QED BY <3>1, <3>2
  <2>2. fibers[f].asked => On(stack', "unload", f)
    <3>1. stack' # <<>> BY <1>2, <1>15 DEF Turns, Follows
    <3> QED BY <1>11, <1>15, <3>1 DEF On
  <2>3. fibers'[f].asked => ~fibers'[f].disposed /\ Leaving(f, stack', fibers')
    BY <1>5, <1>6, <1>7, <1>9, <2>2 DEF Leaving
  <2>4. /\ fibers'[f].parent = fibers[f].parent /\ fibers'[f].disposed = fibers[f].disposed
        /\ fibers'[f].reconciling => fibers[f].reconciling
        /\ fibers[f].asked => fibers'[f].asked
        /\ fibers'[f].loaded # None
    BY <1>5, <1>7, <1>9
  <2>5. ~On(stack, "dispose", f) /\ ~Stuck(f, stack, fibers) BY <1>2, <1>6 DEF On, Stuck
  <2>6. FiberHolds(f, stack', fibers', effects) BY <1>2, <1>3, <1>15, <2>3, <2>4, <2>5, OwnHolds
  <2> QED BY <2>1, <2>6
<1>16. a.at \notin UndoLabels BY <1>12
<1> QED BY <1>2, <1>8, <1>9, <1>10, <1>11, <1>13, <1>14, <1>15, <1>16, QuietTurn

---------------------------------------------------------------------------
(* Lists of effects and of fibers. *)

LEMMA RemovedAt ==
    ASSUME NEW S, NEW s \in Seq(S), NEW i \in 1 .. Len(s)
    PROVE  LET t == RemoveAt(s, i) IN
           /\ t \in Seq(S) /\ Len(t) = Len(s) - 1
           /\ \A k \in 1 .. Len(t) : t[k] = IF k < i THEN s[k] ELSE s[k + 1]
<1>1. Len(s) \in Nat /\ i \in Nat \ {0} /\ i <= Len(s) OBVIOUS
<1> PICK a : a = SubSeq(s, 1, i - 1) OBVIOUS
<1> PICK b : b = SubSeq(s, i + 1, Len(s)) OBVIOUS
<1>2. \A k \in 1 .. (i - 1) : s[k] \in S BY <1>1
<1>3. \A k \in (i + 1) .. Len(s) : s[k] \in S BY <1>1
<1>4. /\ a \in Seq(S) /\ Len(a) = i - 1 /\ \A k \in 1 .. (i - 1) : a[k] = s[k]
  BY <1>1, <1>2, SubSeqProperties
<1>5. /\ b \in Seq(S) /\ Len(b) = Len(s) - i /\ \A k \in 1 .. (Len(s) - i) : b[k] = s[i + k]
  BY <1>1, <1>3, SubSeqProperties
<1>6. /\ a \o b \in Seq(S) /\ Len(a \o b) = Len(a) + Len(b)
      /\ \A k \in 1 .. Len(a) + Len(b) : (a \o b)[k] = IF k <= Len(a) THEN a[k] ELSE b[k - Len(a)]
  BY ONLY <1>4, <1>5, ConcatProperties
<1>7. Len(a) + Len(b) = Len(s) - 1 BY ONLY <1>1, <1>4, <1>5
<1>8. ASSUME NEW k \in 1 .. (Len(s) - 1) PROVE (a \o b)[k] = IF k < i THEN s[k] ELSE s[k + 1]
  <2>1. (a \o b)[k] = IF k <= i - 1 THEN a[k] ELSE b[k - (i - 1)] BY <1>4, <1>6, <1>7
  <2>2. CASE k < i
    <3>1. k <= i - 1 /\ k \in 1 .. (i - 1) BY <1>1, <2>2
    <3> QED BY <1>4, <2>1, <2>2, <3>1
  <2>3. CASE ~(k < i)
    <3>1. ~(k <= i - 1) /\ k - (i - 1) \in 1 .. (Len(s) - i) /\ i + (k - (i - 1)) = k + 1
      BY <1>1, <2>3
    <3> QED BY <1>5, <2>1, <2>3, <3>1
  <2> QED BY <2>2, <2>3
<1> QED BY <1>6, <1>7, <1>8 DEF RemoveAt

\* What is left of a list without one of its elements.
LEMMA WithoutOne ==
    ASSUME NEW S, NEW s \in Seq(S), NEW x
    PROVE  /\ Without(s, x) \in Seq(S)
           /\ \A y : Lists(Without(s, x), y) => Lists(s, y)
           /\ \A y : y # x /\ Lists(s, y) => Lists(Without(s, x), y)
<1>1. CASE ~(\E i \in 1 .. Len(s) : s[i] = x)
  <2>1. Without(s, x) = s BY <1>1 DEF Without
  <2> QED BY <2>1
<1>2. CASE \E i \in 1 .. Len(s) : s[i] = x
  <2> PICK i : i = CHOOSE k \in 1 .. Len(s) : s[k] = x OBVIOUS
  <2> PICK t : t = RemoveAt(s, i) OBVIOUS
  <2>1. i \in 1 .. Len(s) /\ s[i] = x BY <1>2
  <2>2. /\ t \in Seq(S) /\ Len(t) = Len(s) - 1
        /\ \A k \in 1 .. Len(t) : t[k] = IF k < i THEN s[k] ELSE s[k + 1]
    BY <2>1, RemovedAt
  <2>3. Without(s, x) = t BY <1>2 DEF Without
  <2>4. Len(s) \in Nat /\ i \in Nat \ {0} BY <2>1, LenProperties
  <2> PICK n : n = Len(s) OBVIOUS
  <2> PICK m : m = Len(t) OBVIOUS
  <2>7. n \in Nat /\ m = n - 1 /\ i \in 1 .. n BY <2>1, <2>2, <2>4
  <2>5. ASSUME NEW y, Lists(t, y) PROVE Lists(s, y)
    <3>1. PICK k \in 1 .. Len(t) : t[k] = y BY <2>5 DEF Lists
    <3>2. k \in 1 .. Len(s) /\ k + 1 \in 1 .. Len(s)
      <4>1. k \in 1 .. m OBVIOUS
      <4>2. k \in 1 .. n /\ k + 1 \in 1 .. n BY ONLY <2>7, <4>1
      <4> QED BY <4>2
    <3>3. s[k] = y \/ s[k + 1] = y BY <2>2, <3>1
    <3> QED BY <3>2, <3>3 DEF Lists
  <2>6. ASSUME NEW y, y # x, Lists(s, y) PROVE Lists(t, y)
    <3>1. PICK k \in 1 .. Len(s) : s[k] = y BY <2>6 DEF Lists
    <3>2. CASE k < i
      <4>3. k \in 1 .. n OBVIOUS
      <4>4. k \in 1 .. m BY ONLY <2>7, <3>2, <4>3
      <4>1. k \in 1 .. Len(t) BY <4>4
      <4>2. t[k] = y BY <2>2, <3>1, <3>2, <4>1
      <4> QED BY <4>1, <4>2 DEF Lists
    <3>3. CASE k > i
      <4>3. k \in 1 .. n OBVIOUS
      <4>4. k - 1 \in 1 .. m /\ ~(k - 1 < i) /\ (k - 1) + 1 = k BY ONLY <2>7, <3>3, <4>3
      <4>1. k - 1 \in 1 .. Len(t) /\ ~(k - 1 < i) /\ (k - 1) + 1 = k BY <4>4
      <4>2. t[k - 1] = y BY <2>2, <3>1, <4>1
      <4> QED BY <4>1, <4>2 DEF Lists
    <3>4. k # i BY <2>1, <2>6, <3>1
    <3>5. k < i \/ k > i BY <2>4, <3>4
    <3> QED BY <3>2, <3>3, <3>5
  <2> QED BY <2>2, <2>3, <2>5, <2>6
<1> QED BY <1>1, <1>2

LEMMA NotEmpty ==
    ASSUME NEW S, NEW s \in Seq(S)
    PROVE  s # <<>> <=> \E y : Lists(s, y)
<1>1. s # <<>> => 1 \in 1 .. Len(s) BY EmptySeq, LenProperties
<1>2. s = <<>> => 1 .. Len(s) = {} OBVIOUS
<1>3. ASSUME s # <<>> PROVE \E y : Lists(s, y) BY <1>1, <1>3 DEF Lists
<1>4. ASSUME s = <<>> PROVE ~(\E y : Lists(s, y)) BY <1>2, <1>4 DEF Lists
<1> QED BY <1>3, <1>4

LEMMA WithoutEmpty ==
    ASSUME NEW S, NEW s \in Seq(S), NEW x, Without(s, x) # <<>>
    PROVE  s # <<>>
<1>1. Without(s, x) \in Seq(S) BY WithoutOne
<1>2. PICK y : Lists(Without(s, x), y) BY <1>1, NotEmpty
<1>3. Lists(s, y) BY <1>2, WithoutOne
<1> QED BY <1>3, NotEmpty

LEMMA Appended ==
    ASSUME NEW S, NEW s \in Seq(S), NEW x \in S
    PROVE  /\ Append(s, x) \in Seq(S)
           /\ Lists(Append(s, x), x)
           /\ \A y : Lists(s, y) => Lists(Append(s, x), y)
           /\ \A y : Lists(Append(s, x), y) => y = x \/ Lists(s, y)
<1> PICK t : t = Append(s, x) OBVIOUS
<1>1. /\ t \in Seq(S) /\ Len(t) = Len(s) + 1 /\ Len(s) \in Nat
      /\ \A i \in 1 .. Len(s) : t[i] = s[i]
      /\ t[Len(s) + 1] = x
  BY AppendProperties, LenProperties
<1>2. Len(s) + 1 \in 1 .. Len(t) /\ 1 .. Len(s) \subseteq 1 .. Len(t)
      /\ \A i \in 1 .. Len(t) : i \in 1 .. Len(s) \/ i = Len(s) + 1
  BY <1>1
<1>3. Lists(t, x) BY <1>1, <1>2 DEF Lists
<1>4. ASSUME NEW y, Lists(s, y) PROVE Lists(t, y)
  <2>1. PICK i \in 1 .. Len(s) : s[i] = y BY <1>4 DEF Lists
  <2>2. i \in 1 .. Len(t) /\ t[i] = y BY <1>1, <1>2, <2>1
  <2> QED BY <2>2 DEF Lists
<1>5. ASSUME NEW y, Lists(t, y) PROVE y = x \/ Lists(s, y)
  <2>1. PICK i \in 1 .. Len(t) : t[i] = y BY <1>5 DEF Lists
  <2>2. CASE i \in 1 .. Len(s) BY <1>1, <2>1, <2>2 DEF Lists
  <2>3. CASE i = Len(s) + 1 BY <1>1, <2>1, <2>3
  <2> QED BY <1>2, <2>2, <2>3
<1> QED BY <1>1, <1>3, <1>4, <1>5

---------------------------------------------------------------------------
(* Steps that change what is registered. *)

LEMMA FullStep ==
    ASSUME FiberAssumption, FiberInv, FiberTypes', Created', Registered', uids <= uids',
           NEW k, NEW n, Turns(stack, stack', k, n), n \in 0 .. 2,
           \A i \in 1 .. n : Proper(stack'[i], uids') /\ New(stack'[i], stack, k) /\ FrameHolds(stack'[i], fibers'),
           n # 0 => Above(stack'[n], stack, k),
           n = 2 => /\ Fits(stack'[1], stack'[2])
                    /\ Kind(stack'[1], stack'[2], LoopLabels) /\ Kind(stack'[1], stack'[2], UndoLabels),
           \A j \in (k + 1) .. Len(stack) : FrameHolds(stack[j], fibers'),
           stack' # <<>> => TopHolds(stack', fibers', effects'),
           \A g \in Fibers : FiberHolds(g, stack', fibers', effects')
    PROVE  FiberInv'
<1>1. Stands(stack, uids, fibers, effects) /\ uids \in Nat BY DEF FiberInv, FiberTypes
<1>2. uids' \in Nat BY DEF FiberTypes
<1>3. Stands(stack', uids', fibers', effects') BY <1>1, <1>2, StandsAgain
<1> QED BY <1>3 DEF FiberInv

LEMMA OwnAlso ==
    ASSUME FiberInv, NEW f \in Fibers, NEW t, NEW k, NEW n, Turns(stack, t, k, n),
           \A i \in 1 .. k : stack[i].at \notin LoopLabels \cup {"finalize"}, NEW fc, NEW et,
           fc[f].parent = fibers[f].parent, fc[f].disposed = fibers[f].disposed,
           fc[f].reconciling => fibers[f].reconciling, fibers[f].asked => fc[f].asked,
           et[f] # <<>> => ~fc[f].disposed /\ (fc[f].phase # "none" \/ fc[f].loaded # None),
           Lists(effects[fibers[f].parent], ChildOf(f)) => Lists(et[fibers[f].parent], ChildOf(f)),
           fc[f].asked => ~fc[f].disposed /\ Leaving(f, t, fc),
           On(stack, "dispose", f) => fc[f].disposed \/ Leaving(f, t, fc),
           Stuck(f, stack, fibers) => Stuck(f, t, fc)
    PROVE  FiberHolds(f, t, fc, et)
<1>1. FiberHolds(f, stack, fibers, effects) BY DEF FiberInv, Stands
<1>2. In(stack, LoopLabels, f) => In(t, LoopLabels, f) BY Stays
<1>3. In(stack, {"finalize"}, f) => In(t, {"finalize"}, f) BY Stays
<1>4. Leaving(f, stack, fibers) => Leaving(f, t, fc)
  <2>1. In(stack, {"finalize"}, f) => Leaving(f, t, fc) BY <1>3 DEF Leaving
  <2>2. fibers[f].asked => Leaving(f, t, fc) OBVIOUS
  <2>3. Stuck(f, stack, fibers) => Leaving(f, t, fc) BY DEF Leaving
  <2> QED BY <2>1, <2>2, <2>3 DEF Leaving
<1> QED BY <1>1, <1>2, <1>4 DEF FiberHolds

\* An effect more: what its owner lists, and what others list.
LEMMA EffectsGrow ==
    ASSUME FiberInv, NEW f \in Fibers, NEW e \in EffectRecords,
           effects' = [effects EXCEPT ![f] = Append(@, e)]
    PROVE  /\ effects' \in [Fibers -> Seq(EffectRecords)]
           /\ \A g \in Fibers : g # f => effects'[g] = effects[g]
           /\ \A g \in Fibers : \A y : Lists(effects[g], y) => Lists(effects'[g], y)
           /\ Lists(effects'[f], e)
           /\ \A g \in Fibers : \A y : Lists(effects'[g], y) => y = e \/ Lists(effects[g], y)
<1>1. effects \in [Fibers -> Seq(EffectRecords)] BY DEF FiberInv, FiberTypes
<1>2. effects[f] \in Seq(EffectRecords) BY <1>1
<1>3. Append(effects[f], e) \in Seq(EffectRecords) BY <1>2, Appended
<1>4. effects' \in [Fibers -> Seq(EffectRecords)] BY <1>1, <1>3
<1>5. effects'[f] = Append(effects[f], e) /\ \A g \in Fibers : g # f => effects'[g] = effects[g] BY <1>1
<1>6. \A y : Lists(effects[f], y) => Lists(effects'[f], y) BY <1>2, <1>5, Appended
<1>7. Lists(effects'[f], e) BY <1>2, <1>5, Appended
<1>8. \A y : Lists(effects'[f], y) => y = e \/ Lists(effects[f], y) BY <1>2, <1>5, Appended
<1>9. \A g \in Fibers : \A y : Lists(effects[g], y) => Lists(effects'[g], y) BY <1>5, <1>6
<1>10. \A g \in Fibers : \A y : Lists(effects'[g], y) => y = e \/ Lists(effects[g], y) BY <1>5, <1>8
<1> QED BY <1>4, <1>5, <1>7, <1>9, <1>10

\* The calls beneath rely on nothing a step changes of the fiber f.
LEMMA RestKeeps ==
    ASSUME FiberInv, NEW f, NEW k \in Nat, OldFrames(stack, k, f, fibers'),
           \A g \in 0 .. (uids - 1) : g # f => fibers'[g] = fibers[g],
           NEW j \in (k + 1) .. Len(stack)
    PROVE  FrameHolds(stack[j], fibers')
<1>1. j \in 1 .. Len(stack) BY LenProperties DEF FiberInv, Stands, StackHolds
<1>2. Proper(stack[j], uids) /\ FrameHolds(stack[j], fibers) BY <1>1 DEF FiberInv, Stands, StackHolds
<1>3. OthersKept(uids, f, fibers, fibers') BY DEF Alike, OthersKept
<1>4. stack[j].at \in LoopLabels \cup LoadLabels \cup UndoLabels /\ stack[j].f = f
        => FrameHolds(stack[j], fibers')
  BY DEF OldFrames
<1>5. uids \in Nat BY DEF FiberInv, FiberTypes
<1> QED BY <1>2, <1>3, <1>4, <1>5, FrameKeeps

LEMMA LoadHolds ==
    ASSUME FiberAssumption, FiberInv, Load
    PROVE  FiberInv'
<1>1. /\ At("load") /\ UNCHANGED <<live, impls, serial, uids, calls>> /\ "load" \in FiberLabels \cup EpochLabels
      /\ "load" \in EpochLabels
  BY DEF Load, EpochLabels
<1> PICK f : f = Top.f OBVIOUS
<1> PICK e : e = Top.epoch OBVIOUS
<1> PICK r : r = [fibers[f] EXCEPT !.phase = "loading", !.failed = None] OBVIOUS
<1>2. /\ fibers[f] \in FiberRecords /\ stack # <<>> /\ stack[1] = Top /\ stack[1].at = "load"
      /\ Len(stack) \in Nat \ {0} /\ f \in 1 .. (uids - 1) /\ f \in Fibers
      /\ TopHolds(stack, fibers, effects) /\ Proper(stack[1], uids) /\ stack \in Seq(CallFrames)
  BY <1>1, TopFiber, TopOf, NotRoot
<1>3. stack[1].at \notin LoopLabels \cup {"finalize"} /\ stack[1].at \in LoadLabels
  BY <1>2 DEF LoopLabels, LoadLabels
<1>4. FiberHolds(f, stack, fibers, effects) BY <1>2 DEF FiberInv, Stands
<1>5. e \in SUBSET Epochs /\ e # None
  <2>1. Top \in [at : EpochLabels, f : Fibers, epoch : SUBSET Epochs, pc : Nat] BY <1>1, TopEpoch
  <2> QED BY <1>2, <2>1 DEF Proper
<1>6. fibers[f].loaded = None /\ ~fibers[f].disposed BY <1>2 DEF TopHolds
<1>7. /\ r \in FiberRecords /\ r.plugin = fibers[f].plugin /\ r.parent = fibers[f].parent
      /\ r.phase = "loading" /\ r.loaded = None /\ ~r.disposed /\ r.disposed = fibers[f].disposed
      /\ r.asked = fibers[f].asked /\ r.reconciling = fibers[f].reconciling
  BY <1>2, <1>6 DEF FiberRecords, None
<1>8. fibers' = [fibers EXCEPT ![f] = r] BY <1>2 DEF Load, FiberInv, FiberTypes
<1>9. fibers'[f] = r /\ \A g \in Fibers : g # f => fibers'[g] = fibers[g]
  BY <1>2, <1>8 DEF FiberInv, FiberTypes
<1>10. \/ /\ effects' = [effects EXCEPT ![f] = Append(@, Apply0)]
          /\ stack' = <<EpochFrame("apply", f, e)>> \o Tail(stack)
       \/ effects' = effects /\ stack' = <<Raised>> \o Tail(stack)
  BY DEF Load, Then
<1>11. Apply0 \in EffectRecords BY DEF Apply0, EffectRecords
<1>12. /\ effects' \in [Fibers -> Seq(EffectRecords)]
       /\ \A g \in Fibers : g # f => effects'[g] = effects[g]
       /\ \A g \in Fibers : \A y : Lists(effects[g], y) => Lists(effects'[g], y)
       /\ \A g \in Fibers : \A y : Lists(effects'[g], y) => y = Apply0 \/ Lists(effects[g], y)
  <2>1. CASE effects' = effects BY <2>1 DEF FiberInv, FiberTypes
  <2>2. CASE effects' = [effects EXCEPT ![f] = Append(@, Apply0)]
    BY <1>2, <1>11, <2>2, EffectsGrow
  <2> QED BY <1>10, <2>1, <2>2
<1>13. FiberTypes' /\ Created' /\ Registered'
  <2>1. FiberTypes' BY <1>1, <1>2, <1>7, <1>8, <1>12 DEF FiberInv, FiberTypes
  <2>2. Created'
    <3>1. ASSUME NEW g \in Fibers
          PROVE  /\ IF g \in 1 .. (uids' - 1) THEN fibers'[g].plugin \in Plugins
                    ELSE g # Root => fibers'[g].disposed
                 /\ fibers'[g].parent \in 0 .. (uids' - 1)
      <4>1. IF g \in 1 .. (uids - 1) THEN fibers[g].plugin \in Plugins ELSE g # Root => fibers[g].disposed
        BY DEF FiberInv, Created
      <4>2. fibers[g].parent \in 0 .. (uids - 1) BY DEF FiberInv, Created
      <4>3. uids' = uids BY <1>1
      <4>4. /\ fibers'[g].plugin = fibers[g].plugin /\ fibers'[g].parent = fibers[g].parent
            /\ fibers'[g].disposed = fibers[g].disposed
        <5>1. CASE g = f BY <1>7, <1>9, <5>1
        <5>2. CASE g # f BY <1>9, <5>2
        <5> QED BY <5>1, <5>2
      <4> QED BY ONLY <4>1, <4>2, <4>3, <4>4
    <3>2. ASSUME NEW g \in Fibers, NEW i \in 1 .. Len(effects'[g]), effects'[g][i].kind = "child"
          PROVE  effects'[g][i].id \in 1 .. (uids' - 1)
      <4> PICK y : y = effects'[g][i] OBVIOUS
      <4>1. Lists(effects'[g], y) BY DEF Lists
      <4>2. y # Apply0 BY <3>2 DEF Apply0
      <4>3. Lists(effects[g], y) BY <1>12, <4>1, <4>2
      <4>4. PICK j \in 1 .. Len(effects[g]) : effects[g][j] = y BY <4>3 DEF Lists
      <4>5. effects[g][j].kind = "child" BY <3>2, <4>4
      <4> QED BY <1>1, <4>4, <4>5 DEF FiberInv, Created
    <3>3. Root \in Fibers /\ Root # f
      BY <1>2 DEF Root, Fibers, FiberAssumption
    <3>4. fibers'[Root].loaded # None /\ ~fibers'[Root].disposed /\ ~fibers'[Root].asked
      BY <1>9, <3>3 DEF FiberInv, Created
    <3> QED BY <1>1, <3>1, <3>2, <3>4 DEF FiberInv, Created
  <2>3. Registered'
    <3>1. \A n \in Services : impls[n].owner \in Fibers BY DEF FiberInv, FiberTypes
    <3> QED BY <1>1, <1>12, <3>1 DEF FiberInv, Registered
  <2> QED BY <2>1, <2>2, <2>3
<1>14. OldFrames(stack, 1, f, fibers')
  <2>1. ASSUME NEW j \in 2 .. Len(stack), stack[j].f = f,
               stack[j].at \in LoopLabels \cup LoadLabels \cup UndoLabels
        PROVE  FrameHolds(stack[j], fibers')
    <3>1. FrameHolds(stack[j], fibers) BY Rest
    <3>2. stack[j].at \notin LoadLabels BY <1>2, <1>3, <2>1, OtherLoads
    <3>3. stack[j].at \notin UndoLabels BY <1>6, <2>1, <3>1 DEF FrameHolds
    <3>4. fibers'[f].reconciling = fibers[f].reconciling BY <1>7, <1>9
    <3> QED BY <2>1, <3>1, <3>2, <3>3, <3>4 DEF FrameHolds, LoadLabels
  <2> QED BY <2>1, RestHolds
<1>15. \A g \in 0 .. (uids - 1) : g # f => fibers'[g] = fibers[g]
  BY <1>9 DEF FiberInv, FiberTypes, Fibers, FiberAssumption
<1>16. \A j \in 2 .. Len(stack) : FrameHolds(stack[j], fibers')
  <2>1. 1 + 1 = 2 /\ 1 \in Nat OBVIOUS
  <2> QED BY <1>14, <1>15, <2>1, RestKeeps
<1>17. PICK a \in CallFrames :
          /\ stack' = <<a>> \o Tail(stack) /\ Proper(a, uids) /\ a.at \in {"apply", "raised"}
          /\ a.at = "apply" => a.f = f
  <2>1. CASE stack' = <<EpochFrame("apply", f, e)>> \o Tail(stack)
    <3> PICK a : a = EpochFrame("apply", f, e) OBVIOUS
    <3>1. a \in CallFrames /\ Proper(a, uids) /\ a.at = "apply" /\ a.f = f
      BY <1>2, <1>5, EpochCall DEF EpochLabels
    <3>2. stack' = <<a>> \o Tail(stack) BY <2>1
    <3> QED BY <3>1, <3>2
  <2>2. CASE stack' = <<Raised>> \o Tail(stack)
    <3> PICK a : a = Raised OBVIOUS
    <3>1. a \in CallFrames /\ a.at = "raised" BY OtherFrames
    <3>2. Proper(a, uids) BY <3>1 DEF Proper, FiberLabels, EpochLabels, RootLabels
    <3>3. stack' = <<a>> \o Tail(stack) BY <2>2
    <3> QED BY <3>1, <3>2, <3>3
  <2> QED BY <1>10, <2>1, <2>2
<1>18. a.at \notin LoopLabels \cup UndoLabels \cup EmptyLabels \cup {"finalize", "load", "unload", "rolledback"}
  BY <1>17 DEF LoopLabels, UndoLabels, EmptyLabels
<1>19. New(a, stack, 1) BY <1>18, NewPlain
<1>20. FrameHolds(a, fibers') BY <1>7, <1>9, <1>17, <1>18 DEF FrameHolds
<1>21. 1 # Len(stack) /\ Len(stack) > 1 /\ Fits(stack[1], stack[2])
  <2>1. stack[Len(stack)].at \notin LoadLabels BY <1>2 DEF FiberInv, Stands, StackHolds
  <2>2. 1 # Len(stack) BY <1>3, <2>1
  <2>4. Len(stack) \in Nat \ {0} BY <1>2
  <2> PICK n : n = Len(stack) OBVIOUS
  <2>5. n \in Nat \ {0} /\ n # 1 BY <2>2, <2>4
  <2>6. n > 1 BY ONLY <2>5
  <2>3. Len(stack) > 1 BY <2>6
  <2> QED BY <2>2, <2>3, Beneath
<1>22. stack[2].at = "again" /\ stack[2].f = f BY <1>2, <1>3, <1>21 DEF Fits
<1>23. Above(a, stack, 1)
  <2>1. 1 + 1 = 2 OBVIOUS
  <2>2. Fits(a, stack[2]) BY <1>17, <1>22 DEF Fits, TopLabels, EmptyLabels, LoadLabels
  <2> QED BY <1>21, <2>1, <2>2 DEF Above
<1>24. Turns(stack, stack', 1, 1) /\ stack'[1] = a BY <1>2, <1>17, Turned
<1>25. TopHolds(stack', fibers', effects')
  <2>1. 2 \in (1 + 1) .. Len(stack) /\ 2 - 1 + 1 = 2
    <3> PICK n : n = Len(stack) OBVIOUS
    <3>1. n \in Nat \ {0} /\ n > 1 BY <1>2, <1>21
    <3>2. 2 \in (1 + 1) .. n BY ONLY <3>1
    <3> QED BY <3>2
  <2>2. stack'[2] = stack[2] BY <1>24, <2>1 DEF Turns, Follows
  <2> QED BY <1>18, <1>22, <1>24, <2>2 DEF TopHolds
<1>26. ASSUME NEW g \in Fibers PROVE FiberHolds(g, stack', fibers', effects')
  <2>1. FiberHolds(g, stack, fibers, effects) BY DEF FiberInv, Stands
  <2>2. fibers[g].parent \in Fibers BY DEF FiberInv, FiberTypes, FiberRecords
  <2>3. Lists(effects[fibers[g].parent], ChildOf(g)) => Lists(effects'[fibers[g].parent], ChildOf(g))
    BY <1>12, <2>2
  <2>4. \A i \in 1 .. 1 : stack'[i] = a /\ stack[i] = Top BY <1>2, <1>24
  <2>5. CASE g # f
    <3>1. Passes(stack, stack', 1, 1, g)
      BY <1>2, <1>3, <1>18, <2>4 DEF Passes, On
    <3>2. Alike(fibers[g], fibers'[g]) /\ fibers'[g] = fibers[g] BY <1>9, <2>5 DEF Alike
    <3>3. effects'[g] # <<>> => effects[g] # <<>> BY <1>12, <2>5
    <3> QED BY <1>24, <2>1, <2>3, <3>1, <3>2, <3>3, Bystander
  <2>6. CASE g = f
    <3>1. \A i \in 1 .. 1 : stack[i].at \notin LoopLabels \cup {"finalize"} BY <1>3
    <3>2. fibers'[f].asked => ~fibers'[f].disposed /\ Leaving(f, stack', fibers')
      BY <1>7, <1>9 DEF Leaving
    <3>3. ~On(stack, "dispose", f) /\ ~Stuck(f, stack, fibers) BY <1>2, <1>6 DEF On, Stuck
    <3>4. /\ fibers'[f].parent = fibers[f].parent /\ fibers'[f].disposed = fibers[f].disposed
          /\ fibers'[f].reconciling => fibers[f].reconciling
          /\ fibers[f].asked => fibers'[f].asked
          /\ fibers'[f].phase # "none" /\ ~fibers'[f].disposed
      BY <1>7, <1>9
    <3> QED BY <1>2, <1>24, <2>3, <2>6, <3>1, <3>2, <3>3, <3>4, OwnAlso
  <2> QED BY <2>5, <2>6
<1>27. \A i \in 1 .. 1 : stack'[i] = a BY <1>24
<1>28. uids' = uids /\ uids <= uids' BY <1>1 DEF FiberInv, FiberTypes
<1>29. 1 + 1 = 2 /\ 1 \in 0 .. 2 OBVIOUS
<1> QED BY <1>13, <1>16, <1>19, <1>20, <1>17, <1>23, <1>24, <1>25, <1>26, <1>27, <1>28, <1>29, FullStep

LEMMA GrowHolds ==
    ASSUME FiberInv, NEW f \in Fibers, NEW e \in EffectRecords,
           effects' = [effects EXCEPT ![f] = Append(@, e)],
           NEW k, NEW n, Turns(stack, stack', k, n),
           \A i \in 1 .. k : stack[i].at \notin LoopLabels \cup {"finalize"},
           \A i \in 1 .. n : stack'[i].at \notin UndoLabels,
           stack # <<>> => stack[1].at \notin {"unload", "dispose"},
           ~fibers[f].disposed, fibers[f].phase # "none" \/ fibers[f].loaded # None,
           NEW g \in Fibers, fibers'[g] = fibers[g]
    PROVE  FiberHolds(g, stack', fibers', effects')
<1>1. FiberHolds(g, stack, fibers, effects) BY DEF FiberInv, Stands
<1>2. fibers[g].parent \in Fibers BY DEF FiberInv, FiberTypes, FiberRecords
<1>3. Lists(effects[fibers[g].parent], ChildOf(g)) => Lists(effects'[fibers[g].parent], ChildOf(g))
  BY <1>2, EffectsGrow
<1>4. Alike(fibers[g], fibers'[g]) BY DEF Alike
<1>5. ~On(stack, "unload", g) /\ ~On(stack, "dispose", g) BY DEF On
<1>6. In(stack, LoopLabels, g) => In(stack', LoopLabels, g) BY Stays
<1>7. In(stack, {"finalize"}, g) => In(stack', {"finalize"}, g) BY Stays
<1>8. In(stack', UndoLabels, g) => In(stack, UndoLabels, g) BY Was
<1>9. Leaving(g, stack, fibers) => Leaving(g, stack', fibers')
  BY <1>5, <1>7, <1>8 DEF Leaving, Stuck
<1>10. effects'[g] # <<>> => ~fibers[g].disposed /\ (fibers[g].phase # "none" \/ fibers[g].loaded # None)
  <2>1. CASE g = f BY <2>1
  <2>2. CASE g # f
    <3>1. effects'[g] = effects[g] BY <2>2, EffectsGrow
    <3> QED BY <1>1, <3>1 DEF FiberHolds
  <2> QED BY <2>1, <2>2
<1> QED BY <1>1, <1>3, <1>5, <1>6, <1>9, <1>10 DEF FiberHolds

LEMMA RegisterTypes ==
    ASSUME FiberAssumption, FiberInv, NEW f \in 0 .. (uids - 1), NEW n \in Services, Register(f, n),
           calls' \in 0 .. MaxCalls
    PROVE  /\ FiberTypes' /\ Created' /\ Registered'
           /\ f \in Fibers /\ ServiceOf(serial) \in EffectRecords /\ uids' = uids /\ fibers' = fibers
           /\ effects' = [effects EXCEPT ![f] = Append(@, ServiceOf(serial))]
<1> PICK e : e = ServiceOf(serial) OBVIOUS
<1>1. /\ impls' = [impls EXCEPT ![n] = [owner |-> f, serial |-> serial]]
      /\ serial' = serial + 1 /\ effects' = [effects EXCEPT ![f] = Append(@, e)]
      /\ UNCHANGED <<fibers, live, uids>>
  BY DEF Register, NextSerial
<1>2. f \in Fibers /\ serial \in Nat \ {0} BY DEF FiberInv, FiberTypes, Fibers, FiberAssumption
<1>3. e \in EffectRecords /\ e.kind # "child" BY <1>2 DEF ServiceOf, EffectRecords
<1>4. /\ effects' \in [Fibers -> Seq(EffectRecords)]
      /\ \A g \in Fibers : \A y : Lists(effects[g], y) => Lists(effects'[g], y)
      /\ Lists(effects'[f], e)
      /\ \A g \in Fibers : \A y : Lists(effects'[g], y) => y = e \/ Lists(effects[g], y)
  BY <1>1, <1>2, <1>3, EffectsGrow
<1>5. impls \in [Services -> [owner : Fibers, serial : Nat]] BY DEF FiberInv, FiberTypes
<1>6. \A m \in Services : impls'[m] = IF m = n THEN [owner |-> f, serial |-> serial] ELSE impls[m]
  BY <1>1, <1>5
<1>7. FiberTypes'
  <2>1. [owner |-> f, serial |-> serial] \in [owner : Fibers, serial : Nat] BY <1>2
  <2>2. impls' \in [Services -> [owner : Fibers, serial : Nat]] BY <1>1, <1>5, <2>1
  <2>3. serial' \in Nat \ {0} BY <1>1, <1>2
  <2> QED BY <1>1, <1>4, <2>2, <2>3 DEF FiberInv, FiberTypes
<1>8. Created'
  <2>1. ASSUME NEW m \in Services PROVE impls'[m].owner \in 0 .. (uids' - 1) /\ impls'[m].serial < serial'
    <3>1. impls[m].owner \in 0 .. (uids - 1) /\ impls[m].serial < serial /\ impls[m].serial \in Nat
      BY <1>5 DEF FiberInv, Created
    <3> QED BY <1>1, <1>2, <1>6, <3>1
  <2>2. ASSUME NEW g \in Fibers, NEW i \in 1 .. Len(effects'[g]), effects'[g][i].kind = "child"
        PROVE  effects'[g][i].id \in 1 .. (uids' - 1)
    <3> PICK y : y = effects'[g][i] OBVIOUS
    <3>1. Lists(effects'[g], y) BY DEF Lists
    <3>2. y # e BY <1>3, <2>2
    <3>3. Lists(effects[g], y) BY <1>4, <3>1, <3>2
    <3>4. PICK j \in 1 .. Len(effects[g]) : effects[g][j] = y BY <3>3 DEF Lists
    <3>5. effects[g][j].kind = "child" BY <2>2, <3>4
    <3> QED BY <1>1, <3>4, <3>5 DEF FiberInv, Created
  <2> QED BY <1>1, <2>1, <2>2 DEF FiberInv, Created
<1>9. Registered'
  <2>1. ASSUME NEW m \in Services, impls'[m].serial # 0
        PROVE  Lists(effects'[impls'[m].owner], ServiceOf(impls'[m].serial))
    <3>1. CASE m = n BY <1>4, <1>6, <3>1
    <3>2. CASE m # n
      <4>1. impls'[m] = impls[m] /\ impls[m].owner \in Fibers BY <1>5, <1>6, <3>2
      <4>2. Lists(effects[impls[m].owner], ServiceOf(impls[m].serial))
        BY <2>1, <4>1 DEF FiberInv, Registered
      <4> QED BY <1>4, <4>1, <4>2
    <3> QED BY <3>1, <3>2
  <2> QED BY <2>1 DEF Registered
<1> QED BY <1>1, <1>2, <1>3, <1>7, <1>8, <1>9

\* What stands beneath a load stands beneath the calls that take its place.
LEMMA AboveLoad ==
    ASSUME FiberInv, NEW l \in LoadLabels, At(l), NEW a, a.at \in LoadLabels, a.f = Top.f
    PROVE  Above(a, stack, 1) /\ Len(stack) > 1
<1>1. stack[1].at = l /\ Len(stack) \in Nat \ {0} /\ stack[1] = Top /\ stack # <<>> BY TopOf
<1>2. stack[Len(stack)].at \notin LoadLabels BY <1>1 DEF FiberInv, Stands, StackHolds
<1> PICK n : n = Len(stack) OBVIOUS
<1>3. n \in Nat \ {0} /\ n # 1 BY <1>1, <1>2
<1>4. n > 1 BY ONLY <1>3
<1>5. Len(stack) > 1 /\ 1 # Len(stack) /\ 1 + 1 = 2 BY <1>4
<1>6. Fits(a, stack[2]) BY <1>1, <1>5, Beneath DEF Fits, LoadLabels, TopLabels, EmptyLabels
<1> QED BY <1>5, <1>6 DEF Above

LEMMA PastCall ==
    ASSUME FiberAssumption, FiberInv, At("apply")
    PROVE  /\ Past \in CallFrames /\ Proper(Past, uids) /\ Past.at = "apply" /\ Past.f = Top.f
           /\ FrameHolds(Past, fibers) /\ Top.pc \in Nat \ {0}
           /\ Top.f \in 1 .. (uids - 1) /\ Top.f \in Fibers /\ fibers[Top.f].plugin \in Plugins
           /\ fibers[Top.f].phase = "loading" /\ ~fibers[Top.f].disposed
<1> PICK b : b = Past OBVIOUS
<1>1. Top \in [at : EpochLabels, f : Fibers, epoch : SUBSET Epochs, pc : Nat] BY TopEpoch DEF EpochLabels
<1>2. /\ Top = stack[1] /\ stack[1].at = "apply" /\ Proper(stack[1], uids) /\ FrameHolds(stack[1], fibers)
  BY TopOf
<1>3. b = [Top EXCEPT !.pc = @ + 1] BY DEF Past
<1>4. /\ b \in [at : EpochLabels, f : Fibers, epoch : SUBSET Epochs, pc : Nat]
      /\ b.at = "apply" /\ b.f = Top.f /\ b.epoch = Top.epoch /\ b.pc = Top.pc + 1
  BY <1>1, <1>2, <1>3
<1>5. Top.pc \in Nat /\ Top.pc # 0 /\ Top.epoch # None BY <1>1, <1>2 DEF Proper
<1>6. Top.f \in 1 .. (uids - 1) BY NotRoot DEF EpochLabels
<1>7. b.pc # 0 BY <1>4, <1>5
<1>8. Proper(b, uids) BY <1>4, <1>5, <1>6, <1>7 DEF Proper, RootLabels, FiberLabels
<1>9. FrameHolds(b, fibers) BY <1>2, <1>4 DEF FrameHolds
<1>10. b \in CallFrames BY <1>4 DEF CallFrames
<1>11. Top.f \in Fibers /\ fibers[Top.f].plugin \in Plugins
  BY <1>1, <1>6 DEF FiberInv, Created
<1>12. fibers[Top.f].phase = "loading" /\ ~fibers[Top.f].disposed BY <1>2 DEF FrameHolds
<1> QED BY <1>4, <1>5, <1>6, <1>8, <1>9, <1>10, <1>11, <1>12

LEMMA OldSame ==
    ASSUME FiberInv, \A g \in 0 .. (uids - 1) : fibers'[g] = fibers[g], NEW k \in Nat,
           NEW j \in (k + 1) .. Len(stack)
    PROVE  FrameHolds(stack[j], fibers')
<1>1. j \in 1 .. Len(stack) BY LenProperties DEF FiberInv, Stands, StackHolds
<1>2. Proper(stack[j], uids) /\ FrameHolds(stack[j], fibers) BY <1>1 DEF FiberInv, Stands, StackHolds
<1>3. uids \in Nat BY DEF FiberInv, FiberTypes
<1>4. CASE stack[j].at \in FiberLabels \cup EpochLabels
  <2>1. stack[j].f \in 0 .. (uids - 1) BY <1>2, <1>3, <1>4 DEF Proper
  <2> QED BY <1>2, <2>1 DEF FrameHolds
<1>5. CASE stack[j].at \notin FiberLabels \cup EpochLabels
  BY <1>5 DEF FrameHolds, LoopLabels, UndoLabels, FiberLabels, EpochLabels
<1> QED BY <1>4, <1>5

\* A step that gives a fiber one more effect.
LEMMA GrowStep ==
    ASSUME FiberAssumption, FiberInv, FiberTypes', Created', Registered', uids <= uids',
           NEW f \in Fibers, NEW e \in EffectRecords, effects' = [effects EXCEPT ![f] = Append(@, e)],
           ~fibers[f].disposed, fibers[f].phase # "none" \/ fibers[f].loaded # None,
           \A g \in 0 .. (uids - 1) : fibers'[g] = fibers[g],
           NEW k \in 0 .. 1, NEW n, Turns(stack, stack', k, n), n \in 1 .. 2,
           stack # <<>> => stack[1].at \in {"apply"},
           \A i \in 1 .. n : Proper(stack'[i], uids') /\ FrameHolds(stack'[i], fibers'),
           \A i \in 1 .. n : stack'[i].at \in {"notify", "reconcile", "apply"},
           stack'[1].at # "apply", Above(stack'[n], stack, k),
           n = 2 => Fits(stack'[1], stack'[2]),
           \A g \in Fibers : fibers'[g] = fibers[g] \/ FiberHolds(g, stack', fibers', effects')
    PROVE  FiberInv'
<1>1. \A i \in 1 .. n : stack'[i].at \notin LoopLabels \cup UndoLabels BY DEF LoopLabels, UndoLabels
<1>2. \A i \in 1 .. n : New(stack'[i], stack, k) BY <1>1, NewPlain
<1>3. \A i \in 1 .. k : stack[i].at \notin LoopLabels \cup {"finalize"}
  <2>1. \A i \in 1 .. k : i = 1 /\ k = 1 OBVIOUS
  <2>2. k = 1 => stack # <<>> BY DEF Turns
  <2> QED BY <2>1, <2>2 DEF LoopLabels
<1>4. k \in Nat /\ n # 0 /\ n \in 0 .. 2 OBVIOUS
<1>5. \A j \in (k + 1) .. Len(stack) : FrameHolds(stack[j], fibers') BY <1>4, OldSame
<1>6. 1 \in 1 .. n /\ (n = 2 => 2 \in 1 .. n) OBVIOUS
<1>7. n = 2 => Kind(stack'[1], stack'[2], LoopLabels) /\ Kind(stack'[1], stack'[2], UndoLabels)
  BY <1>1, <1>6 DEF Kind
<1>8. TopHolds(stack', fibers', effects')
  <2>1. stack'[1].at \in {"notify", "reconcile"} BY <1>6
  <2> QED BY <2>1, TopPlain DEF EmptyLabels
<1>9. \A g \in Fibers : FiberHolds(g, stack', fibers', effects')
  <2>1. stack # <<>> => stack[1].at \notin {"unload", "dispose"} OBVIOUS
  <2>2. \A i \in 1 .. n : stack'[i].at \notin UndoLabels BY <1>1
  <2>3. ASSUME NEW g \in Fibers, fibers'[g] = fibers[g] PROVE FiberHolds(g, stack', fibers', effects')
    BY <1>3, <2>1, <2>2, <2>3, GrowHolds
  <2> QED BY <2>3
<1> QED BY <1>2, <1>4, <1>5, <1>7, <1>8, <1>9, FullStep

LEMMA ApplyProvidesHolds ==
    ASSUME FiberAssumption, FiberInv, ApplyProvides
    PROVE  FiberInv'
<1>1. At("apply") /\ Top.pc <= Len(Script[fibers[Top.f].plugin]) /\ Op.op = "provide" /\ calls' = calls
  BY DEF ApplyProvides, Running
<1> PICK f : f = Top.f OBVIOUS
<1> PICK n : n = Op.arg OBVIOUS
<1> PICK b : b = Past OBVIOUS
<1> PICK a : a = NotifyFrame({n}) OBVIOUS
<1>2. CASE stack' = <<Raised>> \o stack /\ UNCHANGED <<fibers, table>>
  BY <1>1, <1>2, Raises
<1>3. CASE Register(f, n) /\ stack' = <<a, b>> \o Tail(stack)
  <2>1. /\ b \in CallFrames /\ Proper(b, uids) /\ b.at = "apply" /\ b.f = f
        /\ FrameHolds(b, fibers) /\ Top.pc \in Nat \ {0}
        /\ f \in 1 .. (uids - 1) /\ f \in Fibers /\ fibers[f].plugin \in Plugins
        /\ fibers[f].phase = "loading" /\ ~fibers[f].disposed
    BY <1>1, PastCall
  <2>2. n \in Services
    <3> PICK p : p = fibers[f].plugin OBVIOUS
    <3>1. p \in Plugins /\ Top.pc \in 1 .. Len(Script[p]) BY <1>1, <2>1 DEF FiberAssumption
    <3>2. Script[p][Top.pc].op = "provide" => Script[p][Top.pc].arg \in Services BY <3>1 DEF FiberAssumption
    <3>3. Op = Script[p][Top.pc] BY DEF Op
    <3> QED BY <1>1, <3>2, <3>3
  <2>3. f \in 0 .. (uids - 1) /\ calls' \in 0 .. MaxCalls BY <1>1, <2>1 DEF FiberInv, FiberTypes
  <2>4. /\ FiberTypes' /\ Created' /\ Registered' /\ uids' = uids /\ fibers' = fibers
        /\ ServiceOf(serial) \in EffectRecords
        /\ effects' = [effects EXCEPT ![f] = Append(@, ServiceOf(serial))]
    BY <1>3, <2>2, <2>3, RegisterTypes
  <2>5. a \in CallFrames /\ a.at = "notify" /\ Proper(a, uids) BY <2>2, Notifies DEF FiberInv
  <2>6. /\ stack # <<>> /\ Len(stack) \in Nat \ {0} /\ stack \in Seq(CallFrames)
        /\ stack[1].at = "apply"
    BY <1>1, TopOf
  <2>7. Above(b, stack, 1) BY <1>1, <2>1, AboveLoad DEF LoadLabels
  <2> PICK t : t = stack' OBVIOUS
  <2>8. Twice(stack, t, a, b) BY <1>3 DEF Twice
  <2>9. Turns(stack, stack', 1, 2) /\ stack'[1] = a /\ stack'[2] = b
    BY <2>1, <2>5, <2>6, <2>8, TurnedTwice
  <2>10. FrameHolds(a, fibers') BY <2>5, FramePlain DEF LoopLabels, LoadLabels, UndoLabels
  <2>11. Fits(a, b) BY <2>1, <2>5 DEF Fits, TopLabels, EmptyLabels, LoadLabels
  <2>12. \A i \in 1 .. 2 : stack'[i] = a \/ stack'[i] = b BY <2>9
  <2>13. \A i \in 1 .. 2 : Proper(stack'[i], uids') /\ FrameHolds(stack'[i], fibers')
    BY <2>1, <2>4, <2>5, <2>10, <2>12
  <2>14. \A i \in 1 .. 2 : stack'[i].at \in {"notify", "reconcile", "apply"} BY <2>1, <2>5, <2>12
  <2>15. stack'[1].at # "apply" /\ Above(stack'[2], stack, 1) /\ Fits(stack'[1], stack'[2])
    BY <2>5, <2>7, <2>9, <2>11
  <2>16. 1 \in 0 .. 1 /\ 2 \in 1 .. 2 /\ uids <= uids' /\ fibers[f].phase # "none"
    BY <2>1, <2>4 DEF FiberInv, FiberTypes
  <2>17. \A g \in Fibers : fibers'[g] = fibers[g] BY <2>4
  <2>18. \A g \in 0 .. (uids - 1) : fibers'[g] = fibers[g] BY <2>4
  <2> QED BY <2>1, <2>4, <2>6, <2>9, <2>13, <2>14, <2>15, <2>16, <2>17, <2>18, GrowStep
<1> QED BY <1>2, <1>3 DEF ApplyProvides, Then, Enter

LEMMA CallProvideHolds ==
    ASSUME FiberAssumption, FiberInv, CallProvide
    PROVE  FiberInv'
<1> PICK n \in Services : Register(Root, n) /\ Enter(<<NotifyFrame({n})>>) BY DEF CallProvide
<1> PICK a : a = NotifyFrame({n}) OBVIOUS
<1>1. stack = <<>> /\ stack' = <<a>> \o stack BY DEF CallProvide, Idle, Enter
<1>2. calls' \in 0 .. MaxCalls BY DEF CallProvide, MayCall, FiberInv, FiberTypes, FiberAssumption
<1>3. Root \in 0 .. (uids - 1) /\ stack \in Seq(CallFrames)
  BY DEF Root, FiberInv, FiberTypes, Stands, StackHolds
<1>4. /\ FiberTypes' /\ Created' /\ Registered' /\ uids' = uids /\ fibers' = fibers /\ Root \in Fibers
      /\ ServiceOf(serial) \in EffectRecords
      /\ effects' = [effects EXCEPT ![Root] = Append(@, ServiceOf(serial))]
  BY <1>2, <1>3, RegisterTypes
<1>5. a \in CallFrames /\ a.at = "notify" /\ Proper(a, uids) BY Notifies DEF FiberInv
<1>6. Turns(stack, stack', 0, 1) /\ stack'[1] = a BY <1>1, <1>3, <1>5, Pushed
<1>7. FrameHolds(a, fibers') BY <1>5, FramePlain DEF LoopLabels, LoadLabels, UndoLabels
<1>8. Above(a, stack, 0) BY <1>1, <1>5, AboveCaller DEF MayEnter, LoadLabels
<1>9. \A i \in 1 .. 1 : stack'[i] = a BY <1>6
<1>10. \A i \in 1 .. 1 : Proper(stack'[i], uids') /\ FrameHolds(stack'[i], fibers')
  BY <1>4, <1>5, <1>7, <1>9
<1>11. \A i \in 1 .. 1 : stack'[i].at \in {"notify", "reconcile", "apply"} BY <1>5, <1>9
<1>12. stack'[1].at # "apply" /\ Above(stack'[1], stack, 0) BY <1>5, <1>6, <1>8
<1>13. 0 \in 0 .. 1 /\ 1 \in 1 .. 2 /\ 1 # 2 /\ uids <= uids' BY <1>4 DEF FiberInv, FiberTypes
<1>14. ~fibers[Root].disposed /\ fibers[Root].loaded # None BY DEF FiberInv, Created
<1>15. \A g \in Fibers : fibers'[g] = fibers[g] BY <1>4
<1>16. \A g \in 0 .. (uids - 1) : fibers'[g] = fibers[g] BY <1>4
<1> QED BY <1>1, <1>4, <1>6, <1>10, <1>11, <1>12, <1>13, <1>14, <1>15, <1>16, GrowStep

LEMMA ProperGrows ==
    ASSUME NEW u \in Nat, NEW v \in Nat, u <= v, NEW a, Proper(a, u)
    PROVE  Proper(a, v)
<1>1. 0 .. (u - 1) \subseteq 0 .. (v - 1) /\ 1 .. (u - 1) \subseteq 1 .. (v - 1) OBVIOUS
<1> QED BY <1>1 DEF Proper

\* A new fiber: it is the next, it is in place, and its parent lists it.
LEMMA MountTypes ==
    ASSUME FiberAssumption, FiberInv, NEW f \in 0 .. (uids - 1), NEW p \in Plugins, Mount(f, p),
           calls' \in 0 .. MaxCalls
    PROVE  /\ FiberTypes' /\ Created' /\ Registered'
           /\ f \in Fibers /\ ChildOf(uids) \in EffectRecords /\ uids' = uids + 1 /\ uids \in Fibers
           /\ effects' = [effects EXCEPT ![f] = Append(@, ChildOf(uids))]
           /\ fibers'[uids] = NewFiber(p, f) /\ effects'[uids] = <<>> /\ uids # Root
           /\ \A g \in Fibers : g # uids => fibers'[g] = fibers[g]
           /\ Lists(effects'[f], ChildOf(uids))
<1> PICK u : u = uids OBVIOUS
<1> PICK e : e = ChildOf(u) OBVIOUS
<1> PICK r : r = NewFiber(p, f) OBVIOUS
<1>1. /\ u <= MaxFibers /\ fibers' = [fibers EXCEPT ![u] = r] /\ uids' = u + 1
      /\ live' = Append(live, u) /\ effects' = [effects EXCEPT ![f] = Append(@, e)]
      /\ UNCHANGED <<impls, serial>>
  BY DEF Mount
<1>2. u \in Nat \ {0} /\ u \in Fibers /\ f \in Fibers /\ f # u /\ u \notin 1 .. (u - 1) /\ u # Root
  <2>1. u \in 1 .. (MaxFibers + 1) /\ MaxFibers \in Nat BY DEF FiberInv, FiberTypes, FiberAssumption
  <2>2. u <= MaxFibers /\ f \in 0 .. (u - 1) BY <1>1
  <2> QED BY ONLY <2>1, <2>2 DEF Fibers, Root
<1>3. e \in EffectRecords /\ e.id = u BY <1>2 DEF ChildOf, EffectRecords
<1>4. /\ effects' \in [Fibers -> Seq(EffectRecords)]
      /\ \A g \in Fibers : g # f => effects'[g] = effects[g]
      /\ \A g \in Fibers : \A y : Lists(effects[g], y) => Lists(effects'[g], y)
      /\ Lists(effects'[f], e)
      /\ \A g \in Fibers : \A y : Lists(effects'[g], y) => y = e \/ Lists(effects[g], y)
  BY <1>1, <1>2, <1>3, EffectsGrow
<1>5. /\ r \in FiberRecords /\ r.plugin = p /\ r.parent = f
  BY <1>2 DEF NewFiber, FiberRecords, None
<1>6. fibers'[u] = r /\ \A g \in Fibers : g # u => fibers'[g] = fibers[g]
  BY <1>1, <1>2 DEF FiberInv, FiberTypes
<1>7. FiberTypes'
  <2>1. live' \in Seq(Fibers) BY <1>1, <1>2, AppendProperties DEF FiberInv, FiberTypes
  <2>2. uids' \in 1 .. (MaxFibers + 1) BY <1>1, <1>2 DEF FiberAssumption
  <2>3. fibers' \in [Fibers -> FiberRecords] BY <1>1, <1>2, <1>5 DEF FiberInv, FiberTypes
  <2> QED BY <1>1, <1>4, <2>1, <2>2, <2>3 DEF FiberInv, FiberTypes
<1>8. 0 .. (u - 1) \subseteq 0 .. (uids' - 1) /\ 1 .. (u - 1) \subseteq 1 .. (uids' - 1)
      /\ u \in 1 .. (uids' - 1) /\ f \in 0 .. (uids' - 1)
      /\ \A g \in 1 .. (uids' - 1) : g = u \/ g \in 1 .. (u - 1)
  BY <1>1, <1>2
<1>9. Created'
  <2>1. ASSUME NEW g \in Fibers
        PROVE  /\ IF g \in 1 .. (uids' - 1) THEN fibers'[g].plugin \in Plugins
                  ELSE g # Root => fibers'[g].disposed
               /\ fibers'[g].parent \in 0 .. (uids' - 1)
    <3>1. IF g \in 1 .. (u - 1) THEN fibers[g].plugin \in Plugins ELSE g # Root => fibers[g].disposed
      BY DEF FiberInv, Created
    <3>2. fibers[g].parent \in 0 .. (u - 1) BY DEF FiberInv, Created
    <3>3. CASE g = u BY <1>5, <1>6, <1>8, <3>3
    <3>4. CASE g # u
      <4>1. g \in 1 .. (uids' - 1) <=> g \in 1 .. (u - 1) BY <1>8, <3>4
      <4> QED BY <1>6, <1>8, <3>1, <3>2, <3>4, <4>1
    <3> QED BY <3>3, <3>4
  <2>2. ASSUME NEW n \in Services PROVE impls'[n].owner \in 0 .. (uids' - 1) /\ impls'[n].serial < serial'
    BY <1>1, <1>8 DEF FiberInv, Created
  <2>3. ASSUME NEW i \in 1 .. Len(live') PROVE live'[i] \in 1 .. (uids' - 1)
    <3>1. /\ Len(live') = Len(live) + 1 /\ Len(live) \in Nat /\ live'[Len(live) + 1] = u
          /\ \A k \in 1 .. Len(live) : live'[k] = live[k]
      BY <1>1, <1>2, AppendProperties, LenProperties DEF FiberInv, FiberTypes
    <3>2. \A k \in 1 .. Len(live) : live[k] \in 1 .. (u - 1) BY DEF FiberInv, Created
    <3>3. i \in 1 .. Len(live) \/ i = Len(live) + 1 BY <3>1
    <3>4. CASE i \in 1 .. Len(live) BY <1>8, <3>1, <3>2, <3>4
    <3>5. CASE i = Len(live) + 1 BY <1>8, <3>1, <3>5
    <3> QED BY <3>3, <3>4, <3>5
  <2>4. ASSUME NEW g \in Fibers, NEW i \in 1 .. Len(effects'[g]), effects'[g][i].kind = "child"
        PROVE  effects'[g][i].id \in 1 .. (uids' - 1)
    <3> PICK y : y = effects'[g][i] OBVIOUS
    <3>1. Lists(effects'[g], y) BY DEF Lists
    <3>2. CASE y = e BY <1>3, <1>8, <3>2
    <3>3. CASE y # e
      <4>1. Lists(effects[g], y) BY <1>4, <3>1, <3>3
      <4>2. PICK j \in 1 .. Len(effects[g]) : effects[g][j] = y BY <4>1 DEF Lists
      <4>3. effects[g][j].kind = "child" BY <2>4, <4>2
      <4>4. effects[g][j].id \in 1 .. (u - 1) BY <4>3 DEF FiberInv, Created
      <4> QED BY <1>8, <4>2, <4>4
    <3> QED BY <3>2, <3>3
  <2>5. fibers'[Root].loaded # None /\ ~fibers'[Root].disposed /\ ~fibers'[Root].asked
    <3>1. Root \in Fibers BY DEF Root, Fibers, FiberAssumption
    <3> QED BY <1>2, <1>6, <3>1 DEF FiberInv, Created
  <2> QED BY <2>1, <2>2, <2>3, <2>4, <2>5 DEF Created
<1>10. Registered'
  <2>1. \A n \in Services : impls[n].owner \in Fibers BY DEF FiberInv, FiberTypes
  <2> QED BY <1>1, <1>4, <2>1 DEF FiberInv, Registered
<1>11. effects'[u] = <<>>
  <2>1. fibers[u].disposed BY <1>2 DEF FiberInv, Created
  <2>2. FiberHolds(u, stack, fibers, effects) BY <1>2 DEF FiberInv, Stands
  <2>3. effects[u] = <<>> BY <2>1, <2>2 DEF FiberHolds
  <2> QED BY <1>2, <1>4, <2>3
<1> QED BY <1>1, <1>2, <1>3, <1>4, <1>6, <1>7, <1>9, <1>10, <1>11

LEMMA MountStep ==
    ASSUME FiberAssumption, FiberInv, NEW f \in 0 .. (uids - 1), NEW p \in Plugins, Mount(f, p),
           calls' \in 0 .. MaxCalls,
           ~fibers[f].disposed, fibers[f].phase # "none" \/ fibers[f].loaded # None,
           NEW k \in 0 .. 1, NEW n, Turns(stack, stack', k, n), n \in 1 .. 2,
           stack # <<>> => stack[1].at \in {"apply"},
           stack'[1] = Frame("reconcile", uids), Above(stack'[n], stack, k),
           n = 2 => Proper(stack'[2], uids) /\ FrameHolds(stack'[2], fibers) /\ stack'[2].at = "apply"
                      /\ stack'[2].f \in 1 .. (uids - 1)
    PROVE  FiberInv'
<1> PICK u : u = uids OBVIOUS
<1>1. /\ FiberTypes' /\ Created' /\ Registered'
      /\ f \in Fibers /\ ChildOf(u) \in EffectRecords /\ uids' = u + 1 /\ u \in Fibers
      /\ effects' = [effects EXCEPT ![f] = Append(@, ChildOf(u))]
      /\ fibers'[u] = NewFiber(p, f) /\ effects'[u] = <<>> /\ u # Root
      /\ \A g \in Fibers : g # u => fibers'[g] = fibers[g]
      /\ Lists(effects'[f], ChildOf(u))
  BY MountTypes
<1>2. u \in Nat \ {0} /\ u <= u + 1 /\ u + 1 \in Nat /\ u \in 1 .. (u + 1 - 1) /\ u \notin 0 .. (u - 1)
      /\ 1 .. (u - 1) \subseteq Fibers /\ 0 .. (u - 1) \subseteq Fibers /\ u \notin 1 .. (u - 1)
  <2>1. u \in 1 .. (MaxFibers + 1) /\ MaxFibers \in Nat BY DEF FiberInv, FiberTypes, FiberAssumption
  <2>2. u \in Nat \ {0} /\ u <= u + 1 /\ u + 1 \in Nat /\ u \in 1 .. (u + 1 - 1)
    BY <2>1
  <2>3. u \notin 0 .. (u - 1) /\ u \notin 1 .. (u - 1) BY <2>2
  <2>4. 1 .. (u - 1) \subseteq Fibers /\ 0 .. (u - 1) \subseteq Fibers BY <2>1 DEF Fibers
  <2> QED BY <2>2, <2>3, <2>4
<1>3. \A g \in 0 .. (uids - 1) : fibers'[g] = fibers[g] BY <1>1, <1>2
<1>4. Frame("reconcile", u).at = "reconcile" /\ Frame("reconcile", u).f = u
  BY <1>1, FiberFrame DEF FiberLabels
<1>5. Proper(stack'[1], uids') /\ FrameHolds(stack'[1], fibers') /\ stack'[1].at = "reconcile"
  <2>1. Proper(stack'[1], u + 1) BY <1>2, <1>4, ProperFiber DEF FiberLabels
  <2>2. FrameHolds(stack'[1], fibers') BY <1>4, FramePlain DEF LoopLabels, LoadLabels, UndoLabels
  <2> QED BY <1>1, <1>4, <2>1, <2>2
<1>6. n = 2 => Proper(stack'[2], uids') /\ FrameHolds(stack'[2], fibers') /\ Fits(stack'[1], stack'[2])
  <2>1. n = 2 => Proper(stack'[2], uids') BY <1>1, <1>2, ProperGrows
  <2>2. n = 2 => fibers'[stack'[2].f] = fibers[stack'[2].f] BY <1>1, <1>2
  <2>3. n = 2 => FrameHolds(stack'[2], fibers')
    BY <2>2 DEF FrameHolds, LoopLabels, UndoLabels
  <2>4. n = 2 => Fits(stack'[1], stack'[2]) BY <1>5 DEF Fits, TopLabels, EmptyLabels, LoadLabels
  <2> QED BY <2>1, <2>3, <2>4
<1>7. FiberHolds(u, stack', fibers', effects')
  <2>1. /\ ~fibers'[u].reconciling /\ ~fibers'[u].asked /\ fibers'[u].parent = f
    BY <1>1 DEF NewFiber
  <2> QED BY <1>1, <2>1 DEF FiberHolds
<1>8. \A i \in 1 .. n : i = 1 \/ (i = 2 /\ n = 2) OBVIOUS
<1>9. \A i \in 1 .. n : Proper(stack'[i], uids') /\ FrameHolds(stack'[i], fibers') BY <1>5, <1>6, <1>8
<1>10. \A i \in 1 .. n : stack'[i].at \in {"notify", "reconcile", "apply"} BY <1>5, <1>8
<1>11. \A g \in Fibers : fibers'[g] = fibers[g] \/ FiberHolds(g, stack', fibers', effects') BY <1>1, <1>7
<1>12. uids <= uids' BY <1>1, <1>2
<1> QED BY <1>1, <1>3, <1>5, <1>6, <1>9, <1>10, <1>11, <1>12, GrowStep

LEMMA ApplyMountsHolds ==
    ASSUME FiberAssumption, FiberInv, ApplyMounts
    PROVE  FiberInv'
<1>1. At("apply") /\ Top.pc <= Len(Script[fibers[Top.f].plugin]) /\ Op.op = "plugin" /\ calls' = calls
  BY DEF ApplyMounts, Running
<1> PICK f : f = Top.f OBVIOUS
<1> PICK q : q = Op.arg OBVIOUS
<1> PICK b : b = Past OBVIOUS
<1> PICK a : a = Frame("reconcile", uids) OBVIOUS
<1>2. Mount(f, q) /\ stack' = <<a, b>> \o Tail(stack) BY DEF ApplyMounts, Then
<1>3. /\ b \in CallFrames /\ Proper(b, uids) /\ b.at = "apply" /\ b.f = f
      /\ FrameHolds(b, fibers) /\ Top.pc \in Nat \ {0}
      /\ f \in 1 .. (uids - 1) /\ f \in Fibers /\ fibers[f].plugin \in Plugins
      /\ fibers[f].phase = "loading" /\ ~fibers[f].disposed
  BY <1>1, PastCall
<1>4. q \in Plugins
  <2> PICK p : p = fibers[f].plugin OBVIOUS
  <2>1. p \in Plugins /\ Top.pc \in 1 .. Len(Script[p]) BY <1>1, <1>3 DEF FiberAssumption
  <2>2. Script[p][Top.pc].op = "plugin" => Script[p][Top.pc].arg \in Plugins BY <2>1 DEF FiberAssumption
  <2>3. Op = Script[p][Top.pc] BY DEF Op
  <2> QED BY <1>1, <2>2, <2>3
<1>5. f \in 0 .. (uids - 1) /\ calls' \in 0 .. MaxCalls BY <1>1, <1>3 DEF FiberInv, FiberTypes
<1>6. /\ stack # <<>> /\ stack \in Seq(CallFrames) /\ stack[1].at = "apply"
  BY <1>1, TopOf
<1>7. Above(b, stack, 1) BY <1>1, <1>3, AboveLoad DEF LoadLabels
<1>8. a \in CallFrames
  <2>1. uids \in Fibers BY <1>2 DEF Mount, FiberInv, FiberTypes, Fibers, FiberAssumption
  <2> QED BY <2>1, FiberFrame DEF FiberLabels
<1> PICK t : t = stack' OBVIOUS
<1>9. Twice(stack, t, a, b) BY <1>2 DEF Twice
<1>10. Turns(stack, stack', 1, 2) /\ stack'[1] = a /\ stack'[2] = b
  BY <1>3, <1>6, <1>8, <1>9, TurnedTwice
<1>11. 1 \in 0 .. 1 /\ 2 \in 1 .. 2 /\ fibers[f].phase # "none" BY <1>3
<1>12. Above(stack'[2], stack, 1) BY <1>7, <1>10
<1>13. Proper(stack'[2], uids) /\ FrameHolds(stack'[2], fibers) /\ stack'[2].at = "apply"
       /\ stack'[2].f \in 1 .. (uids - 1)
  BY <1>3, <1>10
<1> QED BY <1>2, <1>3, <1>4, <1>5, <1>6, <1>10, <1>11, <1>12, <1>13, MountStep

LEMMA CallMountHolds ==
    ASSUME FiberAssumption, FiberInv, CallMount
    PROVE  FiberInv'
<1> PICK q \in Offered : Mount(Root, q) BY DEF CallMount
<1> PICK a : a = Frame("reconcile", uids) OBVIOUS
<1>1. stack = <<>> /\ stack' = <<a>> \o stack /\ q \in Plugins
  BY DEF CallMount, Idle, Enter, FiberAssumption
<1>2. calls' \in 0 .. MaxCalls BY DEF CallMount, MayCall, FiberInv, FiberTypes, FiberAssumption
<1>3. Root \in 0 .. (uids - 1) /\ stack \in Seq(CallFrames)
  BY DEF Root, FiberInv, FiberTypes, Stands, StackHolds
<1>4. a \in CallFrames /\ a.at = "reconcile"
  <2>1. uids \in Fibers BY DEF Mount, FiberInv, FiberTypes, Fibers, FiberAssumption
  <2> QED BY <2>1, FiberFrame DEF FiberLabels
<1>5. Turns(stack, stack', 0, 1) /\ stack'[1] = a BY <1>1, <1>3, <1>4, Pushed
<1>6. Above(a, stack, 0) BY <1>1, <1>4, AboveCaller DEF MayEnter, LoadLabels
<1>7. Above(stack'[1], stack, 0) BY <1>5, <1>6
<1>8. 0 \in 0 .. 1 /\ 1 \in 1 .. 2 /\ 1 # 2 OBVIOUS
<1>9. ~fibers[Root].disposed /\ fibers[Root].loaded # None BY DEF FiberInv, Created
<1> QED BY <1>1, <1>2, <1>3, <1>5, <1>7, <1>8, <1>9, MountStep

LEMMA LiveFiber ==
    ASSUME FiberInv, NEW f \in Live
    PROVE  f \in 1 .. (uids - 1)
BY DEF Live, FiberInv, Created

LEMMA CallerEnters ==
    ASSUME FiberInv, Caller
    PROVE  MayEnter
<1>1. CASE Idle BY <1>1 DEF Idle, MayEnter
<1>2. CASE At("apply") BY <1>2, TopOf DEF MayEnter
<1>3. CASE At("teardown") BY <1>3, TopOf DEF MayEnter
<1> QED BY <1>1, <1>2, <1>3 DEF Caller

LEMMA CallDisposeHolds ==
    ASSUME FiberAssumption, FiberInv, CallDispose
    PROVE  FiberInv'
<1> PICK f \in Live : Enter(<<Frame("dispose", f)>>) BY DEF CallDispose
<1> PICK a : a = Frame("dispose", f) OBVIOUS
<1>1. stack' = <<a>> \o stack /\ UNCHANGED <<fibers, table>> BY DEF Enter, CallDispose
<1>2. f \in 1 .. (uids - 1) BY LiveFiber
<1>3. a \in CallFrames /\ Proper(a, uids) /\ a.at = "dispose" BY <1>2, CallTo DEF FiberLabels
<1>4. a.at \notin LoopLabels \cup LoadLabels \cup UndoLabels \cup EmptyLabels \cup {"finalize", "unload"}
  BY <1>3 DEF LoopLabels, LoadLabels, UndoLabels, EmptyLabels
<1>5. MayEnter BY CallerEnters DEF CallDispose, MayCall
<1>6. calls' \in 0 .. MaxCalls BY DEF CallDispose, MayCall, FiberInv, FiberTypes, FiberAssumption
<1> QED BY <1>1, <1>3, <1>4, <1>5, <1>6, QuietPush

LEMMA CallRestartHolds ==
    ASSUME FiberAssumption, FiberInv, CallRestart
    PROVE  FiberInv'
<1> PICK f \in Live : Enter(<<Frame("restart", f)>>) BY DEF CallRestart
<1> PICK a : a = Frame("restart", f) OBVIOUS
<1>1. stack' = <<a>> \o stack /\ UNCHANGED <<fibers, table>> BY DEF Enter, CallRestart
<1>2. f \in 1 .. (uids - 1) BY LiveFiber
<1>3. a \in CallFrames /\ Proper(a, uids) /\ a.at = "restart" BY <1>2, CallTo DEF FiberLabels
<1>4. a.at \notin LoopLabels \cup LoadLabels \cup UndoLabels \cup EmptyLabels \cup {"finalize", "unload"}
  BY <1>3 DEF LoopLabels, LoadLabels, UndoLabels, EmptyLabels
<1>5. MayEnter BY CallerEnters DEF CallRestart, MayCall
<1>6. calls' \in 0 .. MaxCalls BY DEF CallRestart, MayCall, FiberInv, FiberTypes, FiberAssumption
<1> QED BY <1>1, <1>3, <1>4, <1>5, <1>6, QuietPush

LEMMA CallCloseHolds ==
    ASSUME FiberAssumption, FiberInv, CallClose
    PROVE  FiberInv'
<1> PICK a : a = Frame("disposers", Root) OBVIOUS
<1> PICK b : b = Frame("closed", Root) OBVIOUS
<1> PICK r : r = [fibers[Root] EXCEPT !.phase = "unloading"] OBVIOUS
<1>1. stack = <<>> /\ stack' = <<a, b>> \o stack /\ UNCHANGED table
  BY DEF CallClose, Idle, Enter
<1>2. /\ Root \in 0 .. (uids - 1) /\ stack \in Seq(CallFrames) /\ Root \in Fibers
      /\ fibers[Root] \in FiberRecords
  <2>1. Root \in 0 .. (uids - 1) BY DEF Root, FiberInv, FiberTypes
  <2>2. Root \in Fibers BY DEF Root, Fibers, FiberAssumption
  <2>3. stack \in Seq(CallFrames) BY DEF FiberInv, Stands, StackHolds
  <2> QED BY <2>1, <2>2, <2>3 DEF FiberInv, FiberTypes
<1>3. calls' \in 0 .. MaxCalls BY DEF CallClose, MayCall, FiberInv, FiberTypes, FiberAssumption
<1>4. /\ r \in FiberRecords /\ r.plugin = fibers[Root].plugin /\ r.parent = fibers[Root].parent
      /\ r.phase = "unloading" /\ r.loaded = fibers[Root].loaded /\ r.disposed = fibers[Root].disposed
      /\ r.asked = fibers[Root].asked /\ r.reconciling = fibers[Root].reconciling
  BY <1>2 DEF FiberRecords
<1>5. fibers[Root].loaded # None /\ ~fibers[Root].disposed /\ ~fibers[Root].asked
  BY DEF FiberInv, Created
<1>6. fibers' = [fibers EXCEPT ![Root] = r] BY DEF CallClose
<1>7. Alters(Root, r) /\ fibers'[Root] = r /\ effects' = effects
  BY <1>1, <1>2, <1>3, <1>4, <1>5, <1>6 DEF Alters, table, FiberInv, FiberTypes
<1>8. a \in CallFrames /\ b \in CallFrames /\ a.at = "disposers" /\ b.at = "closed" /\ a.f = Root /\ b.f = Root
  BY <1>2, FiberFrame DEF RootLabels
<1> PICK t : t = stack' OBVIOUS
<1>9. OnTop(stack, t, a, b) BY <1>1 DEF OnTop
<1>10. Turns(stack, t, 0, 2) /\ t[1] = a /\ t[2] = b BY <1>2, <1>8, <1>9, PushedTwice
<1>11. Proper(a, uids) /\ Proper(b, uids)
  BY <1>2, <1>8 DEF Proper, RootLabels, FiberLabels, EpochLabels
<1>12. /\ a.at \notin LoopLabels \cup LoadLabels \cup UndoLabels \cup EmptyLabels
       /\ b.at \notin LoopLabels \cup LoadLabels \cup UndoLabels \cup TopLabels
  BY <1>8 DEF LoopLabels, LoadLabels, UndoLabels, EmptyLabels, TopLabels
<1>13. /\ New(a, stack, 0) /\ New(b, stack, 0) /\ FrameHolds(a, fibers') /\ FrameHolds(b, fibers')
  BY <1>12, NewPlain, FramePlain
<1>14. Above(b, stack, 0) BY <1>1, <1>12, AboveCaller DEF MayEnter
<1>15. Fits(a, b) BY <1>8, <1>12 DEF Fits
<1>16. Kind(a, b, LoopLabels) /\ Kind(a, b, UndoLabels) BY <1>12 DEF Kind
<1>17. \A i \in 1 .. 2 : t[i] = a \/ t[i] = b BY <1>10
<1>18. \A i \in 1 .. 2 : Proper(t[i], uids) /\ New(t[i], stack, 0) /\ FrameHolds(t[i], fibers')
  BY <1>11, <1>13, <1>17
<1>19. OldFrames(stack, 0, Root, fibers') BY <1>1 DEF OldFrames
<1>20. TopHolds(t, fibers', effects)
  <2>1. t[1].at \notin EmptyLabels \cup {"finalize", "load", "unload", "raised"} BY <1>8, <1>10, <1>12
  <2> QED BY <2>1, TopPlain
<1>21. \A g \in Fibers : Passes(stack, t, 0, 2, g)
  <2>1. \A i \in 1 .. 2 : t[i].at \notin UndoLabels BY <1>12, <1>17
  <2> QED BY <1>1, <2>1 DEF Passes, On
<1>22. FiberHolds(Root, t, fibers', effects)
  <2>1. FiberHolds(Root, stack, fibers, effects) BY <1>2 DEF FiberInv, Stands
  <2>2. ~In(stack, LoopLabels, Root) BY <1>1 DEF In
  <2> QED BY <1>4, <1>5, <1>7, <2>1, <2>2 DEF FiberHolds
<1>23. 2 \in 0 .. 2 /\ 2 # 0 /\ 0 \in Nat OBVIOUS
<1>24. Above(t[2], stack, 0) /\ Fits(t[1], t[2]) /\ Kind(t[1], t[2], LoopLabels) /\ Kind(t[1], t[2], UndoLabels)
  BY <1>10, <1>14, <1>15, <1>16
<1> QED BY <1>7, <1>10, <1>18, <1>19, <1>20, <1>21, <1>22, <1>23, <1>24, QuietStep

LEMMA ClosedHolds ==
    ASSUME FiberAssumption, FiberInv, Closed
    PROVE  FiberInv'
<1> PICK r : r = [fibers[Root] EXCEPT !.phase = "none"] OBVIOUS
<1>1. At("closed") /\ stack' = <<>> \o Tail(stack) /\ UNCHANGED <<table, calls>>
  BY DEF Closed, Then
<1>2. /\ Root \in 0 .. (uids - 1) /\ Root \in Fibers /\ fibers[Root] \in FiberRecords
      /\ calls' \in 0 .. MaxCalls
  <2>1. Root \in 0 .. (uids - 1) BY DEF Root, FiberInv, FiberTypes
  <2>2. Root \in Fibers BY DEF Root, Fibers, FiberAssumption
  <2> QED BY <1>1, <2>1, <2>2 DEF FiberInv, FiberTypes
<1>3. /\ r \in FiberRecords /\ r.plugin = fibers[Root].plugin /\ r.parent = fibers[Root].parent
      /\ r.loaded = fibers[Root].loaded /\ r.disposed = fibers[Root].disposed
      /\ r.asked = fibers[Root].asked /\ r.reconciling = fibers[Root].reconciling
  BY <1>2 DEF FiberRecords
<1>4. fibers[Root].loaded # None /\ ~fibers[Root].disposed /\ ~fibers[Root].asked
  BY DEF FiberInv, Created
<1>5. fibers' = [fibers EXCEPT ![Root] = r] BY DEF Closed
<1>6. Alters(Root, r) /\ fibers'[Root] = r /\ effects' = effects
  BY <1>1, <1>2, <1>3, <1>4, <1>5 DEF Alters, table, FiberInv, FiberTypes
<1>7. /\ stack # <<>> /\ Len(stack) \in Nat \ {0} /\ stack[1].at = "closed" BY <1>1, TopOf
<1>8. About(stack[1], Root) BY <1>7 DEF About, LoopLabels
<1>9. Len(stack) > 1 => stack[2].at \notin EmptyLabels /\ stack[2].at # "finalize"
  BY <1>1, Plain DEF Plainly
<1>10. OldFrames(stack, 1, Root, fibers')
  <2>1. ASSUME NEW j \in 2 .. Len(stack), stack[j].f = Root,
               stack[j].at \in LoopLabels \cup LoadLabels \cup UndoLabels
        PROVE  FrameHolds(stack[j], fibers')
    <3>1. j \in 1 .. Len(stack) BY Rest
    <3>2. Proper(stack[j], uids) BY <3>1 DEF FiberInv, Stands, StackHolds
    <3>3. stack[j].at \in FiberLabels \cup EpochLabels
      BY <2>1 DEF LoopLabels, LoadLabels, UndoLabels, FiberLabels, EpochLabels
    <3>4. 0 \in 1 .. (uids - 1) BY <2>1, <3>2, <3>3 DEF Proper, Root
    <3> QED BY <3>4 DEF FiberInv, FiberTypes
  <2> QED BY <2>1, RestHolds
<1>11. ASSUME Turns(stack, stack', 1, 0) PROVE FiberHolds(Root, stack', fibers', effects)
  <2>1. FiberHolds(Root, stack, fibers, effects) BY <1>2 DEF FiberInv, Stands
  <2>2. stack[1].at \notin LoopLabels BY <1>7 DEF LoopLabels
  <2>3. In(stack, LoopLabels, Root) => In(stack', LoopLabels, Root) BY <1>11, <2>2, Stays
  <2> QED BY <1>3, <1>4, <1>6, <2>1, <2>3 DEF FiberHolds
<1> QED BY <1>1, <1>6, <1>7, <1>8, <1>9, <1>10, <1>11, QuietPop

\* An effect less.
LEMMA EffectsShrink ==
    ASSUME FiberInv, NEW f \in Fibers, NEW e, effects' = [effects EXCEPT ![f] = Without(@, e)]
    PROVE  /\ effects' \in [Fibers -> Seq(EffectRecords)]
           /\ \A g \in Fibers : \A y : Lists(effects'[g], y) => Lists(effects[g], y)
           /\ \A g \in Fibers : \A y : y # e /\ Lists(effects[g], y) => Lists(effects'[g], y)
           /\ \A g \in Fibers : effects'[g] # <<>> => effects[g] # <<>>
<1>1. effects \in [Fibers -> Seq(EffectRecords)] BY DEF FiberInv, FiberTypes
<1>2. effects[f] \in Seq(EffectRecords) BY <1>1
<1>3. effects'[f] = Without(effects[f], e) /\ \A g \in Fibers : g # f => effects'[g] = effects[g] BY <1>1
<1>4. effects'[f] \in Seq(EffectRecords) BY <1>2, <1>3, WithoutOne
<1>5. effects' \in [Fibers -> Seq(EffectRecords)] BY <1>1, <1>3, <1>4
<1>6. \A y : Lists(effects'[f], y) => Lists(effects[f], y) BY <1>2, <1>3, WithoutOne
<1>7. \A y : y # e /\ Lists(effects[f], y) => Lists(effects'[f], y) BY <1>2, <1>3, WithoutOne
<1>8. effects'[f] # <<>> => effects[f] # <<>> BY <1>2, <1>3, WithoutEmpty
<1> QED BY <1>3, <1>5, <1>6, <1>7, <1>8

LEMMA ShrinkTypes ==
    ASSUME FiberAssumption, FiberInv, NEW f \in Fibers, NEW e,
           effects' = [effects EXCEPT ![f] = Without(@, e)],
           impls' = Withdrawn(e), serial' = serial, uids' = uids, calls' \in 0 .. MaxCalls,
           live' \in Seq(Fibers), \A x : Lists(live', x) => Lists(live, x),
           fibers' \in [Fibers -> FiberRecords],
           \A g \in Fibers : /\ fibers'[g].plugin = fibers[g].plugin /\ fibers'[g].parent = fibers[g].parent
                             /\ fibers[g].disposed => fibers'[g].disposed,
           fibers'[Root] = fibers[Root]
    PROVE  FiberTypes' /\ Created' /\ Registered'
<1>1. /\ effects' \in [Fibers -> Seq(EffectRecords)]
      /\ \A g \in Fibers : \A y : Lists(effects'[g], y) => Lists(effects[g], y)
      /\ \A g \in Fibers : \A y : y # e /\ Lists(effects[g], y) => Lists(effects'[g], y)
  BY EffectsShrink
<1>2. \A n \in Services :
         \/ impls'[n] = NoImpl
         \/ impls'[n] = impls[n] /\ ~(e.kind = "provide" /\ impls[n].serial = e.id)
  BY DEF Withdrawn
<1>3. NoImpl \in [owner : Fibers, serial : Nat] /\ NoImpl.owner = Root /\ NoImpl.serial = 0 /\ Root \in Fibers
  BY DEF NoImpl, Root, Fibers, FiberAssumption
<1>4. impls \in [Services -> [owner : Fibers, serial : Nat]] /\ serial \in Nat \ {0} /\ uids \in Nat \ {0}
  BY DEF FiberInv, FiberTypes
<1>5. impls' \in [Services -> [owner : Fibers, serial : Nat]] BY <1>2, <1>3, <1>4 DEF Withdrawn
<1>6. FiberTypes' BY <1>1, <1>5 DEF FiberInv, FiberTypes
<1>7. Created'
  <2>1. ASSUME NEW g \in Fibers
        PROVE  /\ IF g \in 1 .. (uids' - 1) THEN fibers'[g].plugin \in Plugins
                  ELSE g # Root => fibers'[g].disposed
               /\ fibers'[g].parent \in 0 .. (uids' - 1)
    <3>1. IF g \in 1 .. (uids - 1) THEN fibers[g].plugin \in Plugins ELSE g # Root => fibers[g].disposed
      BY DEF FiberInv, Created
    <3>2. fibers[g].parent \in 0 .. (uids - 1) BY DEF FiberInv, Created
    <3> QED BY <3>1, <3>2
  <2>2. ASSUME NEW n \in Services PROVE impls'[n].owner \in 0 .. (uids' - 1) /\ impls'[n].serial < serial'
    <3>1. impls[n].owner \in 0 .. (uids - 1) /\ impls[n].serial < serial BY DEF FiberInv, Created
    <3> QED BY <1>2, <1>3, <1>4, <3>1 DEF Root
  <2>3. ASSUME NEW i \in 1 .. Len(live') PROVE live'[i] \in 1 .. (uids' - 1)
    <3> PICK x : x = live'[i] OBVIOUS
    <3>1. Lists(live', x) BY DEF Lists
    <3>2. PICK j \in 1 .. Len(live) : live[j] = x BY <3>1 DEF Lists
    <3> QED BY <3>2 DEF FiberInv, Created
  <2>4. ASSUME NEW g \in Fibers, NEW i \in 1 .. Len(effects'[g]), effects'[g][i].kind = "child"
        PROVE  effects'[g][i].id \in 1 .. (uids' - 1)
    <3> PICK y : y = effects'[g][i] OBVIOUS
    <3>1. Lists(effects'[g], y) BY DEF Lists
    <3>2. Lists(effects[g], y) BY <1>1, <3>1
    <3>3. PICK j \in 1 .. Len(effects[g]) : effects[g][j] = y BY <3>2 DEF Lists
    <3>4. effects[g][j].kind = "child" BY <2>4, <3>3
    <3> QED BY <3>3, <3>4 DEF FiberInv, Created
  <2>5. fibers'[Root].loaded # None /\ ~fibers'[Root].disposed /\ ~fibers'[Root].asked
    BY DEF FiberInv, Created
  <2> QED BY <2>1, <2>2, <2>3, <2>4, <2>5 DEF Created
<1>8. Registered'
  <2>1. ASSUME NEW n \in Services, impls'[n].serial # 0
        PROVE  Lists(effects'[impls'[n].owner], ServiceOf(impls'[n].serial))
    <3>1. impls'[n] = impls[n] /\ ~(e.kind = "provide" /\ impls[n].serial = e.id) BY <1>2, <1>3, <2>1
    <3>2. Lists(effects[impls[n].owner], ServiceOf(impls[n].serial)) /\ impls[n].owner \in Fibers
      BY <1>4, <2>1, <3>1 DEF FiberInv, Registered
    <3>3. ServiceOf(impls[n].serial) # e BY <3>1 DEF ServiceOf
    <3> QED BY <1>1, <3>1, <3>2, <3>3
  <2> QED BY <2>1 DEF Registered
<1> QED BY <1>6, <1>7, <1>8

\* A step that takes an effect away, and changes no fiber.
LEMMA ShrinkStep ==
    ASSUME FiberAssumption, FiberInv, NEW f \in Fibers, NEW e,
           effects' = [effects EXCEPT ![f] = Without(@, e)],
           impls' = Withdrawn(e), UNCHANGED <<fibers, live, serial, uids>>, calls' \in 0 .. MaxCalls,
           NEW n, Turns(stack, stack', 0, n), n \in 0 .. 2,
           stack # <<>> => stack[1].at \in {"apply", "teardown", "disposers"},
           \A i \in 1 .. n : Proper(stack'[i], uids) /\ stack'[i].at \in {"notify", "dispose", "teardown", "caught"},
           n = 2 => stack'[2].at \notin {"dispose"},
           \A g \in Fibers : e = ChildOf(g) => On(stack', "dispose", g)
    PROVE  FiberInv'
<1>1. FiberTypes' /\ Created' /\ Registered'
  <2>1. live' \in Seq(Fibers) /\ fibers' \in [Fibers -> FiberRecords] BY DEF FiberInv, FiberTypes
  <2>2. fibers' = fibers OBVIOUS
  <2>3. \A x : Lists(live', x) => Lists(live, x) OBVIOUS
  <2> QED BY <2>1, <2>2, <2>3, ShrinkTypes
<1>2. /\ \A g \in Fibers : \A y : y # e /\ Lists(effects[g], y) => Lists(effects'[g], y)
      /\ \A g \in Fibers : effects'[g] # <<>> => effects[g] # <<>>
  BY EffectsShrink
<1>3. \A i \in 1 .. n : stack'[i].at \notin LoopLabels \cup LoadLabels \cup UndoLabels \cup EmptyLabels \cup {"finalize", "unload"}
  BY DEF LoopLabels, LoadLabels, UndoLabels, EmptyLabels
<1>4. \A i \in 1 .. n : Proper(stack'[i], uids') /\ New(stack'[i], stack, 0) /\ FrameHolds(stack'[i], fibers')
  BY <1>3, NewPlain, FramePlain
<1>5. n # 0 => n \in 1 .. n /\ 1 \in 1 .. n OBVIOUS
<1>6. n # 0 => Above(stack'[n], stack, 0)
  <2>1. 0 # Len(stack) => stack # <<>> /\ 0 + 1 = 1 BY DEF Turns
  <2>2. n # 0 => stack'[n].at \notin LoadLabels BY <1>3, <1>5
  <2>3. n # 0 /\ stack # <<>> => Fits(stack'[n], stack[1]) BY <2>2 DEF Fits, TopLabels, EmptyLabels
  <2> QED BY <2>1, <2>2, <2>3 DEF Above
<1>7. n = 2 => 1 \in 1 .. n /\ 2 \in 1 .. n OBVIOUS
<1>8. n = 2 => Kind(stack'[1], stack'[2], LoopLabels) /\ Kind(stack'[1], stack'[2], UndoLabels)
  BY <1>3, <1>7 DEF Kind
<1>9. n = 2 => Fits(stack'[1], stack'[2])
  <2>1. n = 2 => stack'[2].at \notin TopLabels BY <1>7 DEF TopLabels
  <2> QED BY <1>3, <1>7, <2>1 DEF Fits
<1>10. \A g \in 0 .. (uids - 1) : fibers'[g] = fibers[g] OBVIOUS
<1>11. 0 \in Nat /\ uids <= uids' BY DEF FiberInv, FiberTypes
<1>12. \A j \in (0 + 1) .. Len(stack) : FrameHolds(stack[j], fibers') BY <1>10, <1>11, OldSame
<1>13. stack' # <<>> => TopHolds(stack', fibers', effects')
  <2>1. CASE n = 0
    <3>1. ASSUME stack' # <<>> PROVE stack'[1] = stack[1] /\ stack # <<>>
      <4>1. Len(stack') \in Nat /\ Len(stack') # 0 /\ Len(stack') = Len(stack)
        BY <2>1, <3>1, EmptySeq, LenProperties DEF Turns, Follows
      <4>2. 1 \in (0 + 1) .. Len(stack') /\ 1 - 0 + 0 = 1 BY <4>1
      <4>3. stack # <<>> BY <4>1
      <4> QED BY <2>1, <4>2, <4>3 DEF Turns, Follows
    <3>2. ASSUME stack' # <<>> PROVE stack'[1].at \in {"apply", "teardown", "disposers"} BY <3>1, <3>2
    <3> QED BY <3>2, TopPlain DEF EmptyLabels
  <2>2. CASE n # 0
    <3>1. stack'[1].at \in {"notify", "dispose", "teardown", "caught"} BY <1>5, <2>2
    <3> QED BY <3>1, TopPlain DEF EmptyLabels
  <2> QED BY <2>1, <2>2
<1>14. ASSUME NEW g \in Fibers PROVE FiberHolds(g, stack', fibers', effects')
  <2>1. FiberHolds(g, stack, fibers, effects) BY DEF FiberInv, Stands
  <2>2. Passes(stack, stack', 0, n, g)
    <3>1. \A i \in 1 .. n : stack'[i].at \notin UndoLabels BY <1>3
    <3> QED BY <3>1 DEF Passes, On
  <2>3. Alike(fibers[g], fibers'[g]) /\ fibers[g].parent \in Fibers
    BY DEF Alike, FiberInv, FiberTypes, FiberRecords
  <2>4. Lists(effects[fibers[g].parent], ChildOf(g)) =>
          Lists(effects'[fibers[g].parent], ChildOf(g)) \/ On(stack', "dispose", g)
    BY <1>2, <2>3
  <2>5. effects'[g] # <<>> => effects[g] # <<>> BY <1>2
  <2>6. fibers'[g].reconciling => fibers[g].reconciling OBVIOUS
  <2>7. Turns(stack, stack', 0, n) OBVIOUS
  <2> QED BY ONLY <2>1, <2>2, <2>3, <2>4, <2>5, <2>6, <2>7, Bystander
<1> QED BY <1>1, <1>4, <1>6, <1>8, <1>9, <1>11, <1>12, <1>13, <1>14, FullStep

LEMMA CallWithdrawHolds ==
    ASSUME FiberAssumption, FiberInv, CallWithdraw
    PROVE  FiberInv'
<1> PICK n \in Services :
      /\ effects' = [effects EXCEPT ![impls[n].owner] = Without(@, ServiceOf(impls[n].serial))]
      /\ impls' = Withdrawn(ServiceOf(impls[n].serial))
      /\ Enter(<<NotifyFrame({n}), Frame("caught", impls[n].owner)>>)
  BY DEF CallWithdraw
<1> PICK o : o = impls[n].owner OBVIOUS
<1> PICK e : e = ServiceOf(impls[n].serial) OBVIOUS
<1> PICK a : a = NotifyFrame({n}) OBVIOUS
<1> PICK b : b = Frame("caught", o) OBVIOUS
<1>1. UNCHANGED <<fibers, live, serial, uids>> /\ calls' \in 0 .. MaxCalls
  BY DEF CallWithdraw, MayCall, FiberInv, FiberTypes, FiberAssumption
<1>2. o \in Fibers /\ o \in 0 .. (uids - 1) /\ stack \in Seq(CallFrames)
  BY DEF FiberInv, FiberTypes, Created, Stands, StackHolds
<1>3. a \in CallFrames /\ a.at = "notify" /\ Proper(a, uids) BY Notifies DEF FiberInv
<1>4. b \in CallFrames /\ b.at = "caught" /\ b.f = o BY <1>2, FiberFrame DEF RootLabels
<1>5. Proper(b, uids) BY <1>2, <1>4 DEF Proper, RootLabels, FiberLabels, EpochLabels
<1> PICK t : t = stack' OBVIOUS
<1>6. OnTop(stack, t, a, b) BY DEF OnTop, Enter
<1>7. Turns(stack, t, 0, 2) /\ t[1] = a /\ t[2] = b BY <1>2, <1>3, <1>4, <1>6, PushedTwice
<1>8. \A i \in 1 .. 2 : t[i] = a \/ t[i] = b BY <1>7
<1>9. \A i \in 1 .. 2 : Proper(t[i], uids) /\ t[i].at \in {"notify", "dispose", "teardown", "caught"}
  BY <1>3, <1>4, <1>5, <1>8
<1>10. stack # <<>> => stack[1].at \in {"apply", "teardown", "disposers"}
  BY CallerEnters DEF CallWithdraw, MayCall, MayEnter
<1>14. \A g \in Fibers : e # ChildOf(g) BY DEF ServiceOf, ChildOf
<1>11. \A g \in Fibers : e = ChildOf(g) => On(t, "dispose", g) BY <1>14
<1>12. 2 \in 0 .. 2 /\ t[2].at \notin {"dispose"} BY <1>4, <1>7
<1>13. effects' = [effects EXCEPT ![o] = Without(@, e)] /\ impls' = Withdrawn(e) OBVIOUS
<1> QED BY <1>1, <1>2, <1>7, <1>9, <1>10, <1>11, <1>12, <1>13, ShrinkStep

LEMMA PushedNone ==
    ASSUME NEW s \in Seq(CallFrames), NEW t, t = <<>> \o s
    PROVE  Turns(s, t, 0, 0)
<1>1. <<>> \in Seq(CallFrames) /\ Len(<<>>) = 0 OBVIOUS
<1>2. t \in Seq(CallFrames) /\ Follows(s, t, 0, 0) BY <1>1, Entered
<1>3. Len(s) \in Nat BY LenProperties
<1> QED BY <1>2, <1>3 DEF Turns

\* What undoing an effect enters.
LEMMA DisposerCalls ==
    ASSUME FiberAssumption, FiberInv, NEW f \in Fibers, f \in 0 .. (uids - 1), NEW e \in EffectRecords,
           e.kind = "child" => e.id \in 1 .. (uids - 1), stack \in Seq(CallFrames),
           stack' = Disposer(f, e) \o stack
    PROVE  \E n \in 0 .. 1 :
              /\ Turns(stack, stack', 0, n)
              /\ \A i \in 1 .. n : Proper(stack'[i], uids)
                                   /\ stack'[i].at \in {"notify", "dispose", "teardown", "caught"}
              /\ \A g \in Fibers : e = ChildOf(g) => On(stack', "dispose", g)
<1>1. ASSUME NEW a \in CallFrames, stack' = <<a>> \o stack, Proper(a, uids),
             a.at \in {"notify", "dispose", "teardown", "caught"},
             e.kind = "child" => a.at = "dispose" /\ a.f = e.id
      PROVE  \E n \in 0 .. 1 :
              /\ Turns(stack, stack', 0, n)
              /\ \A i \in 1 .. n : Proper(stack'[i], uids)
                                   /\ stack'[i].at \in {"notify", "dispose", "teardown", "caught"}
              /\ \A g \in Fibers : e = ChildOf(g) => On(stack', "dispose", g)
  <2>1. Turns(stack, stack', 0, 1) /\ stack'[1] = a BY <1>1, Pushed
  <2>2. \A i \in 1 .. 1 : stack'[i] = a BY ONLY <2>1
  <2>3. \A i \in 1 .. 1 : Proper(stack'[i], uids) /\ stack'[i].at \in {"notify", "dispose", "teardown", "caught"}
    BY <1>1, <2>2
  <2>4. stack' # <<>> BY <2>1 DEF Turns, Follows
  <2>5. \A g \in Fibers : e = ChildOf(g) => On(stack', "dispose", g)
    BY <1>1, <2>1, <2>4 DEF On, ChildOf
  <2>6. 1 \in 0 .. 1 OBVIOUS
  <2> QED BY <2>1, <2>3, <2>5, <2>6
<1>2. ASSUME stack' = <<>> \o stack, e.kind # "child"
      PROVE  \E n \in 0 .. 1 :
              /\ Turns(stack, stack', 0, n)
              /\ \A i \in 1 .. n : Proper(stack'[i], uids)
                                   /\ stack'[i].at \in {"notify", "dispose", "teardown", "caught"}
              /\ \A g \in Fibers : e = ChildOf(g) => On(stack', "dispose", g)
  <2>1. Turns(stack, stack', 0, 0) BY <1>2, PushedNone
  <2>2. 0 \in 0 .. 1 /\ 1 .. 0 = {} OBVIOUS
  <2>3. \A g \in Fibers : e # ChildOf(g) BY <1>2 DEF ChildOf
  <2> QED BY <2>1, <2>2, <2>3
<1>3. CASE e.kind = "child"
  <2> PICK a : a = Frame("dispose", e.id) OBVIOUS
  <2>1. a \in CallFrames /\ Proper(a, uids) /\ a.at = "dispose" /\ a.f = e.id
    BY <1>3, CallTo DEF FiberLabels
  <2>2. stack' = <<a>> \o stack BY <1>3 DEF Disposer
  <2> QED BY <1>1, <2>1, <2>2
<1>4. CASE e.kind = "provide"
  <2> PICK a : a = NotifyFrame(Named(e.id)) OBVIOUS
  <2>1. Named(e.id) \in SUBSET Services BY DEF Named
  <2>2. a \in CallFrames /\ Proper(a, uids) /\ a.at = "notify" BY <2>1, Notifies DEF FiberInv
  <2>3. stack' = <<>> \o stack \/ stack' = <<a>> \o stack BY <1>4 DEF Disposer
  <2>4. CASE stack' = <<>> \o stack BY <1>2, <1>4, <2>4
  <2>5. CASE stack' = <<a>> \o stack BY <1>1, <1>4, <2>2, <2>5
  <2> QED BY <2>3, <2>4, <2>5
<1>5. CASE e.kind = "apply"
  <2> PICK a : a = Frame("teardown", f) OBVIOUS
  <2>1. a \in CallFrames /\ a.at = "teardown" /\ a.f = f BY FiberFrame DEF RootLabels
  <2>2. Proper(a, uids) BY <2>1 DEF Proper, RootLabels, FiberLabels, EpochLabels
  <2>3. stack' = <<>> \o stack \/ stack' = <<a>> \o stack BY <1>5 DEF Disposer
  <2>4. CASE stack' = <<>> \o stack BY <1>2, <1>5, <2>4
  <2>5. CASE stack' = <<a>> \o stack BY <1>1, <1>5, <2>1, <2>2, <2>5
  <2> QED BY <2>3, <2>4, <2>5
<1> QED BY <1>3, <1>4, <1>5 DEF EffectRecords

LEMMA DisposersHolds ==
    ASSUME FiberAssumption, FiberInv, Disposers
    PROVE  FiberInv'
<1>1. At("disposers") /\ UNCHANGED <<fibers, live, serial, uids, calls>> BY DEF Disposers
<1> PICK f : f = Top.f OBVIOUS
<1>2. /\ stack # <<>> /\ stack[1] = Top /\ stack[1].at = "disposers" /\ Len(stack) \in Nat \ {0}
      /\ f \in 0 .. (uids - 1) /\ f \in Fibers /\ stack \in Seq(CallFrames)
  BY <1>1, TopFiber, TopOf DEF RootLabels
<1>3. CASE effects[f] = <<>>
  <2>1. stack' = <<>> \o Tail(stack) /\ UNCHANGED <<fibers, table, calls>>
    BY <1>1, <1>3 DEF Disposers, Then, table
  <2>2. /\ Alters(f, fibers[f]) /\ OldFrames(stack, 1, f, fibers') /\ fibers' = fibers /\ effects' = effects
    BY <1>2, <2>1, NothingChanges
  <2>3. About(stack[1], f) BY <1>2 DEF About
  <2>4. ASSUME Len(stack) > 1
        PROVE  /\ stack[2].at \in EmptyLabels => effects[stack[2].f] = <<>>
               /\ stack[2].at = "finalize" => Gone(stack[2].f, fibers')
    <3>1. Fits(stack[1], stack[2]) BY <2>4, Beneath
    <3> QED BY <1>2, <1>3, <3>1 DEF Fits
  <2>5. ASSUME Turns(stack, stack', 1, 0) PROVE FiberHolds(f, stack', fibers', effects)
    <3>1. Passes(stack, stack', 1, 0, f) BY <1>2 DEF Passes, On, LoopLabels
    <3>2. Alike(fibers[f], fibers'[f]) BY <2>2 DEF Alike
    <3> QED BY <1>2, <2>2, <2>5, <3>1, <3>2, Same
  <2> QED BY <1>2, <2>1, <2>2, <2>3, <2>4, <2>5, QuietPop
<1>4. CASE effects[f] # <<>>
  <2> PICK e : e = Newest(f) OBVIOUS
  <2>1. effects' = [effects EXCEPT ![f] = Without(@, e)] /\ impls' = Withdrawn(e)
        /\ stack' = Disposer(f, e) \o stack
    BY <1>4 DEF Disposers, Enter
  <2>2. effects[f] \in Seq(EffectRecords) BY <1>2 DEF FiberInv, FiberTypes
  <2>3. Len(effects[f]) \in 1 .. Len(effects[f]) BY <1>4, <2>2, EmptySeq, LenProperties
  <2>4. e \in EffectRecords BY <2>2, <2>3, ElementOfSeq DEF Newest
  <2>5. e.kind = "child" => e.id \in 1 .. (uids - 1)
    BY <1>2, <2>3 DEF Newest, FiberInv, Created
  <2>6. PICK n \in 0 .. 1 :
          /\ Turns(stack, stack', 0, n)
          /\ \A i \in 1 .. n : Proper(stack'[i], uids)
                               /\ stack'[i].at \in {"notify", "dispose", "teardown", "caught"}
          /\ \A g \in Fibers : e = ChildOf(g) => On(stack', "dispose", g)
    BY <1>2, <2>1, <2>4, <2>5, DisposerCalls
  <2>7. stack # <<>> => stack[1].at \in {"apply", "teardown", "disposers"} BY <1>2
  <2>8. n \in 0 .. 2 /\ n # 2 /\ calls' \in 0 .. MaxCalls BY <1>1 DEF FiberInv, FiberTypes
  <2> QED BY <1>1, <1>2, <2>1, <2>6, <2>7, <2>8, ShrinkStep
<1> QED BY <1>3, <1>4

LEMMA FinalizeHolds ==
    ASSUME FiberAssumption, FiberInv, Finalize
    PROVE  FiberInv'
<1>1. /\ At("finalize") /\ UNCHANGED <<impls, serial, uids, calls>> /\ stack' = <<>> \o Tail(stack)
      /\ "finalize" \in FiberLabels
  BY DEF Finalize, Then, FiberLabels
<1> PICK f : f = Top.f OBVIOUS
<1>2. /\ fibers[f] \in FiberRecords /\ stack # <<>> /\ stack[1] = Top /\ stack[1].at = "finalize"
      /\ Len(stack) \in Nat \ {0} /\ About(stack[1], f) /\ f \in 1 .. (uids - 1) /\ f \in Fibers
      /\ TopHolds(stack, fibers, effects) /\ stack \in Seq(CallFrames) /\ f # Root
  BY <1>1, TopFiber, TopOf, NotRoot DEF About
<1>3. FiberHolds(f, stack, fibers, effects) BY <1>2 DEF FiberInv, Stands
<1>4. Gone(f, fibers) BY <1>2 DEF TopHolds
<1>5. Len(stack) > 1 => stack[2].at \notin EmptyLabels /\ (stack[2].at = "finalize" => stack[2].f = f)
  BY <1>2, Beneath DEF Fits
<1>6. Turns(stack, stack', 1, 0) BY <1>1, <1>2, Pops
<1>7. stack[1].at \notin LoopLabels BY <1>2 DEF LoopLabels
<1>8. In(stack, LoopLabels, f) => In(stack', LoopLabels, f) BY <1>6, <1>7, Stays
<1>9. CASE fibers[f].disposed
  <2>1. UNCHANGED <<fibers, table, calls>> BY <1>1, <1>9 DEF Finalize, table
  <2>2. f \in 0 .. (uids - 1) BY <1>2
  <2>3. /\ Alters(f, fibers[f]) /\ OldFrames(stack, 1, f, fibers') /\ fibers' = fibers /\ effects' = effects
    BY <2>1, <2>2, NothingChanges
  <2>4. Len(stack) > 1 => /\ stack[2].at \in EmptyLabels => effects[stack[2].f] = <<>>
                          /\ stack[2].at = "finalize" => Gone(stack[2].f, fibers')
    BY <1>4, <1>5, <2>3
  <2>5. FiberHolds(f, stack', fibers', effects) BY <1>3, <1>8, <1>9, <2>3 DEF FiberHolds
  <2> QED BY <1>1, <1>2, <2>3, <2>4, <2>5, QuietPop
<1>10. CASE ~fibers[f].disposed
  <2> PICK r : r = [fibers[f] EXCEPT !.disposed = TRUE, !.asked = FALSE] OBVIOUS
  <2> PICK p : p = fibers[f].parent OBVIOUS
  <2>1. /\ r \in FiberRecords /\ r.plugin = fibers[f].plugin /\ r.parent = fibers[f].parent
        /\ r.phase = fibers[f].phase /\ r.loaded = fibers[f].loaded /\ r.disposed
        /\ ~r.asked /\ r.reconciling = fibers[f].reconciling
    BY <1>2 DEF FiberRecords
  <2>2. /\ fibers' = [fibers EXCEPT ![f] = r] /\ live' = Without(live, f)
        /\ effects' = [effects EXCEPT ![p] = Without(@, ChildOf(f))]
    BY <1>2, <1>10 DEF Finalize, FiberInv, FiberTypes
  <2>3. fibers'[f] = r /\ \A g \in Fibers : g # f => fibers'[g] = fibers[g]
    BY <1>2, <2>2 DEF FiberInv, FiberTypes
  <2>4. p \in Fibers BY <1>2 DEF FiberRecords
  <2>5. /\ \A g \in Fibers : \A y : y # ChildOf(f) /\ Lists(effects[g], y) => Lists(effects'[g], y)
        /\ \A g \in Fibers : effects'[g] # <<>> => effects[g] # <<>>
    BY <2>2, <2>4, EffectsShrink
  <2>6. effects[f] = <<>> BY <1>3, <1>4, <1>10 DEF FiberHolds, Gone
  <2>7. effects'[f] = <<>> BY <1>2, <2>5, <2>6
  <2>8. FiberTypes' /\ Created' /\ Registered'
    <3>1. impls \in [Services -> [owner : Fibers, serial : Nat]] BY DEF FiberInv, FiberTypes
    <3> PICK w : w = Withdrawn(ChildOf(f)) OBVIOUS
    <3>2. w = [n \in Services |-> impls[n]] BY DEF Withdrawn, ChildOf
    <3>3. impls' = Withdrawn(ChildOf(f)) BY <1>1, <3>1, <3>2
    <3>4. live \in Seq(Fibers) BY DEF FiberInv, FiberTypes
    <3>5. live' \in Seq(Fibers) /\ \A x : Lists(live', x) => Lists(live, x) BY <2>2, <3>4, WithoutOne
    <3>6. fibers' \in [Fibers -> FiberRecords] BY <2>1, <2>2 DEF FiberInv, FiberTypes
    <3>7. ASSUME NEW g \in Fibers
          PROVE  /\ fibers'[g].plugin = fibers[g].plugin /\ fibers'[g].parent = fibers[g].parent
                 /\ fibers[g].disposed => fibers'[g].disposed
      BY <2>1, <2>3
    <3>8. Root \in Fibers BY DEF Root, Fibers, FiberAssumption
    <3>9. fibers'[Root] = fibers[Root] BY <1>2, <2>3, <3>8
    <3>10. calls' \in 0 .. MaxCalls /\ serial' = serial /\ uids' = uids BY <1>1 DEF FiberInv, FiberTypes
    <3> QED BY <2>2, <2>4, <3>3, <3>5, <3>6, <3>7, <3>9, <3>10, ShrinkTypes
  <2>9. OldFrames(stack, 1, f, fibers')
    <3>1. ASSUME NEW j \in 2 .. Len(stack), stack[j].f = f,
                 stack[j].at \in LoopLabels \cup LoadLabels \cup UndoLabels
          PROVE  FrameHolds(stack[j], fibers')
      <4>1. FrameHolds(stack[j], fibers) BY Rest
      <4>2. fibers[f].loaded = None /\ fibers[f].phase = "none" BY <1>4, <1>10 DEF Gone
      <4>3. stack[j].at \notin UndoLabels /\ stack[j].at # "apply" /\ stack[j].at # "rolledback"
        BY <3>1, <4>1, <4>2 DEF FrameHolds
      <4> QED BY <2>1, <2>3, <3>1, <4>1, <4>3 DEF FrameHolds
    <3> QED BY <3>1, RestHolds
  <2>10. \A g \in 0 .. (uids - 1) : g # f => fibers'[g] = fibers[g]
    BY <2>3 DEF FiberInv, FiberTypes, Fibers, FiberAssumption
  <2>11. 1 \in Nat /\ 0 \in 0 .. 2 /\ uids <= uids' BY <1>1 DEF FiberInv, FiberTypes
  <2>12. \A j \in (1 + 1) .. Len(stack) : FrameHolds(stack[j], fibers') BY <2>9, <2>10, <2>11, RestKeeps
  <2>13. ASSUME stack' # <<>> PROVE TopHolds(stack', fibers', effects')
    <3>6. stack' \in Seq(CallFrames) /\ Len(stack') = Len(stack) - 1 BY <1>2, <1>6 DEF Turns, Follows
    <3>1. Len(stack') # 0 /\ Len(stack') \in Nat BY <2>13, <3>6, EmptySeq, LenProperties
    <3>2. Len(stack) > 1 BY <1>2, <3>1, <3>6
    <3>3. StackHolds(stack, uids) BY DEF FiberInv, Stands
    <3>4. stack[2].at \in EmptyLabels => effects'[stack[2].f] = <<>> BY <1>5, <3>2
    <3>5. stack[2].at = "finalize" => Gone(stack[2].f, fibers') BY <1>5, <2>1, <2>3, <3>2 DEF Gone
    <3> QED BY <1>6, <2>13, <3>3, <3>4, <3>5, TopStays
  <2>14. ASSUME NEW g \in Fibers PROVE FiberHolds(g, stack', fibers', effects')
    <3>1. CASE g = f
      <4>1. fibers'[f].reconciling => In(stack', LoopLabels, f) BY <1>3, <1>8, <2>1, <2>3 DEF FiberHolds
      <4> QED BY <2>1, <2>3, <2>7, <3>1, <4>1 DEF FiberHolds
    <3>2. CASE g # f
      <4>1. FiberHolds(g, stack, fibers, effects) BY DEF FiberInv, Stands
      <4>2. Passes(stack, stack', 1, 0, g) BY <1>2, <3>2 DEF Passes, On
      <4>3. Alike(fibers[g], fibers'[g]) /\ (fibers'[g].reconciling => fibers[g].reconciling)
        BY <2>3, <3>2 DEF Alike
      <4>4. fibers[g].parent \in Fibers /\ ChildOf(g) # ChildOf(f)
        BY <3>2 DEF ChildOf, FiberInv, FiberTypes, FiberRecords
      <4>5. Lists(effects[fibers[g].parent], ChildOf(g)) => Lists(effects'[fibers[g].parent], ChildOf(g))
        BY <2>5, <4>4
      <4>6. effects'[g] # <<>> => effects[g] # <<>> BY <2>5
      <4> QED BY <1>6, <4>1, <4>2, <4>3, <4>5, <4>6, Bystander
    <3> QED BY <3>1, <3>2
  <2>15. 0 # 2 /\ 1 .. 0 = {} OBVIOUS
  <2> QED BY <1>6, <2>8, <2>11, <2>12, <2>13, <2>14, <2>15, FullStep
<1> QED BY <1>9, <1>10

LEMMA RaisedTop ==
    ASSUME FiberInv, At("raised")
    PROVE  /\ stack # <<>> /\ stack[1] = Top /\ stack[1].at = "raised" /\ Len(stack) \in Nat \ {0}
           /\ stack \in Seq(CallFrames) /\ TopHolds(stack, fibers, effects)
           /\ \A f : ~On(stack, "unload", f) /\ ~On(stack, "dispose", f)
           /\ Len(stack) > 1 => /\ stack[2].at \notin TopLabels /\ Below = stack[2] /\ 2 \in 1 .. Len(stack)
                                /\ Proper(stack[2], uids) /\ FrameHolds(stack[2], fibers)
<1>1. /\ stack # <<>> /\ stack[1] = Top /\ stack[1].at = "raised" /\ Len(stack) \in Nat \ {0}
      /\ stack \in Seq(CallFrames) /\ TopHolds(stack, fibers, effects)
  BY TopOf
<1>2. ASSUME Len(stack) > 1
      PROVE  /\ stack[2].at \notin TopLabels /\ Below = stack[2] /\ 2 \in 1 .. Len(stack)
             /\ Proper(stack[2], uids) /\ FrameHolds(stack[2], fibers)
  <2>1. Fits(stack[1], stack[2]) /\ 2 \in 1 .. Len(stack) BY <1>2, Beneath
  <2>2. stack[2].at \notin TopLabels BY <2>1 DEF Fits
  <2>3. Below = stack[2] BY <1>2 DEF Below
  <2> QED BY <2>1, <2>2, <2>3 DEF FiberInv, Stands, StackHolds
<1> QED BY <1>1, <1>2 DEF On

\* What stands beneath the call an exception leaves.
LEMMA ThirdCall ==
    ASSUME FiberInv, Len(stack) > 1, 2 # Len(stack)
    PROVE  Fits(stack[2], stack[3]) /\ 3 \in 1 .. Len(stack) /\ 2 + 1 = 3
<1>1. Len(stack) \in Nat BY LenProperties DEF FiberInv, Stands, StackHolds
<1> PICK n : n = Len(stack) OBVIOUS
<1>2. n \in Nat /\ n > 1 /\ n # 2 BY <1>1
<1>3. 2 \in 1 .. (n - 1) /\ 2 + 1 = 3 /\ 3 \in 1 .. n BY ONLY <1>2
<1>4. 2 \in 1 .. (Len(stack) - 1) /\ 3 \in 1 .. Len(stack) BY <1>3
<1> QED BY <1>3, <1>4 DEF FiberInv, Stands, StackHolds

LEMMA FromThird ==
    ASSUME FiberInv, NEW j \in (2 + 1) .. Len(stack)
    PROVE  j \in 1 .. Len(stack) /\ j # 2 /\ FrameHolds(stack[j], fibers)
<1>1. Len(stack) \in Nat BY LenProperties DEF FiberInv, Stands, StackHolds
<1>2. j \in 1 .. Len(stack) /\ j # 2 BY <1>1
<1> QED BY <1>2 DEF FiberInv, Stands

UnwoundTo(s, t, a) == t = <<a>> \o SubSeq(s, 3, Len(s))
UnwoundTwice(s, t, a, b) == t = <<a, b>> \o SubSeq(s, 3, Len(s))

LEMMA UnwindsTo ==
    ASSUME NEW s \in Seq(CallFrames), NEW a \in CallFrames, Len(s) > 1, NEW t, UnwoundTo(s, t, a)
    PROVE  Turns(s, t, 2, 1) /\ t[1] = a
<1>1. <<a>> \in Seq(CallFrames) /\ Len(<<a>>) = 1 /\ <<a>>[1] = a OBVIOUS
<1>2. t = <<a>> \o SubSeq(s, 3, Len(s)) BY DEF UnwoundTo
<1>3. t \in Seq(CallFrames) /\ Follows(s, t, 2, 1) BY <1>1, <1>2, Unwound
<1>4. t[1] = a BY <1>1, <1>2, Unwound
<1>5. Len(s) \in Nat /\ 2 <= Len(s) BY LenProperties
<1> QED BY <1>3, <1>4, <1>5 DEF Turns

LEMMA UnwindsTwice ==
    ASSUME NEW s \in Seq(CallFrames), NEW a \in CallFrames, NEW b \in CallFrames, Len(s) > 1,
           NEW t, UnwoundTwice(s, t, a, b)
    PROVE  Turns(s, t, 2, 2) /\ t[1] = a /\ t[2] = b
<1>1. /\ <<a, b>> \in Seq(CallFrames) /\ Len(<<a, b>>) = 2
      /\ <<a, b>>[1] = a /\ <<a, b>>[2] = b
  OBVIOUS
<1>2. t = <<a, b>> \o SubSeq(s, 3, Len(s)) BY DEF UnwoundTwice
<1>3. t \in Seq(CallFrames) /\ Follows(s, t, 2, 2) BY <1>1, <1>2, Unwound
<1>4. \A i \in 1 .. Len(<<a, b>>) : t[i] = <<a, b>>[i] BY <1>1, <1>2, Unwound
<1>5. t[1] = a /\ t[2] = b BY <1>1, <1>4
<1>6. Len(s) \in Nat /\ 2 <= Len(s) BY LenProperties
<1> QED BY <1>3, <1>5, <1>6 DEF Turns

\* The exception reaches the apply it was raised in: the load is rolled back.
LEMMA UnwindsApply ==
    ASSUME FiberAssumption, FiberInv, At("raised"), Below.at = "apply", UNCHANGED <<table, calls>>,
           fibers' = [fibers EXCEPT ![Below.f].phase = "unloading", ![Below.f].failed = Below.epoch],
           stack' = <<Frame("disposers", Below.f), Frame("rolledback", Below.f)>> \o SubSeq(stack, 3, Len(stack))
    PROVE  FiberInv'
<1>1. /\ stack # <<>> /\ stack[1].at = "raised" /\ Len(stack) \in Nat \ {0} /\ stack \in Seq(CallFrames)
      /\ \A f : ~On(stack, "unload", f) /\ ~On(stack, "dispose", f)
  BY RaisedTop
<1>2. Len(stack) > 1 BY DEF Below
<1> PICK c : c = stack[2] OBVIOUS
<1>3. Below = c /\ c.at = "apply" /\ 2 \in 1 .. Len(stack) /\ Proper(c, uids) /\ FrameHolds(c, fibers)
  BY <1>2, RaisedTop
<1> PICK f : f = c.f OBVIOUS
<1> PICK e : e = c.epoch OBVIOUS
<1>4. c \in CallFrames BY <1>1, <1>3, ElementOfSeq
<1>5. c \in [at : EpochLabels, f : Fibers, epoch : SUBSET Epochs, pc : Nat]
  BY <1>3, <1>4 DEF CallFrames, FiberLabels, RootLabels, Raised
<1>6. f \in 1 .. (uids - 1) BY <1>3 DEF Proper, EpochLabels
<1>7. f \in Fibers /\ f \in 0 .. (uids - 1) /\ f # Root /\ fibers[f] \in FiberRecords
  <2>1. f \in Fibers /\ f \in 0 .. (uids - 1) /\ f # Root BY <1>6, RootType
  <2> QED BY <2>1 DEF FiberInv, FiberTypes
<1>8. fibers[f].phase = "loading" /\ fibers[f].loaded = None /\ ~fibers[f].disposed
  BY <1>3 DEF FrameHolds
<1> PICK r : r = [fibers[f] EXCEPT !.phase = "unloading", !.failed = e] OBVIOUS
<1>9. /\ r \in FiberRecords /\ r.plugin = fibers[f].plugin /\ r.parent = fibers[f].parent
      /\ r.phase = "unloading" /\ r.loaded = None /\ ~r.disposed
      /\ r.asked = fibers[f].asked /\ r.reconciling = fibers[f].reconciling
  BY <1>5, <1>7, <1>8 DEF FiberRecords
<1>10. fibers' = [fibers EXCEPT ![f] = r] BY <1>3, <1>7 DEF FiberInv, FiberTypes
<1>11. Alters(f, r) /\ fibers'[f] = r /\ effects' = effects
  BY <1>7, <1>9, <1>10 DEF Alters, table, FiberInv, FiberTypes
<1> PICK a : a = Frame("disposers", f) OBVIOUS
<1> PICK b : b = Frame("rolledback", f) OBVIOUS
<1> PICK t : t = stack' OBVIOUS
<1>12. a \in CallFrames /\ a.at = "disposers" /\ a.f = f BY <1>7, FiberFrame DEF RootLabels
<1>13. Proper(a, uids) BY <1>7, <1>12 DEF Proper, RootLabels, FiberLabels, EpochLabels
<1>14. b \in CallFrames /\ Proper(b, uids) /\ b.at = "rolledback" /\ b.f = f BY <1>6, CallTo DEF FiberLabels
<1>15. UnwoundTwice(stack, t, a, b) BY <1>3 DEF UnwoundTwice
<1>16. Turns(stack, t, 2, 2) /\ t[1] = a /\ t[2] = b 
  BY ONLY <1>1, <1>2, <1>12, <1>14, <1>15, UnwindsTwice
<1>17. /\ a.at \notin LoopLabels \cup LoadLabels \cup UndoLabels \cup EmptyLabels \cup {"finalize", "load", "unload", "raised"}
       /\ b.at \notin LoopLabels \cup UndoLabels \cup TopLabels \cup {"finalize", "apply"}
  BY <1>12, <1>14 DEF LoopLabels, LoadLabels, UndoLabels, EmptyLabels, TopLabels
<1>18. New(a, stack, 2) /\ New(b, stack, 2) /\ FrameHolds(a, fibers') BY <1>17, NewPlain, FramePlain
<1>19. FrameHolds(b, fibers')
  <2>1. b.at \notin LoopLabels /\ b.at # "apply" /\ b.at \notin UndoLabels BY <1>17
  <2>2. fibers'[b.f].phase = "unloading" /\ fibers'[b.f].loaded = None BY <1>9, <1>11, <1>14
  <2> QED BY ONLY <2>1, <2>2 DEF FrameHolds
<1>20. Above(b, stack, 2)
  <2>1. stack[Len(stack)].at \notin LoadLabels BY <1>1 DEF FiberInv, Stands, StackHolds
  <2>2. 2 # Len(stack) BY <1>3, <2>1 DEF LoadLabels
  <2>3. Fits(stack[2], stack[3]) /\ 2 + 1 = 3 BY <1>2, <2>2, ThirdCall
  <2>4. stack[3].at = "again" /\ stack[3].f = f BY <1>3, <2>3 DEF Fits, LoadLabels
  <2>5. Fits(b, stack[3]) BY <1>14, <2>4 DEF Fits, TopLabels, EmptyLabels
  <2> QED BY <2>2, <2>3, <2>5 DEF Above
<1>21. Fits(a, b) BY <1>12, <1>14, <1>17 DEF Fits
<1>22. Kind(a, b, LoopLabels) /\ Kind(a, b, UndoLabels) BY <1>17 DEF Kind
<1>23. OldFrames(stack, 2, f, fibers')
  <2>1. ASSUME NEW j \in (2 + 1) .. Len(stack), stack[j].f = f PROVE FrameHolds(stack[j], fibers')
    <3>1. j \in 1 .. Len(stack) /\ j # 2 /\ FrameHolds(stack[j], fibers) BY FromThird
    <3>2. Once(stack, LoadLabels) BY LoadsOnce DEF FiberInv, Stands
    <3>3. stack[j].at \notin LoadLabels BY <1>1, <1>3, <2>1, <3>1, <3>2, Only DEF LoadLabels
    <3>4. stack[j].at \notin UndoLabels BY <1>8, <2>1, <3>1 DEF FrameHolds
    <3>5. stack[j].at # "apply" /\ stack[j].at # "rolledback" BY <3>3 DEF LoadLabels
    <3>6. fibers'[stack[j].f].reconciling = fibers[stack[j].f].reconciling BY <1>9, <1>11, <2>1
    <3> QED BY ONLY <3>1, <3>4, <3>5, <3>6 DEF FrameHolds
  <2> QED BY <2>1 DEF OldFrames
<1>24. TopHolds(t, fibers', effects)
  <2>1. t[1].at \notin EmptyLabels \cup {"finalize", "load", "unload", "raised"} BY <1>16, <1>17
  <2> QED BY <2>1, TopPlain
<1>25. \A i \in 1 .. 2 : stack[i].at \notin LoopLabels \cup {"finalize"}
  <2>1. \A i \in 1 .. 2 : i = 1 \/ i = 2 OBVIOUS
  <2>2. stack[1].at \notin LoopLabels \cup {"finalize"} /\ stack[2].at \notin LoopLabels \cup {"finalize"}
    BY <1>1, <1>3 DEF LoopLabels
  <2> QED BY <2>1, <2>2
<1>26. \A i \in 1 .. 2 : t[i] = a \/ t[i] = b BY <1>16
<1>27. \A i \in 1 .. 2 : Proper(t[i], uids) /\ New(t[i], stack, 2) /\ FrameHolds(t[i], fibers')
  BY <1>13, <1>14, <1>18, <1>19, <1>26
<1>28. \A i \in 1 .. 2 : t[i].at \notin UndoLabels BY <1>17, <1>26
<1>29. \A g \in Fibers : Passes(stack, t, 2, 2, g) BY <1>1, <1>25, <1>28 DEF Passes
<1>30. FiberHolds(f, t, fibers', effects)
  <2>1. FiberHolds(f, stack, fibers, effects) BY <1>7 DEF FiberInv, Stands
  <2>2. In(stack, LoopLabels, f) => In(t, LoopLabels, f) BY <1>16, <1>25, Stays
  <2>3. In(stack, {"finalize"}, f) => In(t, {"finalize"}, f) BY <1>16, <1>25, Stays
  <2>4. Leaving(f, stack, fibers) => Leaving(f, t, fibers')
    BY <1>1, <1>8, <1>9, <1>11, <2>3 DEF Leaving, Stuck
  <2> QED BY <1>1, <1>8, <1>9, <1>11, <2>1, <2>2, <2>4 DEF FiberHolds
<1>31. 2 \in 0 .. 2 /\ 2 # 0 /\ 2 \in Nat OBVIOUS
<1>32. Above(t[2], stack, 2) /\ Fits(t[1], t[2]) /\ Kind(t[1], t[2], LoopLabels) /\ Kind(t[1], t[2], UndoLabels)
  BY <1>16, <1>20, <1>21, <1>22
<1> QED BY <1>11, <1>16, <1>23, <1>24, <1>27, <1>29, <1>30, <1>31, <1>32, QuietStep

\* The exception is caught, or leaves the kernel.
LEMMA UnwindEnds ==
    ASSUME FiberAssumption, FiberInv, At("raised"), Below.at = "host" \/ Below.at \in Catches,
           stack' = <<>> \o Tail(stack), UNCHANGED <<fibers, table, calls>>
    PROVE  FiberInv'
<1>1. stack # <<>> /\ stack[1].at = "raised" BY RaisedTop
<1>2. Root \in 0 .. (uids - 1) BY DEF Root, FiberInv, FiberTypes
<1>3. /\ Alters(Root, fibers[Root]) /\ OldFrames(stack, 1, Root, fibers') /\ Root \in Fibers
      /\ fibers' = fibers /\ effects' = effects
  BY <1>2, NothingChanges
<1>4. About(stack[1], Root) BY <1>1 DEF About, LoopLabels
<1>5. Len(stack) > 1 => stack[2].at \notin EmptyLabels /\ stack[2].at # "finalize"
  BY RaisedTop DEF Catches, EmptyLabels
<1>6. ASSUME Turns(stack, stack', 1, 0) PROVE FiberHolds(Root, stack', fibers', effects)
  <2>1. Passes(stack, stack', 1, 0, Root) BY <1>1 DEF Passes, On, LoopLabels
  <2>2. Alike(fibers[Root], fibers'[Root]) BY <1>3 DEF Alike
  <2> QED BY <1>3, <1>6, <2>1, <2>2, Same
<1> QED BY <1>1, <1>3, <1>4, <1>5, <1>6, QuietPop

\* The exception leaves a call that does not catch it; a round's finally clause runs.
LEMMA UnwindsOn ==
    ASSUME FiberAssumption, FiberInv, At("raised"), Below.at \notin Catches \cup {"apply", "host"},
           fibers' = IF InLoop THEN [fibers EXCEPT ![Below.f].reconciling = FALSE] ELSE fibers,
           stack' = <<Raised>> \o SubSeq(stack, 3, Len(stack)), UNCHANGED <<table, calls>>
    PROVE  FiberInv'
<1>1. /\ stack # <<>> /\ stack[1].at = "raised" /\ Len(stack) \in Nat \ {0} /\ stack \in Seq(CallFrames)
      /\ \A f : ~On(stack, "unload", f) /\ ~On(stack, "dispose", f)
      /\ TopHolds(stack, fibers, effects)
  BY RaisedTop
<1>2. Len(stack) > 1 BY DEF Below
<1> PICK c : c = stack[2] OBVIOUS
<1>3. /\ Below = c /\ 2 \in 1 .. Len(stack) /\ Proper(c, uids) /\ FrameHolds(c, fibers)
      /\ c.at \notin TopLabels
  BY <1>2, RaisedTop
<1>4. c.at \notin Catches \cup {"apply", "host"} BY <1>3
<1> PICK f : f = IF c.at \in FiberLabels \cup EpochLabels THEN c.f ELSE Root OBVIOUS
<1>5. f \in 0 .. (uids - 1) /\ f \in Fibers /\ fibers[f] \in FiberRecords
      /\ (c.at \in FiberLabels \cup EpochLabels => c.f = f /\ f # Root)
  <2>1. Root \in 0 .. (uids - 1) BY DEF Root, FiberInv, FiberTypes
  <2>2. Root \in Fibers BY DEF Root, Fibers, FiberAssumption
  <2>3. CASE c.at \in FiberLabels \cup EpochLabels
    <3>1. f \in 1 .. (uids - 1) /\ c.f = f BY <1>3, <2>3 DEF Proper
    <3>2. f \in Fibers /\ f \in 0 .. (uids - 1) /\ f # Root BY <3>1, RootType
    <3> QED BY <3>1, <3>2 DEF FiberInv, FiberTypes
  <2>4. CASE c.at \notin FiberLabels \cup EpochLabels BY <2>1, <2>2, <2>4 DEF FiberInv, FiberTypes
  <2> QED BY <2>3, <2>4
<1>6. c.at \in LoopLabels => c.f = f /\ c.at \in FiberLabels \cup EpochLabels
  BY <1>5 DEF LoopLabels, FiberLabels, EpochLabels
<1>7. c.at \in {"finalize"} \cup UndoLabels => c.f = f BY <1>5 DEF FiberLabels, UndoLabels
<1>8. InLoop <=> c.at \in LoopLabels BY <1>3 DEF InLoop, LoopLabels
<1> PICK r : r = IF c.at \in LoopLabels THEN [fibers[f] EXCEPT !.reconciling = FALSE] ELSE fibers[f] OBVIOUS
<1>9. /\ r \in FiberRecords /\ r.plugin = fibers[f].plugin /\ Alike(fibers[f], r)
      /\ IF c.at \in LoopLabels THEN ~r.reconciling ELSE r.reconciling = fibers[f].reconciling
  BY <1>5 DEF FiberRecords, Alike
<1>10. fibers' = [fibers EXCEPT ![f] = r]
  <2>1. CASE c.at \in LoopLabels BY <1>3, <1>6, <1>8, <2>1
  <2>2. CASE c.at \notin LoopLabels BY <1>5, <1>8, <2>2 DEF FiberInv, FiberTypes
  <2> QED BY <2>1, <2>2
<1>11. Alters(f, r) /\ fibers'[f] = r /\ effects' = effects
  <2>1. fibers'[f] = r BY <1>5, <1>10 DEF FiberInv, FiberTypes
  <2>2. f = Root => fibers[f].loaded # None /\ ~fibers[f].disposed /\ ~fibers[f].asked
    BY DEF FiberInv, Created
  <2>3. f = Root => r.loaded # None /\ ~r.disposed /\ ~r.asked BY <1>9, <2>2 DEF Alike
  <2>4. calls' \in 0 .. MaxCalls BY DEF FiberInv, FiberTypes
  <2>5. r.parent = fibers[f].parent BY <1>9 DEF Alike
  <2> QED BY <1>5, <1>9, <1>10, <2>1, <2>3, <2>4, <2>5 DEF Alters, table
<1> PICK a : a = Raised OBVIOUS
<1> PICK t : t = stack' OBVIOUS
<1>12. a \in CallFrames /\ a.at = "raised" BY OtherFrames
<1>13. Proper(a, uids) BY <1>12 DEF Proper, FiberLabels, EpochLabels, RootLabels
<1>14. UnwoundTo(stack, t, a) BY DEF UnwoundTo
<1>15. Turns(stack, t, 2, 1) /\ t[1] = a BY ONLY <1>1, <1>2, <1>12, <1>14, UnwindsTo
<1>16. a.at \notin LoopLabels \cup LoadLabels \cup UndoLabels \cup EmptyLabels \cup {"finalize"}
  BY <1>12 DEF LoopLabels, LoadLabels, UndoLabels, EmptyLabels
<1>17. New(a, stack, 2) /\ FrameHolds(a, fibers') BY <1>16, NewPlain, FramePlain
<1>18. 2 # Len(stack) => /\ stack[3].at \notin TopLabels /\ stack[3].at \notin EmptyLabels
                         /\ stack[3].at = "finalize" =>
                               c.at \in {"undo", "unloaded", "finalize"} /\ c.f = stack[3].f
                         /\ 2 + 1 = 3
  <2>1. 2 # Len(stack) => Fits(c, stack[3]) /\ 2 + 1 = 3 BY <1>2, ThirdCall
  <2> QED BY <1>3, <1>4, <2>1 DEF Fits, Catches, TopLabels
<1>19. Above(a, stack, 2)
  <2>1. 2 # Len(stack) => Fits(a, stack[3]) /\ 2 + 1 = 3 BY <1>12, <1>16, <1>18 DEF Fits
  <2> QED BY <1>16, <2>1 DEF Above
<1>20. OldFrames(stack, 2, f, fibers')
  <2>1. ASSUME NEW j \in (2 + 1) .. Len(stack), stack[j].f = f PROVE FrameHolds(stack[j], fibers')
    <3>1. j \in 1 .. Len(stack) /\ j # 2 /\ FrameHolds(stack[j], fibers) BY FromThird
    <3>2. Once(stack, LoopLabels) BY DEF FiberInv, Stands, StackHolds
    <3>3. c.at \in LoopLabels => stack[j].at \notin LoopLabels BY <1>1, <1>3, <1>6, <2>1, <3>1, <3>2, Only
    <3> QED BY <1>9, <1>11, <2>1, <3>1, <3>3 DEF FrameHolds, Alike
  <2> QED BY <2>1 DEF OldFrames
<1>21. ASSUME NEW g, In(t, UndoLabels, g) PROVE In(stack, UndoLabels, g)
  <2>1. \A i \in 1 .. 1 : ~(t[i].at \in UndoLabels /\ t[i].f = g)
    <3>1. \A i \in 1 .. 1 : t[i] = a BY ONLY <1>15
    <3> QED BY <1>16, <3>1
  <2> QED BY <1>15, <1>21, <2>1, Was
\* What the exception leaves unloading stays so.
<1>22. ASSUME c.at \in {"undo", "unloaded", "finalize"} PROVE Stuck(f, t, fibers')
  <2>1. c.f = f BY <1>7, <1>22 DEF UndoLabels
  <2>2. CASE c.at = "finalize"
    <3>1. Stuck(f, stack, fibers) BY <1>1, <1>2, <2>1, <2>2 DEF TopHolds
    <3> QED BY <1>9, <1>11, <1>21, <3>1 DEF Stuck, Alike
  <2>3. CASE c.at \in UndoLabels
    <3>1. fibers[f].phase = "unloading" /\ fibers[f].loaded # None BY <1>3, <2>1, <2>3 DEF FrameHolds
    <3>2. ~In(t, UndoLabels, f)
      <4>1. SUFFICES ASSUME In(t, UndoLabels, f) PROVE FALSE OBVIOUS
      <4>0. Len(stack) \in Nat /\ 2 \in Nat /\ 1 \in Nat /\ 2 <= Len(stack) /\ Follows(stack, t, 2, 1)
        BY <1>15 DEF Turns
      <4>2. \A i \in 1 .. 1 : t[i] = a BY ONLY <1>15
      <4>3. \A i \in 1 .. 1 : ~(t[i].at \in UndoLabels /\ t[i].f = f) BY <1>16, <4>2
      <4>4. PICK j \in (2 + 1) .. Len(stack) : stack[j].at \in UndoLabels /\ stack[j].f = f
        BY ONLY <4>0, <4>1, <4>3, InBefore
      <4>5. j \in 1 .. Len(stack) /\ j # 2 BY FromThird
      <4>6. Once(stack, UndoLabels) BY DEF FiberInv, Stands, StackHolds
      <4> QED BY <1>1, <1>3, <2>1, <2>3, <4>4, <4>5, <4>6, Only
    <3> QED BY <1>9, <1>11, <3>1, <3>2 DEF Stuck, Alike
  <2> QED BY <1>22, <2>2, <2>3 DEF UndoLabels
<1>23. TopHolds(t, fibers', effects)
  <2>1. t[1].at = "raised" BY <1>12, <1>15
  <2>2. ASSUME Len(t) > 1, t[2].at = "finalize" PROVE Stuck(t[2].f, t, fibers')
    <3>1. 2 # Len(stack) /\ t[2] = stack[3]
      <4>1. Len(t) = 1 + (Len(stack) - 2) /\ Len(t) \in Nat BY <1>15, LenProperties DEF Turns, Follows
      <4>2. 2 # Len(stack) BY <1>1, <2>2, <4>1
      <4>3. 2 \in (1 + 1) .. Len(t) /\ 2 - 1 + 2 = 3 BY <2>2, <4>1
      <4> QED BY <1>15, <4>2, <4>3 DEF Turns, Follows
    <3>2. c.at \in {"undo", "unloaded", "finalize"} /\ c.f = t[2].f BY <1>18, <2>2, <3>1
    <3>3. t[2].f = f BY <1>7, <3>2 DEF UndoLabels
    <3> QED BY <1>22, <3>2, <3>3
  <2> QED BY <2>1, <2>2 DEF TopHolds, EmptyLabels
<1>24. \A i \in 1 .. 2 : i = 1 \/ i = 2 OBVIOUS
<1>25. ASSUME NEW g \in Fibers, g # f PROVE Passes(stack, t, 2, 1, g)
  <2>1. \A i \in 1 .. 1 : t[i] = a BY ONLY <1>15
  <2>2. \A i \in 1 .. 1 : ~(t[i].at \in UndoLabels /\ t[i].f = g) BY <1>16, <2>1
  <2>3. stack[1].at \notin LoopLabels \cup {"finalize"} BY <1>1 DEF LoopLabels
  <2>4. ~(c.at \in LoopLabels \cup {"finalize"} /\ c.f = g) BY <1>6, <1>7, <1>25
  <2>5. \A i \in 1 .. 2 : ~(stack[i].at \in LoopLabels \cup {"finalize"} /\ stack[i].f = g)
    BY <1>24, <2>3, <2>4
  <2> QED BY <1>1, <2>2, <2>5 DEF Passes
<1>26. FiberHolds(f, t, fibers', effects)
  <2>1. FiberHolds(f, stack, fibers, effects) BY <1>5 DEF FiberInv, Stands
  <2>2. fibers'[f].reconciling => In(t, LoopLabels, f)
    <3>1. CASE c.at \in LoopLabels BY <1>9, <1>11, <3>1
    <3>2. CASE c.at \notin LoopLabels
      <4>1. \A i \in 1 .. 2 : ~(stack[i].at \in LoopLabels /\ stack[i].f = f)
        BY <1>1, <1>24, <3>2 DEF LoopLabels
      <4>2. In(stack, LoopLabels, f) => In(t, LoopLabels, f) BY <1>15, <4>1, Stays
      <4> QED BY <1>9, <1>11, <2>1, <3>2, <4>2 DEF FiberHolds
    <3> QED BY <3>1, <3>2
  <2>3. In(stack, {"finalize"}, f) => In(t, {"finalize"}, f) \/ Stuck(f, t, fibers')
    <3>1. CASE c.at = "finalize" BY <1>22, <3>1
    <3>2. CASE c.at # "finalize"
      <4>1. \A i \in 1 .. 2 : ~(stack[i].at \in {"finalize"} /\ stack[i].f = f)
        BY <1>1, <1>24, <3>2
      <4> QED BY <1>15, <4>1, Stays
    <3> QED BY <3>1, <3>2
  <2>4. Alike(fibers[f], fibers'[f]) BY <1>9, <1>11
  <2>5. effects[f] = effects'[f] /\ effects'[fibers[f].parent] = effects[fibers[f].parent] BY <1>11
  <2>6. /\ In(t, UndoLabels, f) => In(stack, UndoLabels, f)
        /\ On(stack, "unload", f) => On(t, "unload", f) \/ fibers[f].loaded = None \/ fibers[f].phase # "none"
        /\ On(stack, "dispose", f) => On(t, "dispose", f) \/ fibers[f].disposed
    BY <1>1, <1>21
  <2> QED BY ONLY <2>1, <2>2, <2>3, <2>4, <2>5, <2>6, OthersHold
<1>27. \A i \in 1 .. 1 : t[i] = a BY ONLY <1>15
<1>28. \A i \in 1 .. 1 : Proper(t[i], uids) /\ New(t[i], stack, 2) /\ FrameHolds(t[i], fibers')
  BY <1>13, <1>17, <1>27
<1>29. Above(t[1], stack, 2) BY <1>15, <1>19
<1>30. 2 \in Nat /\ 1 \in 0 .. 2 /\ 1 # 2 OBVIOUS
<1> QED BY <1>11, <1>15, <1>20, <1>23, <1>25, <1>26, <1>28, <1>29, <1>30, QuietStep

LEMMA UnwindHolds ==
    ASSUME FiberAssumption, FiberInv, Unwind
    PROVE  FiberInv'
<1>1. At("raised") /\ UNCHANGED <<table, calls>> BY DEF Unwind
<1>2. CASE /\ Below.at = "apply"
           /\ fibers' = [fibers EXCEPT ![Below.f].phase = "unloading", ![Below.f].failed = Below.epoch]
           /\ stack' = <<Frame("disposers", Below.f), Frame("rolledback", Below.f)>>
                          \o SubSeq(stack, 3, Len(stack))
  BY <1>1, <1>2, UnwindsApply
<1>3. CASE (Below.at = "host" \/ Below.at \in Catches) /\ Then(<<>>) /\ UNCHANGED fibers
  BY <1>1, <1>3, UnwindEnds DEF Then
<1>4. CASE /\ Below.at \notin Catches \cup {"apply", "host"}
           /\ fibers' = IF InLoop THEN [fibers EXCEPT ![Below.f].reconciling = FALSE] ELSE fibers
           /\ stack' = <<Raised>> \o SubSeq(stack, 3, Len(stack))
  BY <1>1, <1>4, UnwindsOn
<1> QED BY <1>2, <1>3, <1>4 DEF Unwind

---------------------------------------------------------------------------
(* The kernel. *)

LEMMA FiberStarts ==
    ASSUME FiberAssumption, Init
    PROVE  FiberInv
<1>1. Root \in Fibers /\ MaxFibers \in Nat /\ MaxCalls \in Nat BY DEF Root, Fibers, FiberAssumption
<1>2. RootFiber \in FiberRecords /\ NotCreated \in FiberRecords
  BY <1>1 DEF RootFiber, NotCreated, NewFiber, FiberRecords, None, Epochs
<1>3. /\ NoImpl \in [owner : Fibers, serial : Nat] /\ NoImpl.owner = Root /\ NoImpl.serial = 0
  BY <1>1 DEF NoImpl
<1>4. /\ fibers = [f \in Fibers |-> IF f = Root THEN RootFiber ELSE NotCreated]
      /\ live = <<>> /\ effects = [f \in Fibers |-> <<>>] /\ impls = [n \in Services |-> NoImpl]
      /\ serial = 1 /\ uids = 1 /\ stack = <<>> /\ calls = 0
  BY DEF Init
<1>5. /\ RootFiber.parent = Root /\ RootFiber.loaded # None /\ ~RootFiber.disposed /\ ~RootFiber.asked
      /\ ~RootFiber.reconciling
      /\ NotCreated.parent = Root /\ NotCreated.disposed /\ ~NotCreated.asked /\ ~NotCreated.reconciling
  BY DEF RootFiber, NotCreated, NewFiber, None
<1>6. FiberTypes
  <2>1. <<>> \in Seq(EffectRecords) /\ <<>> \in Seq(Fibers) OBVIOUS
  <2>2. uids \in 1 .. (MaxFibers + 1) BY <1>1, <1>4
  <2>3. serial \in Nat \ {0} /\ calls \in 0 .. MaxCalls BY <1>1, <1>4
  <2> QED BY <1>2, <1>3, <1>4, <2>1, <2>2, <2>3 DEF FiberTypes
<1>7. Created
  <2>1. 1 .. (uids - 1) = {} /\ Root \in 0 .. (uids - 1) /\ 0 < serial BY <1>4 DEF Root
  <2>2. ASSUME NEW f \in Fibers
        PROVE  /\ IF f \in 1 .. (uids - 1) THEN fibers[f].plugin \in Plugins ELSE f # Root => fibers[f].disposed
               /\ fibers[f].parent \in 0 .. (uids - 1)
    BY <1>4, <1>5, <2>1
  <2>3. \A i \in 1 .. Len(live) : live[i] \in 1 .. (uids - 1) BY <1>4
  <2>4. \A f \in Fibers : \A i \in 1 .. Len(effects[f]) :
          effects[f][i].kind = "child" => effects[f][i].id \in 1 .. (uids - 1)
    BY <1>4
  <2>5. fibers[Root].loaded # None /\ ~fibers[Root].disposed /\ ~fibers[Root].asked BY <1>1, <1>4, <1>5
  <2>6. \A n \in Services : impls[n].owner \in 0 .. (uids - 1) /\ impls[n].serial < serial
    BY <1>3, <1>4, <2>1
  <2> QED BY <2>2, <2>3, <2>4, <2>5, <2>6 DEF Created
<1>8. Registered BY <1>3, <1>4 DEF Registered
<1>9. Stands(stack, uids, fibers, effects)
  <2>1. StackHolds(stack, uids) BY <1>4 DEF StackHolds, Once
  <2>2. ASSUME NEW f \in Fibers PROVE FiberHolds(f, stack, fibers, effects)
    <3>1. effects[f] = <<>> /\ ~fibers[f].reconciling /\ ~fibers[f].asked BY <1>4, <1>5
    <3>2. f # Root => fibers[f].disposed BY <1>4, <1>5
    <3> QED BY <3>1, <3>2 DEF FiberHolds
  <2> QED BY <1>4, <2>1, <2>2 DEF Stands
<1> QED BY <1>6, <1>7, <1>8, <1>9 DEF FiberInv

LEMMA FiberGoes ==
    ASSUME FiberAssumption, FiberInv, Next
    PROVE  FiberInv'
<1>1. CASE Step
  BY <1>1, ReconcileHolds, DecideHolds, DecidedHolds, AgainHolds, LoadHolds, ApplyProvidesHolds,
     ApplyMountsHolds, ApplyFailsHolds, ApplyEndsHolds, UnloadHolds, UndoHolds, DisposersHolds,
     TeardownHolds, UnloadedHolds, RolledBackHolds, DisposeHolds, FinalizeHolds, RestartHolds,
     RetryHolds, NotifyHolds, UnwindHolds, CaughtHolds, ClosedHolds DEF Step
<1>2. CASE Call
  BY <1>2, CallMountHolds, CallDisposeHolds, CallRestartHolds, CallProvideHolds, CallWithdrawHolds,
     CallCloseHolds DEF Call
<1> QED BY <1>1, <1>2 DEF Next

LEMMA FiberStays ==
    ASSUME FiberAssumption, FiberInv, UNCHANGED vars
    PROVE  FiberInv'
<1>1. /\ fibers' = fibers /\ live' = live /\ effects' = effects /\ impls' = impls /\ serial' = serial
      /\ uids' = uids /\ stack' = stack /\ calls' = calls
  BY DEF vars
<1>2. FiberTypes' BY <1>1 DEF FiberInv, FiberTypes
<1>3. Created' BY <1>1 DEF FiberInv, Created
<1>4. Registered' BY <1>1 DEF FiberInv, Registered
<1>5. Stands(stack', uids', fibers', effects') BY <1>1 DEF FiberInv
<1> QED BY <1>2, <1>3, <1>4, <1>5 DEF FiberInv

LEMMA Typed ==
    ASSUME FiberAssumption, FiberInv
    PROVE  TypeOK
<1>1. MaxFibers \in Nat BY DEF FiberAssumption
<1>2. ASSUME NEW f \in Fibers
      PROVE  /\ fibers[f].plugin \in Plugins \cup {NoPlugin}
             /\ fibers[f].parent \in Fibers
             /\ fibers[f].phase \in {"none", "loading", "unloading"}
             /\ \A e \in fibers[f].loaded \cup fibers[f].failed : e \in Epochs
             /\ \A i \in 1 .. Len(effects[f]) : effects[f][i].kind \in {"apply", "child", "provide"}
  <2>1. fibers[f] \in FiberRecords /\ effects[f] \in Seq(EffectRecords) BY DEF FiberInv, FiberTypes
  <2>2. \A i \in 1 .. Len(effects[f]) : effects[f][i] \in EffectRecords BY <2>1
  <2> QED BY <2>1, <2>2 DEF FiberRecords, EffectRecords
<1>3. Live \subseteq 1 .. MaxFibers
  <2>1. uids \in 1 .. (MaxFibers + 1) BY DEF FiberInv, FiberTypes
  <2>2. 1 .. (uids - 1) \subseteq 1 .. MaxFibers BY <1>1, <2>1
  <2>3. \A i \in 1 .. Len(live) : live[i] \in 1 .. (uids - 1) BY DEF FiberInv, Created
  <2> QED BY <2>2, <2>3 DEF Live
<1>4. \A n \in Services : impls[n].owner \in Fibers /\ impls[n].serial < serial
  BY DEF FiberInv, FiberTypes, Created
<1>5. uids \in 1 .. (MaxFibers + 1) /\ calls \in 0 .. MaxCalls BY DEF FiberInv, FiberTypes
<1> QED BY <1>2, <1>3, <1>4, <1>5 DEF TypeOK

LEMMA OrphansNothing ==
    ASSUME FiberAssumption, FiberInv
    PROVE  NothingIsOrphaned
<1>1. ASSUME NEW n \in Services, impls[n].serial # 0
      PROVE  Has(impls[n].owner, ServiceOf(impls[n].serial))
  BY <1>1 DEF FiberInv, Registered, Lists, Has
<1>2. ASSUME NEW f \in Fibers, effects[f] # <<>>
      PROVE  State(f) \in {"active", "loading", "unloading"}
  <2>1. FiberHolds(f, stack, fibers, effects) BY DEF FiberInv, Stands
  <2>2. ~fibers[f].disposed /\ (fibers[f].phase # "none" \/ fibers[f].loaded # None)
    BY <1>2, <2>1 DEF FiberHolds
  <2>3. fibers[f].phase \in {"none", "loading", "unloading"} BY DEF FiberInv, FiberTypes, FiberRecords
  <2>4. CASE fibers[f].phase # "none" BY <2>2, <2>3, <2>4 DEF State
  <2>5. CASE fibers[f].phase = "none" /\ fibers[f].loaded # None BY <2>2, <2>5 DEF State
  <2> QED BY <2>2, <2>4, <2>5
<1>3. ASSUME Idle, NEW f \in Fibers \ {Root}
      PROVE  /\ ~fibers[f].reconciling
             /\ State(f) \in {"active", "pending", "failed"} =>
                  ~fibers[f].asked /\ Has(fibers[f].parent, ChildOf(f))
  <2>1. FiberHolds(f, stack, fibers, effects) /\ f # Root BY DEF FiberInv, Stands
  <2>2. stack = <<>> BY <1>3 DEF Idle
  <2>3. \A labels : ~In(stack, labels, f) BY <2>2 DEF In
  <2>4. ~On(stack, "unload", f) /\ ~On(stack, "dispose", f) BY <2>2 DEF On
  <2>5. fibers[f].phase \in {"none", "loading", "unloading"} BY DEF FiberInv, FiberTypes, FiberRecords
  <2>6. ASSUME State(f) \in {"active", "pending", "failed"}
        PROVE  ~fibers[f].disposed /\ fibers[f].phase = "none"
    <3>1. ~fibers[f].disposed BY <2>6 DEF State
    <3>2. fibers[f].phase # "none" => State(f) = fibers[f].phase BY <3>1 DEF State
    <3> QED BY <2>5, <2>6, <3>1, <3>2
  <2>7. ~fibers[f].reconciling BY <2>1, <2>3 DEF FiberHolds
  <2>8. ASSUME State(f) \in {"active", "pending", "failed"}
        PROVE  ~fibers[f].asked /\ Has(fibers[f].parent, ChildOf(f))
    <3>1. ~fibers[f].disposed /\ fibers[f].phase = "none" BY <2>6, <2>8
    <3>2. ~Leaving(f, stack, fibers) BY <2>3, <2>4, <3>1 DEF Leaving, Stuck
    <3>3. Lists(effects[fibers[f].parent], ChildOf(f)) /\ ~fibers[f].asked
      BY <2>1, <2>4, <3>1, <3>2 DEF FiberHolds
    <3> QED BY <3>3 DEF Lists, Has
  <2> QED BY <2>7, <2>8
<1> QED BY <1>1, <1>2, <1>3 DEF NothingIsOrphaned

\* The fibers, their effects and the services keep their types.
THEOREM FiberTypesCorrect == ASSUME FiberAssumption PROVE Spec => []TypeOK
<1>1. Init => FiberInv BY FiberStarts
<1>2. FiberInv /\ [Next]_vars => FiberInv' BY FiberGoes, FiberStays
<1>3. FiberInv => TypeOK BY Typed
<1> QED BY <1>1, <1>2, <1>3, PTL DEF Spec

\* fiber.py: whatever is called and raised, and wherever a call has got to, nothing is
\* without an owner that undoes it.
THEOREM FibersCorrect == ASSUME FiberAssumption PROVE Spec => []NothingIsOrphaned
<1>1. Init => FiberInv BY FiberStarts
<1>2. FiberInv /\ [Next]_vars => FiberInv' BY FiberGoes, FiberStays
<1>3. FiberInv => NothingIsOrphaned BY OrphansNothing
<1> QED BY <1>1, <1>2, <1>3, PTL DEF Spec
=============================================================================
