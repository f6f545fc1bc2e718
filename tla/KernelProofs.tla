---------------------------- MODULE KernelProofs ----------------------------
(***************************************************************************)
(* The event bus, the composition and the start of module Kernel, for any  *)
(* listeners, events, patches, plugins and bounds; and what module         *)
(* FiberProofs proves of the fibers, as a part of the kernel.              *)
(***************************************************************************)
EXTENDS FiberProofs, Kernel, WellFoundedInduction

---------------------------------------------------------------------------
(* The start of a program.  Only a call of ensure_ready() lies beneath a   *)
(* call of ensure_ready(), because it refuses while plugins change; so no  *)
(* change is under way when one ends.  Without loaders that call back, one *)
(* is alone, and every step it still has to look at is on its list.        *)

ChangeFrames == [call : {"change"}, plugin : Entries]
ReadyFrames ==
    [call : {"ready"}, at : {"resolving"}, failed : BOOLEAN, names : SUBSET Entries]
        \cup [call : {"ready"}, at : {"loading"}, failed : BOOLEAN, names : SUBSET Entries,
              plugin : Entries]

StartTypes ==
    /\ enabled \subseteq Entries
    /\ pending \in Seq(ChangeFrames \cup ReadyFrames)
    /\ fixed \in BOOLEAN /\ closing \in BOOLEAN /\ ready \in BOOLEAN
    /\ Start!TypeOK
    /\ phase # "booted" => pending = <<>> /\ ~ready /\ ~closing

\* No change lies beneath a call of ensure_ready(), and closing ends them all.
ReadyBeneath ==
    /\ \A i, j \in 1 .. Len(pending) : i < j /\ pending[j].call = "ready" => pending[i].call = "ready"
    /\ closing => ~ready /\ \A i \in 1 .. Len(pending) : pending[i].call = "change"

\* The steps a call of ensure_ready() has looked at are imported, or it has noted a failure.
Looked(f) ==
    /\ Start!Active(enabled)
    /\ f.at = "loading" => lazy[f.plugin] = "unresolved"
    /\ \A p \in Entries :
          \/ lazy[p] \in {"none", "imported"} \/ p \in f.names
          \/ f.at = "loading" /\ p = f.plugin
          \/ lazy[p] = "broken" /\ f.failed

ReadyAlone ==
    \A i \in 1 .. Len(pending) :
        pending[i].call = "ready" => i = Len(pending) /\ i = 1 /\ Looked(pending[i])

StartInv ==
    /\ StartTypes /\ ReadyBeneath /\ Start!NothingUnderWay
    /\ ~LoadersCall => ReadyAlone /\ Start!ReadyIsComplete
---------------------------------------------------------------------------
(* The event bus.  A waterfall may have several frames on the stack, but   *)
(* all except the last have used their next() and only wait; the frame     *)
(* that may still call has seen everything before its position, and those  *)
(* it passed over stay inactive, because a registration is made once.      *)

BusFrames ==
    [id : Nat, mode : Modes, chain : Seq(Listener), at : Nat \ {0}, running : BOOLEAN,
     used : BOOLEAN]

BusTypes ==
    /\ bus \in [Event -> Seq(Listener)] /\ fresh \subseteq Listener /\ active \subseteq Listener
    /\ under \in Seq(BusFrames) /\ count \in Nat
    /\ called \in Seq(Nat \X Nat \X Listener) /\ defaults \in Seq(Nat)

\* A listener is in one place of its event's list.
Unrepeated == \A e \in Event : \A i, j \in 1 .. Len(bus[e]) : bus[e][i] = bus[e][j] => i = j

\* Nobody is called, and no default runs, for a dispatch that has not begun.
Begun ==
    /\ \A i \in 1 .. Len(under) : under[i].id \in 1 .. count
    /\ \A i \in 1 .. Len(called) : called[i][1] \in 1 .. count
    /\ \A i \in 1 .. Len(defaults) : defaults[i] \in 1 .. count

\* Only a waterfall's listener uses its next(), while it runs; of a dispatch, only the
\* last frame has not; and what a frame goes through was registered.
OneCaller ==
    \A i \in 1 .. Len(under) :
        /\ under[i].used => under[i].running /\ under[i].mode = "waterfall"
        /\ \A j \in 1 .. Len(under) : i < j /\ under[i].id = under[j].id => under[i].used
        /\ \A k \in 1 .. Len(under[i].chain) : under[i].chain[k] \notin fresh

\* The positions a frame is through with: those before the listener that runs, and its own.
Passed(f, k) == k < f.at \/ (f.running /\ k = f.at)

\* A frame that may still call has called nobody beyond its position, has passed nobody
\* who is still registered, and its default has not run.
Recorded(f) ==
    /\ \A c \in 1 .. Len(called) : called[c][1] = f.id => Passed(f, called[c][2])
    /\ \A d \in 1 .. Len(defaults) : defaults[d] # f.id
    /\ \A k \in 1 .. Len(f.chain) : Passed(f, k) /\ f.chain[k] \in active =>
          \E c \in 1 .. Len(called) : called[c] = <<f.id, k, f.chain[k]>>

Records == \A i \in 1 .. Len(under) : ~under[i].used => Recorded(under[i])

BusInv ==
    BusTypes /\ Bus!TypeOK /\ Unrepeated /\ Begun /\ OneCaller /\ Records /\ Bus!CalledOnceInOrder

---------------------------------------------------------------------------
(* Stacks.                                                                 *)

\* A stack without its last call.
LEMMA WithoutLast ==
    ASSUME NEW S, NEW s \in Seq(S), s # <<>>
    PROVE  LET t == SubSeq(s, 1, Len(s) - 1) IN
           /\ t \in Seq(S) /\ Len(t) = Len(s) - 1
           /\ \A i \in 1 .. Len(t) : t[i] = s[i]
<1>1. Len(s) \in Nat \ {0} BY EmptySeq
<1>2. \A i \in 1 .. (Len(s) - 1) : s[i] \in S BY <1>1
<1> DEFINE n == Len(s) - 1
<1>3. n \in Int /\ 1 \in Int /\ \A i \in 1 .. n : s[i] \in S BY <1>1, <1>2
<1> HIDE DEF n
<1>4. /\ SubSeq(s, 1, n) \in Seq(S) /\ Len(SubSeq(s, 1, n)) = IF 1 <= n THEN n - 1 + 1 ELSE 0
      /\ \A i \in 1 .. n - 1 + 1 : SubSeq(s, 1, n)[i] = s[1 + i - 1]
  BY <1>3, SubSeqProperties
<1>5. n \in Nat BY <1>1 DEF n
<1>6. Len(SubSeq(s, 1, n)) = n BY <1>4, <1>5
<1>7. \A i \in 1 .. n : i \in 1 .. n - 1 + 1 /\ 1 + i - 1 = i BY <1>5
<1>8. \A i \in 1 .. n : SubSeq(s, 1, n)[i] = s[i] BY <1>4, <1>7
<1> QED BY <1>4, <1>6, <1>8 DEF n

\* A stack whose last call has changed.
LEMMA WithLast ==
    ASSUME NEW S, NEW s \in Seq(S), s # <<>>, NEW f \in S
    PROVE  LET t == [s EXCEPT ![Len(s)] = f] IN
           /\ t \in Seq(S) /\ Len(t) = Len(s) /\ t # <<>>
           /\ t[Len(s)] = f /\ \A i \in 1 .. (Len(s) - 1) : t[i] = s[i]
<1>1. Len(s) \in 1 .. Len(s) BY EmptySeq
<1> QED BY <1>1, ExceptSeq

\* A set of natural numbers has a least one.
LEMMA LeastNumber ==
    ASSUME NEW T \in SUBSET Nat, T # {}
    PROVE  \E x \in T : \A y \in T : x <= y
<1> DEFINE R == OpToRel(<, Nat)
<1>1. IsWellFoundedOn(R, Nat) BY NatLessThanWellFounded
<1>2. R = {pair \in Nat \X Nat : pair[1] < pair[2]} BY DEF OpToRel
<1>3. \A x, y \in Nat : x < y => <<x, y>> \in R BY <1>2
<1> HIDE DEF R
<1>4. PICK x \in T : \A y \in T : <<y, x>> \notin R BY <1>1, WFMin
<1>5. ASSUME NEW y \in T PROVE x <= y
  <2>1. ~(y < x) BY <1>3, <1>4
  <2> QED BY <2>1
<1> QED BY <1>5

---------------------------------------------------------------------------
(* The start of a program: every action keeps the strengthening.           *)

LEMMA StartInit ==
    ASSUME Start!StartupAssumption, Start!Init
    PROVE  StartInv
<1>1. pending = <<>> /\ pending \in Seq(ChangeFrames \cup ReadyFrames) /\ Len(pending) = 0
  BY DEF Start!Init
<1>2. StartTypes
  <2>1. Start!TypeOK
    BY <1>1 DEF Start!StartupAssumption, Start!Init, Start!TypeOK, Start!States, Start!Lazy
  <2> QED BY <1>1, <2>1 DEF Start!Init, StartTypes
<1> QED BY <1>1, <1>2 DEF Start!Init, StartInv, ReadyBeneath, ReadyAlone,
           Start!NothingUnderWay, Start!Changing, Start!ReadyIsComplete

LEMMA StartMount ==
    ASSUME StartInv, NEW p \in Entries, Start!Mount(p)
    PROVE  StartInv' /\ Start!SetIsFixed
<1>1. StartTypes'
  <2>1. state' \in [Entries -> Start!States]
    BY DEF Start!Mount, StartInv, StartTypes, Start!TypeOK, Start!States
  <2>2. PICK l \in [Entries -> Start!Lazy] :
          /\ \A q \in Entries : IF state'[q] # state[q] THEN l[q] \in Start!Registers(state'[q])
                                                         ELSE l[q] = lazy[q]
          /\ lazy' = l
    BY DEF Start!Mount
  <2>3. \A q \in Entries : lazy'[q] # "none" => state'[q] = "active"
    BY <2>2 DEF Start!Registers, StartInv, StartTypes, Start!TypeOK
  <2> QED BY <2>1, <2>2, <2>3 DEF Start!Mount, StartInv, StartTypes, Start!TypeOK
<1>2. pending = <<>> /\ ~ready /\ ~closing
  BY DEF Start!Mount, StartInv, StartTypes
<1> QED BY <1>1, <1>2 DEF Start!Mount, StartInv, ReadyBeneath, ReadyAlone, Start!NothingUnderWay,
           Start!Changing, Start!ReadyIsComplete, Start!SetIsFixed

LEMMA StartAudit ==
    ASSUME StartInv, Start!Audit
    PROVE  StartInv' /\ Start!SetIsFixed
BY DEF Start!Audit, StartInv, StartTypes, Start!TypeOK, ReadyBeneath, ReadyAlone,
       Start!NothingUnderWay, Start!Changing, Start!ReadyIsComplete, Start!SetIsFixed

\* The innermost call is a call, and a call of ensure_ready() lies on no change.
LEMMA InnermostCall ==
    ASSUME StartInv, pending # <<>>
    PROVE  /\ Len(pending) \in Nat \ {0} /\ pending \in Seq(ChangeFrames \cup ReadyFrames)
           /\ Start!Top \in ChangeFrames \cup ReadyFrames
           /\ Start!Top.call \in {"change", "ready"}
           /\ phase = "booted"
           /\ Start!Top.call = "ready" => ~Start!Changing /\ ~closing
<1>1. pending \in Seq(ChangeFrames \cup ReadyFrames) BY DEF StartInv, StartTypes
<1>2. Len(pending) \in Nat \ {0} BY <1>1, EmptySeq
<1>3. Start!Top \in ChangeFrames \cup ReadyFrames BY <1>1, <1>2 DEF Start!Top
<1>4. Start!Top.call \in {"change", "ready"} BY <1>3 DEF ChangeFrames, ReadyFrames
<1>5. phase = "booted" BY DEF StartInv, StartTypes
<1>6. ASSUME Start!Top.call = "ready" PROVE ~Start!Changing /\ ~closing
  <2>1. \A i \in 1 .. Len(pending) : pending[i].call = "ready"
    BY <1>1, <1>2, <1>6 DEF Start!Top, StartInv, ReadyBeneath
  <2> QED BY <1>2, <2>1 DEF Start!Changing, StartInv, ReadyBeneath
<1> QED BY <1>1, <1>2, <1>3, <1>4, <1>5, <1>6

\* Of the innermost frame alone: the frames beneath it stay.
LEMMA PoppedChecks ==
    ASSUME StartInv, pending # <<>>, pending' = Start!Front(pending)
    PROVE  /\ pending' \in Seq(ChangeFrames \cup ReadyFrames)
           /\ Len(pending') = Len(pending) - 1
           /\ \A i \in 1 .. Len(pending') : pending'[i] = pending[i]
<1>1. pending' = SubSeq(pending, 1, Len(pending) - 1) BY DEF Start!Front
<1>2. pending \in Seq(ChangeFrames \cup ReadyFrames) BY InnermostCall
<1> QED BY <1>1, <1>2, WithoutLast

LEMMA StartBeginChange ==
    ASSUME Start!StartupAssumption, StartInv, NEW p \in Entries, Start!BeginChange(p)
    PROVE  StartInv' /\ Start!SetIsFixed
<1> DEFINE f == [call |-> "change", plugin |-> p]
<1>1. /\ pending \in Seq(ChangeFrames \cup ReadyFrames) /\ pending' = Append(pending, f)
      /\ f \in ChangeFrames \cup ReadyFrames /\ f.call = "change"
  BY DEF StartInv, StartTypes, Start!BeginChange, ChangeFrames
<1> HIDE DEF f
<1>2. /\ pending' \in Seq(ChangeFrames \cup ReadyFrames) /\ Len(pending') = Len(pending) + 1
      /\ Len(pending) \in Nat /\ pending'[Len(pending) + 1] = f
      /\ \A i \in 1 .. Len(pending) : pending'[i] = pending[i]
  BY <1>1, AppendProperties
<1>3. phase = "booted" BY DEF Start!BeginChange, Start!CodeRuns
<1>4. StartTypes'
  <2>1. Len(pending') <= StartDepth /\ changes' \in 0 .. Changes
    BY <1>2 DEF Start!BeginChange, Start!StartupAssumption, StartInv, StartTypes, Start!TypeOK
  <2> QED BY <1>2, <1>3, <2>1 DEF Start!BeginChange, StartInv, StartTypes, Start!TypeOK
<1>5. ReadyBeneath'
  BY <1>1, <1>2 DEF Start!BeginChange, StartInv, ReadyBeneath
<1>6. Start!NothingUnderWay'
  BY <1>1, <1>2 DEF Start!BeginChange, Start!Allowed, StartInv, Start!NothingUnderWay,
         Start!Changing
<1>7. ~LoadersCall => ReadyAlone'
  <2> SUFFICES ASSUME ~LoadersCall PROVE ReadyAlone' OBVIOUS
  <2>1. pending # <<>> => Start!Top.call = "change"
    BY DEF Start!BeginChange, Start!CodeRuns
  <2>2. \A i \in 1 .. Len(pending) : pending[i].call # "ready"
    BY <1>2, <2>1 DEF StartInv, ReadyAlone, Start!Top
  <2> QED BY <1>1, <1>2, <2>2 DEF ReadyAlone
<1> QED BY <1>4, <1>5, <1>6, <1>7
        DEF Start!BeginChange, StartInv, Start!ReadyIsComplete, Start!Active, Start!SetIsFixed

LEMMA StartEndChange ==
    ASSUME Start!StartupAssumption, StartInv, Start!EndChange
    PROVE  StartInv' /\ Start!SetIsFixed
<1>1. pending # <<>> /\ Start!Top.call = "change" /\ pending' = Start!Front(pending)
  BY DEF Start!EndChange
<1>2. /\ Len(pending) \in Nat \ {0} /\ Start!Top \in ChangeFrames \cup ReadyFrames
      /\ phase = "booted"
  BY <1>1, InnermostCall
<1>3. /\ pending' \in Seq(ChangeFrames \cup ReadyFrames) /\ Len(pending') = Len(pending) - 1
      /\ \A i \in 1 .. Len(pending') : pending'[i] = pending[i]
  BY <1>1, PoppedChecks
<1>4. Start!Changing BY <1>1, <1>2 DEF Start!Changing, Start!Top
<1>5. Start!Top.plugin \in Entries BY <1>1, <1>2 DEF ChangeFrames, ReadyFrames
<1>6. PICK s \in {"pending", "failed", "active", "disposed"} :
        /\ state' = [state EXCEPT ![Start!Top.plugin] = s]
        /\ \E l \in Start!Registers(s) : lazy' = [lazy EXCEPT ![Start!Top.plugin] = l]
  BY DEF Start!EndChange
<1>7. StartTypes'
  <2>1. state' \in [Entries -> Start!States]
    BY <1>6 DEF StartInv, StartTypes, Start!TypeOK, Start!States
  <2>2. PICK l \in Start!Registers(s) : lazy' = [lazy EXCEPT ![Start!Top.plugin] = l]
    BY <1>6
  <2>3. lazy' \in [Entries -> Start!Lazy]
    BY <2>2 DEF Start!Registers, Start!Lazy, StartInv, StartTypes, Start!TypeOK
  <2>4. \A q \in Entries : lazy'[q] # "none" => state'[q] = "active"
    BY <1>5, <1>6, <2>2 DEF Start!Registers, StartInv, StartTypes, Start!TypeOK
  <2>5. Len(pending') <= StartDepth
    BY <1>2, <1>3 DEF StartInv, StartTypes, Start!TypeOK, Start!StartupAssumption
  <2> QED BY <1>2, <1>3, <2>1, <2>3, <2>4, <2>5
          DEF Start!EndChange, StartInv, StartTypes, Start!TypeOK
<1>8. ~ready
  BY <1>4 DEF StartInv, StartTypes, Start!TypeOK, ReadyBeneath, Start!NothingUnderWay
<1>9. ReadyBeneath'
  <2>1. \A i \in 1 .. Len(pending') : i \in 1 .. Len(pending)
    <3>1. Len(pending) \in Nat \ {0} /\ Len(pending') = Len(pending) - 1 BY <1>2, <1>3
    <3> QED BY ONLY <3>1
  <2>2. \A i \in 1 .. Len(pending') : pending'[i] = pending[i] BY <1>2, <1>3
  <2>3. ReadyBeneath BY DEF StartInv
  <2>4. \A i, j \in 1 .. Len(pending') :
          i < j /\ pending'[j].call = "ready" => pending'[i].call = "ready"
    BY <2>1, <2>2, <2>3 DEF ReadyBeneath
  <2>5. UNCHANGED <<closing, ready>> BY DEF Start!EndChange
  <2>6. closing' => ~ready' /\ \A i \in 1 .. Len(pending') : pending'[i].call = "change"
    BY <2>1, <2>2, <2>3, <2>5 DEF ReadyBeneath
  <2> QED BY <2>4, <2>6 DEF ReadyBeneath
<1>10. Start!NothingUnderWay'
  BY <1>2, <1>3 DEF Start!EndChange, StartInv, Start!NothingUnderWay, Start!Changing
<1>11. ~LoadersCall => ReadyAlone'
  <2> SUFFICES ASSUME ~LoadersCall PROVE ReadyAlone' OBVIOUS
  <2>1. \A i \in 1 .. Len(pending') : pending[i].call # "ready"
    BY <1>2, <1>3 DEF StartInv, ReadyAlone
  <2> QED BY <1>2, <1>3, <2>1 DEF ReadyAlone
<1> QED BY <1>7, <1>8, <1>9, <1>10, <1>11
        DEF Start!EndChange, StartInv, Start!ReadyIsComplete, Start!SetIsFixed

LEMMA StartCallReady ==
    ASSUME Start!StartupAssumption, StartInv, Start!CallReady
    PROVE  StartInv' /\ Start!SetIsFixed
<1>1. PICK f \in ReadyFrames :
        /\ f.call = "ready" /\ f.at = "resolving" /\ f.names = {p \in Entries : lazy[p] # "none"}
        /\ pending \in Seq(ChangeFrames \cup ReadyFrames) /\ pending' = Append(pending, f)
  <2> DEFINE g == [call |-> "ready", at |-> "resolving", failed |-> FALSE,
                   names |-> {p \in Entries : lazy[p] # "none"}]
  <2>1. g \in ReadyFrames BY DEF ReadyFrames
  <2> QED BY <2>1 DEF StartInv, StartTypes, Start!CallReady
<1>2. ASSUME Start!Active(enabled) PROVE Looked(f) BY <1>1, <1>2 DEF Looked
<1>3. /\ pending' \in Seq(ChangeFrames \cup ReadyFrames) /\ Len(pending') = Len(pending) + 1
      /\ Len(pending) \in Nat /\ pending'[Len(pending) + 1] = f
      /\ \A i \in 1 .. Len(pending) : pending'[i] = pending[i]
  BY <1>1, AppendProperties
<1>4. phase = "booted" /\ ~closing /\ ~Start!Changing /\ Start!Active(enabled)
  BY DEF Start!CallReady, Start!CodeRuns, Start!StartsReady
<1>5. \A i \in 1 .. Len(pending) : pending[i].call = "ready"
  <2>1. \A i \in 1 .. Len(pending) : pending[i].call # "change" BY <1>4 DEF Start!Changing
  <2>2. \A i \in 1 .. Len(pending) : pending[i] \in ChangeFrames \cup ReadyFrames BY <1>1
  <2> QED BY <2>1, <2>2 DEF ChangeFrames, ReadyFrames
<1>6. StartTypes'
  <2>1. Len(pending') <= StartDepth
    BY <1>3 DEF Start!CallReady, Start!StartupAssumption
  <2> QED BY <1>3, <1>4, <2>1 DEF Start!CallReady, StartInv, StartTypes, Start!TypeOK
<1>7. ReadyBeneath' /\ Start!NothingUnderWay'
  BY <1>1, <1>3, <1>4, <1>5 DEF Start!CallReady, ReadyBeneath, Start!NothingUnderWay,
         Start!Changing
<1>8. ~LoadersCall => ReadyAlone'
  <2> SUFFICES ASSUME ~LoadersCall PROVE ReadyAlone' OBVIOUS
  <2>1. Len(pending) = 0
    <3>1. pending # <<>> => Start!Top.call = "change"
      BY DEF Start!CallReady, Start!CodeRuns
    <3> QED BY <1>1, <1>5, <3>1, EmptySeq DEF Start!Top
  <2>2. Looked(f)' = Looked(f) BY DEF Looked, Start!CallReady, Start!Active
  <2>3. Len(pending') = 1 /\ pending'[1] = f BY <1>3, <2>1
  <2>4. Looked(f)' BY <1>2, <1>4, <2>2
  <2> SUFFICES ASSUME NEW i \in 1 .. Len(pending')
               PROVE  (i = Len(pending) /\ i = 1 /\ Looked(pending[i]))'
    BY DEF ReadyAlone
  <2>5. i = 1 /\ pending'[i] = f BY <2>3
  <2> QED BY <2>3, <2>4, <2>5
<1> QED BY <1>6, <1>7, <1>8
        DEF Start!CallReady, StartInv, Start!ReadyIsComplete, Start!Active, Start!SetIsFixed

\* A step of ensure_ready() that goes on: one frame for another on the same stack.
LEMMA ReadyGoesOn ==
    ASSUME StartInv, pending # <<>>, Start!Top.call = "ready",
           NEW f \in ReadyFrames, pending' = Start!WithTop(f),
           UNCHANGED <<enabled, state, phase, fixed, closing, ready, changes>>,
           lazy' \in [Entries -> Start!Lazy],
           \A p \in Entries : (lazy'[p] = "none") = (lazy[p] = "none"),
           ready /\ ~LoadersCall => Start!ReadyIsComplete',
           ~LoadersCall /\ Looked(Start!Top) => Looked(f)'
    PROVE  StartInv' /\ Start!SetIsFixed
<1>1. /\ Len(pending) \in Nat \ {0} /\ pending \in Seq(ChangeFrames \cup ReadyFrames)
      /\ phase = "booted" /\ ~Start!Changing /\ ~closing
  BY InnermostCall
<1>2. /\ pending' \in Seq(ChangeFrames \cup ReadyFrames) /\ Len(pending') = Len(pending)
      /\ pending'[Len(pending)] = f /\ \A i \in 1 .. (Len(pending) - 1) : pending'[i] = pending[i]
  <2>1. pending' = [pending EXCEPT ![Len(pending)] = f] BY DEF Start!WithTop
  <2> QED BY <1>1, <2>1, WithLast
<1>3. f.call = "ready" BY DEF ReadyFrames
<1>4. StartTypes'
  BY <1>1, <1>2 DEF StartInv, StartTypes, Start!TypeOK
<1>5. ReadyBeneath'
  <2>1. \A i \in 1 .. Len(pending) : pending[i].call = "ready"
    BY <1>1 DEF Start!Top, StartInv, ReadyBeneath
  <2>2. \A i \in 1 .. Len(pending) : pending'[i].call = "ready"
    BY <1>1, <1>2, <1>3, <2>1
  <2> QED BY <1>1, <1>2, <2>2 DEF ReadyBeneath
<1>6. Start!NothingUnderWay'
  <2>1. \A i \in 1 .. Len(pending) : pending'[i].call # "change"
    BY <1>1, <1>2, <1>3 DEF Start!Changing
  <2> QED BY <1>2, <2>1 DEF Start!NothingUnderWay, Start!Changing
<1>7. ~LoadersCall => (ReadyAlone /\ Start!ReadyIsComplete)'
  <2> SUFFICES ASSUME ~LoadersCall PROVE (ReadyAlone /\ Start!ReadyIsComplete)' OBVIOUS
  <2>1. Len(pending) = 1 /\ Looked(Start!Top)
    <3>1. pending[Len(pending)].call = "ready" BY DEF Start!Top
    <3>2. Len(pending) \in 1 .. Len(pending) BY <1>1
    <3>3. Len(pending) = 1 /\ Looked(pending[Len(pending)])
      BY <3>1, <3>2 DEF StartInv, ReadyAlone
    <3> QED BY <3>3 DEF Start!Top
  <2>2. ReadyAlone'
    <3> SUFFICES ASSUME NEW i \in 1 .. Len(pending')
                 PROVE  (i = Len(pending) /\ i = 1 /\ Looked(pending[i]))'
      BY DEF ReadyAlone
    <3>1. i = 1 /\ pending'[i] = f BY <1>2, <2>1
    <3> QED BY <1>2, <2>1, <3>1
  <2> QED BY <2>2 DEF Start!ReadyIsComplete
<1> QED BY <1>4, <1>5, <1>6, <1>7 DEF StartInv, Start!SetIsFixed

\* A call of ensure_ready() ends.
LEMMA ReadyLeaves ==
    ASSUME Start!StartupAssumption, StartInv,
           pending # <<>>, Start!Top.call = "ready", pending' = Start!Front(pending),
           UNCHANGED <<enabled, state, lazy, phase, closing, changes>>,
           fixed' \in BOOLEAN, ready' \in BOOLEAN,
           ready' => fixed',
           ~LoadersCall => Start!ReadyIsComplete'
    PROVE  StartInv' /\ Start!SetIsFixed
<1>1. /\ Len(pending) \in Nat \ {0} /\ phase = "booted" /\ ~Start!Changing /\ ~closing
  BY InnermostCall
<1>2. /\ pending' \in Seq(ChangeFrames \cup ReadyFrames) /\ Len(pending') = Len(pending) - 1
      /\ \A i \in 1 .. Len(pending') : pending'[i] = pending[i]
  BY PoppedChecks
<1>3. StartTypes'
  <2>1. Len(pending') <= StartDepth
    <3>1. Len(pending) <= StartDepth BY DEF StartInv, StartTypes, Start!TypeOK
    <3>2. pending' \in Seq(ChangeFrames \cup ReadyFrames) BY <1>2
    <3> QED BY <1>1, <1>2, <3>1 DEF Start!StartupAssumption
  <2> QED BY <1>1, <1>2, <2>1 DEF StartInv, StartTypes, Start!TypeOK
<1>4. ReadyBeneath' BY <1>1, <1>2 DEF StartInv, ReadyBeneath
<1>5. Start!NothingUnderWay'
  BY <1>1, <1>2 DEF Start!NothingUnderWay, Start!Changing
<1>6. ~LoadersCall => ReadyAlone'
  BY <1>1, <1>2 DEF StartInv, ReadyAlone
<1> QED BY <1>3, <1>4, <1>5, <1>6 DEF StartInv, Start!SetIsFixed

LEMMA StartResolveNext ==
    ASSUME Start!StartupAssumption, StartInv, NEW p \in Entries, Start!ResolveNext(p)
    PROVE  StartInv' /\ Start!SetIsFixed
<1> PICK top : top = Start!Top OBVIOUS
<1>1. /\ pending # <<>> /\ top.call = "ready" /\ top.at = "resolving" /\ p \in top.names
      /\ UNCHANGED <<enabled, state, lazy, phase, fixed, closing, ready, changes>>
  BY DEF Start!ResolveNext, Start!Resolving
<1>2. top \in ReadyFrames /\ top.failed \in BOOLEAN /\ top.names \subseteq Entries
  BY <1>1, InnermostCall DEF ChangeFrames, ReadyFrames
<1>3. lazy \in [Entries -> Start!Lazy] /\ lazy[p] \in Start!Lazy
  BY DEF StartInv, StartTypes, Start!TypeOK
<1>4. ~LoadersCall => Start!ReadyIsComplete'
  BY <1>1 DEF StartInv, Start!ReadyIsComplete, Start!Active
<1>5. CASE lazy[p] = "none"
  <2>1. pending' = Start!Front(pending) BY <1>5 DEF Start!ResolveNext
  <2> QED
    BY <1>1, <1>4, <2>1, ReadyLeaves DEF StartInv, StartTypes, Start!TypeOK
<1>6. CASE lazy[p] = "unresolved"
  <2> PICK f : f = [call |-> "ready", at |-> "loading", plugin |-> p,
                    names |-> top.names \ {p}, failed |-> top.failed] OBVIOUS
  <2>1. pending' = Start!WithTop(f) BY <1>6 DEF Start!ResolveNext
  <2>2. f \in ReadyFrames BY <1>2 DEF ReadyFrames
  <2>3. Looked(top) => Looked(f)'
    BY <1>1, <1>3, <1>6 DEF Looked, Start!Lazy, Start!Active
  <2> QED BY <1>1, <1>3, <1>4, <2>1, <2>2, <2>3, ReadyGoesOn
<1>7. CASE lazy[p] \in {"imported", "broken"}
  <2>1. PICK failed \in BOOLEAN :
          /\ pending' = Start!WithTop([top EXCEPT !.names = @ \ {p}, !.failed = failed])
          /\ top.failed \/ lazy[p] = "broken" => failed
    <3>1. [top EXCEPT !.names = @ \ {p}] = [top EXCEPT !.names = @ \ {p}, !.failed = top.failed]
      BY <1>2 DEF ReadyFrames
    <3> QED BY <1>2, <1>7, <3>1 DEF Start!ResolveNext
  <2> PICK f : f = [top EXCEPT !.names = @ \ {p}, !.failed = failed] OBVIOUS
  <2>2. f \in ReadyFrames BY <1>1, <1>2 DEF ReadyFrames
  <2>3. Looked(top) => Looked(f)'
    BY <1>1, <1>2, <1>7, <2>1 DEF Looked, Start!Active, ReadyFrames
  <2>4. pending' = Start!WithTop(f) BY <2>1
  <2> QED BY <1>1, <1>3, <1>4, <2>2, <2>3, <2>4, ReadyGoesOn
<1> QED BY <1>3, <1>5, <1>6, <1>7 DEF Start!Lazy

LEMMA StartLoaderEnds ==
    ASSUME Start!StartupAssumption, StartInv, NEW outcome \in {"imported", "broken"},
           Start!LoaderEnds(outcome)
    PROVE  StartInv' /\ Start!SetIsFixed
<1> PICK top : top = Start!Top OBVIOUS
<1> PICK p : p = top.plugin OBVIOUS
<1> PICK now : now = IF lazy[p] = "broken" THEN "broken" ELSE outcome OBVIOUS
<1> PICK f : f = [call |-> "ready", at |-> "resolving", names |-> top.names,
                  failed |-> (top.failed \/ now = "broken")] OBVIOUS
<1>1. /\ pending # <<>> /\ top.call = "ready" /\ top.at = "loading"
      /\ UNCHANGED <<enabled, state, phase, fixed, closing, ready, changes>>
      /\ lazy' = [lazy EXCEPT ![p] = IF @ = "none" THEN "none" ELSE now]
      /\ pending' = Start!WithTop(f)
  BY DEF Start!LoaderEnds, Start!LoaderRuns
<1>2. top \in ReadyFrames /\ top.failed \in BOOLEAN /\ top.names \subseteq Entries /\ p \in Entries
  BY <1>1, InnermostCall DEF ChangeFrames, ReadyFrames
<1>3. lazy \in [Entries -> Start!Lazy] /\ lazy[p] \in Start!Lazy
  BY <1>2 DEF StartInv, StartTypes, Start!TypeOK
<1>4. f \in ReadyFrames BY <1>2 DEF ReadyFrames
<1>5. lazy' \in [Entries -> Start!Lazy]
  BY <1>1, <1>3 DEF Start!Lazy
<1>6. \A q \in Entries : (lazy'[q] = "none") = (lazy[q] = "none")
  BY <1>1, <1>2, <1>3
<1>7. ASSUME ready, ~LoadersCall PROVE Start!ReadyIsComplete'
  <2>1. Start!ReadyIsComplete BY <1>7 DEF StartInv
  <2>2. Len(pending) = 1 /\ Looked(top)
    <3>1. Len(pending) \in 1 .. Len(pending) BY <1>1, InnermostCall
    <3>2. pending[Len(pending)] = top BY DEF Start!Top
    <3> QED BY <1>1, <1>7, <3>1, <3>2 DEF StartInv, ReadyAlone
  <2> QED BY <1>1, <1>3, <1>7, <2>1, <2>2 DEF Looked, Start!ReadyIsComplete, Start!Active
<1>8. ASSUME Looked(top) PROVE Looked(f)'
  BY <1>1, <1>2, <1>3, <1>8 DEF Looked, Start!Active, Start!Lazy
<1> QED BY <1>1, <1>4, <1>5, <1>6, <1>7, <1>8, ReadyGoesOn

LEMMA StartEndReady ==
    ASSUME Start!StartupAssumption, StartInv, Start!EndReady
    PROVE  StartInv' /\ Start!SetIsFixed
<1>1. /\ pending # <<>> /\ Start!Top.call = "ready" /\ Start!Top.at = "resolving"
      /\ Start!Top.names = {} /\ pending' = Start!Front(pending)
      /\ UNCHANGED <<enabled, state, lazy, phase, closing, changes>>
      /\ IF ~Start!Top.failed THEN fixed' = TRUE /\ ready' = TRUE ELSE UNCHANGED <<fixed, ready>>
  BY DEF Start!EndReady, Start!Resolving, Start!AllImported
<1>2. fixed' \in BOOLEAN /\ ready' \in BOOLEAN /\ (ready' => fixed')
  BY <1>1 DEF StartInv, StartTypes, Start!TypeOK
<1>3. ASSUME ~LoadersCall PROVE Start!ReadyIsComplete'
  <2>1. Looked(Start!Top)
    <3>1. Len(pending) \in 1 .. Len(pending) BY <1>1, InnermostCall
    <3>2. Looked(pending[Len(pending)]) BY <1>1, <1>3, <3>1 DEF StartInv, ReadyAlone, Start!Top
    <3> QED BY <3>2 DEF Start!Top
  <2>2. CASE ~Start!Top.failed
    <3>1. Start!Active(enabled) /\ \A p \in Entries : lazy[p] \in {"none", "imported"}
      BY <1>1, <2>1, <2>2 DEF Looked
    <3> QED BY <1>1, <3>1 DEF Start!ReadyIsComplete, Start!Active
  <2>3. CASE Start!Top.failed
    BY <1>1, <1>3, <2>3 DEF StartInv, Start!ReadyIsComplete, Start!Active
  <2> QED BY <2>2, <2>3
<1> QED BY <1>1, <1>2, <1>3, ReadyLeaves

LEMMA StartClose ==
    ASSUME StartInv, Start!Close
    PROVE  StartInv' /\ Start!SetIsFixed
<1>1. StartTypes'
  BY DEF Start!Close, StartInv, StartTypes, Start!TypeOK, Start!States, Start!Lazy
<1> QED BY <1>1, EmptySeq DEF Start!Close, StartInv, ReadyBeneath, ReadyAlone,
           Start!NothingUnderWay, Start!ReadyIsComplete, Start!SetIsFixed

\* Every step of the start keeps its strengthening and its promise.
LEMMA StartStep ==
    ASSUME Start!StartupAssumption, StartInv, Start!Next
    PROVE  StartInv' /\ Start!Complete
<1>1. StartInv' /\ Start!SetIsFixed
  <2>1. ASSUME NEW p \in Entries, Start!Mount(p) \/ Start!BeginChange(p) \/ Start!ResolveNext(p)
        PROVE  StartInv' /\ Start!SetIsFixed
    BY <2>1, StartMount, StartBeginChange, StartResolveNext
  <2>2. ASSUME NEW outcome \in {"imported", "broken"}, Start!LoaderEnds(outcome)
        PROVE  StartInv' /\ Start!SetIsFixed
    BY <2>2, StartLoaderEnds
  <2> QED BY <2>1, <2>2, StartAudit, StartEndChange, StartCallReady, StartEndReady, StartClose
          DEF Start!Next
<1> QED BY <1>1 DEF Start!Complete, StartInv, StartTypes

---------------------------------------------------------------------------
(* The event bus: every action keeps the strengthening.                    *)

LEMMA BusInit ==
    ASSUME Bus!EventBusAssumption, Bus!Init
    PROVE  BusInv
<1>1. under = <<>> /\ called = <<>> /\ defaults = <<>> /\ active = {} /\ fresh = Listener
  BY DEF Bus!Init
<1>2. \A e \in Event : bus[e] = <<>> /\ Bus!ToSet(bus[e]) = {}
  BY DEF Bus!Init, Bus!ToSet
<1>3. BusTypes
  BY <1>1 DEF Bus!Init, BusTypes
<1>4. Bus!TypeOK
  BY <1>1, <1>2 DEF Bus!Init, Bus!TypeOK, Bus!EventBusAssumption, Bus!Values, Bus!Pending
<1> QED
  BY <1>1, <1>2, <1>3, <1>4 DEF BusInv, Unrepeated, Begun, OneCaller, Records,
     Bus!CalledOnceInOrder

\* A registration puts the listener into its event's list, once.
LEMMA PlacedOnce ==
    ASSUME BusTypes, Unrepeated, NEW l \in Listener, NEW e \in Event, NEW prepend \in BOOLEAN,
           l \notin Bus!ToSet(bus[e])
    PROVE  LET s == Bus!Placed(e, l, prepend) IN
           /\ s \in Seq(Listener)
           /\ \A i \in 1 .. Len(s) : s[i] \in {l} \cup Bus!ToSet(bus[e])
           /\ \A i, j \in 1 .. Len(s) : s[i] = s[j] => i = j
<1>1. bus[e] \in Seq(Listener) /\ Len(bus[e]) \in Nat BY DEF BusTypes
<1>2. \A i \in 1 .. Len(bus[e]) : bus[e][i] # l /\ bus[e][i] \in Bus!ToSet(bus[e])
  BY <1>1 DEF Bus!ToSet
<1>3. \A i, j \in 1 .. Len(bus[e]) : bus[e][i] = bus[e][j] => i = j BY DEF Unrepeated
<1>4. CASE prepend
  <2> PICK s : s = <<l>> \o bus[e] OBVIOUS
  <2>1. /\ s \in Seq(Listener) /\ Len(s) = Len(bus[e]) + 1 /\ s[1] = l
        /\ \A i \in 2 .. Len(s) : i - 1 \in 1 .. Len(bus[e]) /\ s[i] = bus[e][i - 1]
    BY <1>1
  <2>2. \A i, j \in 1 .. Len(s) : s[i] = s[j] => i = j
    BY <1>1, <1>2, <1>3, <2>1
  <2>3. \A i \in 1 .. Len(s) : s[i] \in {l} \cup Bus!ToSet(bus[e])
    BY <1>1, <1>2, <2>1
  <2> QED BY <1>4, <2>1, <2>2, <2>3 DEF Bus!Placed
<1>5. CASE ~prepend
  <2> PICK s : s = Append(bus[e], l) OBVIOUS
  <2>1. /\ s \in Seq(Listener) /\ Len(s) = Len(bus[e]) + 1 /\ s[Len(bus[e]) + 1] = l
        /\ \A i \in 1 .. Len(bus[e]) : s[i] = bus[e][i]
    BY <1>1, AppendProperties
  <2>2. \A i, j \in 1 .. Len(s) : s[i] = s[j] => i = j
    BY <1>1, <1>2, <1>3, <2>1
  <2>3. \A i \in 1 .. Len(s) : s[i] \in {l} \cup Bus!ToSet(bus[e])
    BY <1>1, <1>2, <2>1
  <2> QED BY <1>5, <2>1, <2>2, <2>3 DEF Bus!Placed
<1> QED BY <1>4, <1>5

\* A list without one of its places.
LEMMA WithoutPlace ==
    ASSUME NEW S, NEW s \in Seq(S), NEW i \in 1 .. Len(s)
    PROVE  LET t == Bus!RemoveAt(s, i) IN
           /\ t \in Seq(S) /\ Len(t) = Len(s) - 1
           /\ \A k \in 1 .. Len(t) : t[k] = IF k < i THEN s[k] ELSE s[k + 1]
<1>1. Len(s) \in Nat /\ i \in Nat \ {0} /\ i <= Len(s) OBVIOUS
<1> PICK a : a = SubSeq(s, 1, i - 1) OBVIOUS
<1> PICK b : b = SubSeq(s, i + 1, Len(s)) OBVIOUS
<1>2. \A k \in 1 .. (i - 1) : s[k] \in S BY <1>1
<1>3. \A k \in (i + 1) .. Len(s) : s[k] \in S BY <1>1
<1>4. /\ a \in Seq(S) /\ Len(a) = i - 1 /\ \A k \in 1 .. (i - 1) : a[k] = s[k]
  BY <1>1, <1>2, SubSeqProperties
<1>5. /\ b \in Seq(S) /\ Len(b) = Len(s) - i /\ \A k \in 1 .. (Len(s) - i) : b[k] = s[i + k]
  BY <1>1, <1>3, SubSeqProperties
<1>6. /\ a \o b \in Seq(S) /\ Len(a \o b) = Len(a) + Len(b)
      /\ \A k \in 1 .. Len(a) + Len(b) : (a \o b)[k] = IF k <= Len(a) THEN a[k] ELSE b[k - Len(a)]
  BY ONLY <1>4, <1>5, ConcatProperties
<1>7. Len(a) + Len(b) = Len(s) - 1 BY ONLY <1>1, <1>4, <1>5
<1>8. ASSUME NEW k \in 1 .. (Len(s) - 1) PROVE (a \o b)[k] = IF k < i THEN s[k] ELSE s[k + 1]
  <2>1. (a \o b)[k] = IF k <= i - 1 THEN a[k] ELSE b[k - (i - 1)] BY <1>4, <1>6, <1>7
  <2>2. CASE k < i
    <3>1. k <= i - 1 /\ k \in 1 .. (i - 1) BY <1>1, <2>2
    <3> QED BY <1>4, <2>1, <2>2, <3>1
  <2>3. CASE ~(k < i)
    <3>1. ~(k <= i - 1) /\ k - (i - 1) \in 1 .. (Len(s) - i) /\ i + (k - (i - 1)) = k + 1
      BY <1>1, <2>3
    <3> QED BY <1>5, <2>1, <2>3, <3>1
  <2> QED BY <2>2, <2>3
<1> QED BY <1>6, <1>7, <1>8 DEF Bus!RemoveAt

\* A list without a listener that is in it once.
LEMMA RemovedWholly ==
    ASSUME NEW S, NEW s \in Seq(S), NEW l, \A i, j \in 1 .. Len(s) : s[i] = s[j] => i = j
    PROVE  LET t == Bus!Without(s, l) IN
           /\ t \in Seq(S)
           /\ Bus!ToSet(t) \subseteq Bus!ToSet(s) \ {l}
           /\ \A i, j \in 1 .. Len(t) : t[i] = t[j] => i = j
<1>1. CASE l \notin Bus!ToSet(s) BY <1>1 DEF Bus!Without
<1>2. CASE l \in Bus!ToSet(s)
  <2>1. \E i \in 1 .. Len(s) : s[i] = l BY <1>2 DEF Bus!ToSet
  <2> PICK i : i = CHOOSE k \in 1 .. Len(s) : s[k] = l OBVIOUS
  <2>2. i \in 1 .. Len(s) /\ s[i] = l BY <2>1
  <2> PICK t : t = Bus!RemoveAt(s, i) OBVIOUS
  <2>3. /\ t \in Seq(S) /\ Len(t) = Len(s) - 1
        /\ \A k \in 1 .. Len(t) : t[k] = IF k < i THEN s[k] ELSE s[k + 1]
    BY <2>2, WithoutPlace
  <2>4. Bus!Without(s, l) = t BY <1>2 DEF Bus!Without
  <2> DEFINE at(k) == IF k < i THEN k ELSE k + 1
  <2>8. Len(s) \in Nat /\ i \in Int /\ Len(t) = Len(s) - 1
    <3>1. s \in Seq(S) OBVIOUS
    <3> QED BY ONLY <2>2, <2>3, <3>1
  <2>5. \A k \in 1 .. Len(t) : at(k) \in 1 .. Len(s) /\ at(k) # i /\ t[k] = s[at(k)]
    BY ONLY <2>2, <2>3, <2>8
  <2>6. \A k, j \in 1 .. Len(t) : t[k] = t[j] => k = j
    <3>1. \A k, j \in 1 .. Len(t) : at(k) = at(j) => k = j BY ONLY <2>8
    <3> HIDE DEF at
    <3> QED BY <2>5, <3>1, SMTT(30)
  <2>7. Bus!ToSet(t) \subseteq Bus!ToSet(s) \ {l}
    <3>1. \A k \in 1 .. Len(s) : s[k] \in Bus!ToSet(s) /\ (k # i => s[k] # l)
      BY <2>2 DEF Bus!ToSet
    <3>2. \A k \in 1 .. Len(t) : t[k] \in Bus!ToSet(s) \ {l}
      <4> HIDE DEF at
      <4> QED BY <2>5, <3>1, SMTT(30)
    <3>3. Bus!ToSet(t) = {t[k] : k \in 1 .. Len(t)}
      <4>1. DOMAIN t = 1 .. Len(t) BY ONLY <2>3
      <4> QED BY ONLY <4>1 DEF Bus!ToSet
    <3> QED BY ONLY <3>2, <3>3
  <2> QED BY <2>3, <2>4, <2>6, <2>7
<1> QED BY <1>1, <1>2

\* A step that calls nobody and ends nothing breaks no promise about what is called.
LEMMA NobodyCalled ==
    ASSUME BusTypes, UNCHANGED <<called, defaults>>, Len(under') \in Nat, Len(under') >= Len(under)
    PROVE  Bus!RemovedIsNotCalled /\ Bus!EmitReachesEveryone /\ Bus!DefaultIsInnermost
<1>1. Len(called) \in Nat /\ Len(under) \in Nat BY DEF BusTypes
<1>2. ~(Len(under') < Len(under)) BY <1>1
<1>3. (Len(called) + 1) .. Len(called') = {} BY <1>1
<1> QED BY <1>2, <1>3
        DEF Bus!RemovedIsNotCalled, Bus!EmitReachesEveryone, Bus!DefaultIsInnermost

LEMMA BusOn ==
    ASSUME BusInv, NEW l \in Listener, NEW e \in Event, NEW prepend \in BOOLEAN,
           Bus!On(l, e, prepend)
    PROVE  BusInv'
<1>1. /\ l \in fresh /\ fresh' = fresh \ {l} /\ active' = active \cup {l}
      /\ bus' = [bus EXCEPT ![e] = Bus!Placed(e, l, prepend)]
      /\ UNCHANGED <<under, back, count, called, defaults>>
  BY DEF Bus!On
<1>2. /\ \A d \in Event : Bus!ToSet(bus[d]) \subseteq active
      /\ active \subseteq Listener \ fresh
  BY DEF BusInv, Bus!TypeOK
<1> PICK s : s = Bus!Placed(e, l, prepend) OBVIOUS
<1>3. /\ s \in Seq(Listener) /\ \A i \in 1 .. Len(s) : s[i] \in {l} \cup Bus!ToSet(bus[e])
      /\ \A i, j \in 1 .. Len(s) : s[i] = s[j] => i = j
  <2>1. l \notin Bus!ToSet(bus[e]) BY <1>1, <1>2
  <2> QED BY <2>1, PlacedOnce DEF BusInv
<1>4. /\ bus' \in [Event -> Seq(Listener)] /\ bus'[e] = s
      /\ \A d \in Event : d # e => bus'[d] = bus[d]
  BY <1>1, <1>3 DEF BusInv, BusTypes
<1>5. BusTypes' BY <1>1, <1>4 DEF BusInv, BusTypes
<1>6. Bus!TypeOK'
  <2>1. Bus!ToSet(s) \subseteq active'
    <3>1. DOMAIN s = 1 .. Len(s) BY <1>3
    <3>2. \A i \in 1 .. Len(s) : s[i] \in active' BY <1>1, <1>2, <1>3
    <3> QED BY ONLY <3>1, <3>2 DEF Bus!ToSet
  <2>2. \A d \in Event : Bus!ToSet(bus'[d]) \subseteq active'
    BY <1>1, <1>2, <1>4, <2>1
  <2>3. \A d \in Event : Bus!ToSet(bus[d])' = Bus!ToSet(bus'[d]) BY DEF Bus!ToSet
  <2>4. active' \subseteq Listener \ fresh' BY <1>1, <1>2
  <2> QED BY <1>1, <2>2, <2>3, <2>4 DEF BusInv, Bus!TypeOK, Bus!Idle
<1>7. Unrepeated' BY <1>3, <1>4 DEF BusInv, Unrepeated
<1>8. OneCaller' BY <1>1 DEF BusInv, OneCaller
<1>9. Records'
  <2>1. \A i \in 1 .. Len(under) : \A k \in 1 .. Len(under[i].chain) : under[i].chain[k] # l
    BY <1>1 DEF BusInv, OneCaller
  <2> SUFFICES ASSUME NEW i \in 1 .. Len(under), ~under[i].used PROVE Recorded(under[i])'
    BY <1>1 DEF Records
  <2>2. Recorded(under[i]) BY DEF BusInv, Records
  <2> QED BY <1>1, <2>1, <2>2 DEF Recorded
<1> QED BY <1>1, <1>5, <1>6, <1>7, <1>8, <1>9 DEF BusInv, Begun, Bus!CalledOnceInOrder

LEMMA BusOff ==
    ASSUME BusInv, NEW l \in Listener, Bus!Off(l)
    PROVE  BusInv'
<1>1. /\ active' = active \ {l}
      /\ bus' = [e \in Event |-> Bus!Without(bus[e], l)]
      /\ UNCHANGED <<fresh, under, back, count, called, defaults>>
  BY DEF Bus!Off
<1>2. /\ \A d \in Event : Bus!ToSet(bus[d]) \subseteq active
      /\ active \subseteq Listener \ fresh
  BY DEF BusInv, Bus!TypeOK
<1>3. \A e \in Event :
        /\ bus'[e] \in Seq(Listener) /\ Bus!ToSet(bus'[e]) \subseteq Bus!ToSet(bus[e]) \ {l}
        /\ \A i, j \in 1 .. Len(bus'[e]) : bus'[e][i] = bus'[e][j] => i = j
  <2> TAKE e \in Event
  <2>1. bus[e] \in Seq(Listener) /\ \A i, j \in 1 .. Len(bus[e]) : bus[e][i] = bus[e][j] => i = j
    BY DEF BusInv, BusTypes, Unrepeated
  <2>2. bus'[e] = Bus!Without(bus[e], l) BY <1>1
  <2> QED BY <2>1, <2>2, RemovedWholly
<1>4. BusTypes'
  BY <1>1, <1>3 DEF BusInv, BusTypes
<1>5. Bus!TypeOK'
  <2>1. \A d \in Event : Bus!ToSet(bus'[d]) \subseteq active'
    BY <1>1, <1>2, <1>3
  <2>2. \A d \in Event : Bus!ToSet(bus[d])' = Bus!ToSet(bus'[d]) BY DEF Bus!ToSet
  <2> QED BY <1>1, <1>2, <2>1, <2>2 DEF BusInv, Bus!TypeOK, Bus!Idle
<1>6. Unrepeated' BY <1>3 DEF Unrepeated
<1>7. OneCaller' BY <1>1 DEF BusInv, OneCaller
<1>8. Records'
  <2> SUFFICES ASSUME NEW i \in 1 .. Len(under), ~under[i].used PROVE Recorded(under[i])'
    BY <1>1 DEF Records
  <2>1. Recorded(under[i]) BY DEF BusInv, Records
  <2>2. active' \subseteq active BY <1>1
  <2> QED BY <1>1, <2>1, <2>2 DEF Recorded
<1> QED BY <1>1, <1>4, <1>5, <1>6, <1>7, <1>8 DEF BusInv, Begun, Bus!CalledOnceInOrder

LEMMA BusDispatch ==
    ASSUME Bus!EventBusAssumption, BusInv, NEW mode \in Modes, NEW e \in Event,
           Bus!Dispatch(mode, e)
    PROVE  BusInv'
<1> PICK f : f = Bus!Frame(count + 1, mode, bus[e], 1) OBVIOUS
<1>1. /\ count < Dispatches /\ count' = count + 1 /\ under' = Append(under, f)
      /\ UNCHANGED <<bus, fresh, active, back, called, defaults>>
  BY DEF Bus!Dispatch
<1>2. /\ f \in BusFrames /\ f.id = count + 1 /\ f.chain = bus[e] /\ f.at = 1 /\ ~f.running /\ ~f.used
  BY DEF Bus!Frame, BusFrames, BusInv, BusTypes
<1>3. /\ under' \in Seq(BusFrames) /\ Len(under') = Len(under) + 1 /\ Len(under) \in Nat
      /\ under'[Len(under) + 1] = f /\ \A i \in 1 .. Len(under) : under'[i] = under[i]
  BY <1>1, <1>2, AppendProperties DEF BusInv, BusTypes
<1>4. count \in Nat /\ count' \in 0 .. Dispatches
  BY <1>1 DEF BusInv, BusTypes, Bus!EventBusAssumption
<1>5. BusTypes' BY <1>1, <1>3, <1>4 DEF BusInv, BusTypes
<1>6. under # <<>> => under[Len(under)].running
  BY DEF Bus!Dispatch, Bus!ListenerRuns, Bus!Idle, Bus!Top
<1>7. Bus!TypeOK'
  <2>1. \A i \in 1 .. (Len(under') - 1) : under'[i].running
    <3>1. Len(under') - 1 = Len(under) /\ (Len(under) # 0 => under # <<>>) BY <1>3
    <3>2. \A i \in 1 .. Len(under) : i = Len(under) \/ i \in 1 .. (Len(under) - 1) BY <1>3
    <3>3. \A i \in 1 .. (Len(under) - 1) : under[i].running BY DEF BusInv, Bus!TypeOK
    <3>4. ASSUME NEW i \in 1 .. Len(under) PROVE under[i].running
      <4>1. CASE i = Len(under) BY <1>3, <1>6, <3>1, <4>1
      <4> QED BY <3>2, <3>3, <4>1
    <3> QED BY <1>3, <3>1, <3>4
  <2>2. ~Bus!Idle' BY <1>3 DEF Bus!Idle
  <2> QED BY <1>1, <1>4, <2>1, <2>2 DEF BusInv, Bus!TypeOK, Bus!ToSet
<1>8. Begun' BY <1>1, <1>2, <1>3, <1>4 DEF BusInv, Begun
<1>9. \A k \in 1 .. Len(f.chain) : f.chain[k] \notin fresh
  BY <1>2 DEF BusInv, BusTypes, Bus!TypeOK, Bus!ToSet
<1>10. OneCaller'
  <2>1. \A i \in 1 .. Len(under) : under[i].id # f.id BY <1>2, <1>4 DEF BusInv, Begun
  <2>2. \A i \in 1 .. Len(under') : i \in 1 .. Len(under) \/ i = Len(under) + 1 BY <1>3
  <2> QED BY <1>1, <1>2, <1>3, <1>9, <2>1, <2>2 DEF BusInv, OneCaller
<1>11. Records'
  <2>1. \A c \in 1 .. Len(called) : called[c][1] # f.id BY <1>2, <1>4 DEF BusInv, Begun
  <2>2. \A d \in 1 .. Len(defaults) : defaults[d] # f.id BY <1>2, <1>4 DEF BusInv, Begun
  <2>3. \A k \in 1 .. Len(f.chain) : ~Passed(f, k) BY <1>2 DEF Passed
  <2>4. \A i \in 1 .. Len(under') : i \in 1 .. Len(under) \/ i = Len(under) + 1 BY <1>3
  <2> SUFFICES ASSUME NEW i \in 1 .. Len(under'), ~under'[i].used PROVE Recorded(under[i])'
    BY DEF Records
  <2>5. CASE i \in 1 .. Len(under)
    <3>1. Recorded(under[i]) BY <1>3, <2>5 DEF BusInv, Records
    <3> QED BY <1>1, <1>3, <2>5, <3>1 DEF Recorded
  <2>6. CASE i = Len(under) + 1
    BY <1>1, <1>3, <2>1, <2>2, <2>3, <2>6 DEF Recorded
  <2> QED BY <2>4, <2>5, <2>6
<1> QED BY <1>1, <1>5, <1>7, <1>8, <1>10, <1>11 DEF BusInv, Unrepeated, Bus!CalledOnceInOrder

\* The innermost frame, and the ones beneath it.
LEMMA InnermostFrame ==
    ASSUME BusInv, ~Bus!Idle
    PROVE  /\ Len(under) \in Nat \ {0} /\ under \in Seq(BusFrames)
           /\ Bus!Top = under[Len(under)] /\ Bus!Top \in BusFrames
           /\ \A i \in 1 .. Len(under) : i < Len(under) => under[i].running
           /\ \A i \in 1 .. Len(under) :
                 i # Len(under) /\ under[i].id = Bus!Top.id => under[i].used
<1>1. under \in Seq(BusFrames) BY DEF BusInv, BusTypes
<1>2. Len(under) \in Nat \ {0} BY <1>1, EmptySeq DEF Bus!Idle
<1>3. Bus!Top = under[Len(under)] BY DEF Bus!Top
<1>4. Bus!Top \in BusFrames BY <1>1, <1>2, <1>3
<1>5. \A i \in 1 .. Len(under) : i < Len(under) => under[i].running
  BY <1>2 DEF BusInv, Bus!TypeOK
<1>6. \A i \in 1 .. Len(under) : i # Len(under) /\ under[i].id = Bus!Top.id => under[i].used
  BY <1>2, <1>3 DEF BusInv, OneCaller
<1> QED BY <1>1, <1>2, <1>3, <1>4, <1>5, <1>6

\* A frame ends, perhaps by running its default.
LEMMA BusLeave ==
    ASSUME BusInv, ~Bus!Idle, NEW v \in Bus!Values, Bus!Leave(v),
           UNCHANGED <<bus, fresh, active, count, called>>,
           defaults' = defaults \/ (defaults' = Append(defaults, Bus!Top.id) /\ ~Bus!Top.used)
    PROVE  BusInv'
<1>1. /\ Len(under) \in Nat \ {0} /\ under \in Seq(BusFrames)
      /\ Bus!Top = under[Len(under)] /\ Bus!Top \in BusFrames
      /\ \A i \in 1 .. Len(under) : i < Len(under) => under[i].running
      /\ \A i \in 1 .. Len(under) : i # Len(under) /\ under[i].id = Bus!Top.id => under[i].used
  BY InnermostFrame
<1>2. /\ under' \in Seq(BusFrames) /\ Len(under') = Len(under) - 1
      /\ \A i \in 1 .. Len(under') : under'[i] = under[i]
  <2>1. under' = SubSeq(under, 1, Len(under) - 1) BY DEF Bus!Leave, Bus!Front
  <2> QED BY <1>1, <2>1, WithoutLast DEF Bus!Idle
<1>3. \A i \in 1 .. Len(under') : i \in 1 .. Len(under) /\ i # Len(under) BY <1>1, <1>2
<1>4. back' = IF Len(under) = 1 THEN Bus!Pending ELSE v BY DEF Bus!Leave
<1>5. /\ defaults \in Seq(Nat) /\ Bus!Top.id \in 1 .. count /\ Bus!Top.id \in Nat
      /\ \A d \in 1 .. Len(defaults) : defaults[d] \in 1 .. count
  BY <1>1 DEF BusInv, BusTypes, BusFrames, Begun
<1>6. /\ defaults' \in Seq(Nat) /\ \A d \in 1 .. Len(defaults') : defaults'[d] \in 1 .. count
      /\ \A d \in 1 .. Len(defaults') :
            defaults'[d] = Bus!Top.id \/ \E b \in 1 .. Len(defaults) : defaults'[d] = defaults[b]
      /\ \A d, b \in 1 .. Len(defaults') : defaults'[d] = defaults'[b] => d = b
  <2>1. \A d, b \in 1 .. Len(defaults) : defaults[d] = defaults[b] => d = b
    BY DEF BusInv, Bus!CalledOnceInOrder
  <2>2. CASE defaults' = defaults BY <1>5, <2>1, <2>2
  <2>3. CASE defaults' = Append(defaults, Bus!Top.id) /\ ~Bus!Top.used
    <3>1. /\ defaults' \in Seq(Nat) /\ Len(defaults') = Len(defaults) + 1 /\ Len(defaults) \in Nat
          /\ defaults'[Len(defaults) + 1] = Bus!Top.id
          /\ \A d \in 1 .. Len(defaults) : defaults'[d] = defaults[d]
      BY <1>5, <2>3, AppendProperties
    <3>2. \A d \in 1 .. Len(defaults) : defaults[d] # Bus!Top.id
      BY <1>1, <2>3 DEF BusInv, Records, Recorded
    <3>3. \A d \in 1 .. Len(defaults') : d \in 1 .. Len(defaults) \/ d = Len(defaults) + 1
      BY <3>1
    <3> QED BY <1>5, <2>1, <3>1, <3>2, <3>3
  <2> QED BY <2>2, <2>3
<1>7. BusTypes' BY <1>2, <1>6 DEF BusInv, BusTypes
<1>8. Bus!TypeOK'
  <2>1. back' \in Bus!Values \cup {Bus!Pending} /\ (under' = <<>> => back' = Bus!Pending)
    <3>1. under' = <<>> => Len(under') = 0 OBVIOUS
    <3>2. under' = <<>> => Len(under) = 1 BY <1>1, <1>2, <3>1
    <3> QED BY <1>4, <3>2 DEF Bus!Values
  <2>2. \A i \in 1 .. (Len(under') - 1) : under'[i].running
    <3>1. \A i \in 1 .. (Len(under') - 1) : i \in 1 .. Len(under') BY <1>1, <1>2
    <3>2. \A i \in 1 .. Len(under') : under'[i].running BY <1>1, <1>2, <1>3
    <3> QED BY <3>1, <3>2
  <2> QED BY <2>1, <2>2 DEF BusInv, Bus!TypeOK, Bus!Idle, Bus!ToSet, Bus!Values, Bus!Pending
<1>9. Begun' BY <1>2, <1>3, <1>6 DEF BusInv, Begun
<1>10. OneCaller' BY <1>2, <1>3 DEF BusInv, OneCaller
<1>11. Records'
  <2> SUFFICES ASSUME NEW i \in 1 .. Len(under'), ~under'[i].used PROVE Recorded(under[i])'
    BY DEF Records
  <2>1. under'[i] = under[i] /\ i \in 1 .. Len(under) /\ i # Len(under) BY <1>2, <1>3
  <2>2. Recorded(under[i]) BY <2>1 DEF BusInv, Records
  <2>3. under[i].id # Bus!Top.id BY <1>1, <2>1
  <2>4. \A d \in 1 .. Len(defaults') : defaults'[d] # under[i].id
    BY <1>6, <2>2, <2>3 DEF Recorded
  <2> QED BY <2>1, <2>2, <2>4 DEF Recorded
<1>12. Bus!CalledOnceInOrder' BY <1>6 DEF BusInv, Bus!CalledOnceInOrder
<1> QED BY <1>7, <1>8, <1>9, <1>10, <1>11, <1>12 DEF BusInv, Unrepeated

\* The position a loop goes on at: the first listener still registered, or the end.
LEMMA SkipsInactive ==
    ASSUME NEW f \in BusFrames
    PROVE  LET k == Bus!Skips(f) IN
           /\ k \in Nat \ {0} /\ (k <= Len(f.chain) => k >= f.at /\ f.chain[k] \in active)
           /\ \A j \in 1 .. Len(f.chain) : f.at <= j /\ j < k => f.chain[j] \notin active
<1>1. f.at \in Nat \ {0} /\ f.chain \in Seq(Listener) /\ Len(f.chain) \in Nat BY DEF BusFrames
<1> DEFINE Still == {k \in f.at .. Len(f.chain) : f.chain[k] \in active}
<1>2. CASE Still = {}
  <2>1. ~\E k \in f.at .. Len(f.chain) : f.chain[k] \in active BY <1>2
  <2>2. Bus!Skips(f) = Len(f.chain) + 1 BY <2>1 DEF Bus!Skips
  <2> QED BY <1>1, <2>1, <2>2
<1>3. CASE Still # {}
  <2>1. Still \subseteq Nat BY <1>1
  <2>2. PICK k \in Still : \A j \in Still : k <= j BY <1>3, <2>1, LeastNumber
  <2>3. \E m \in f.at .. Len(f.chain) :
          /\ f.chain[m] \in active
          /\ \A j \in f.at .. (m - 1) : f.chain[j] \notin active
    <3>1. \A j \in f.at .. (k - 1) : j \in f.at .. Len(f.chain) /\ ~(k <= j) BY <1>1, <2>2
    <3> QED BY <2>2, <3>1
  <2>4. PICK m : m = CHOOSE x \in f.at .. Len(f.chain) :
                        /\ f.chain[x] \in active
                        /\ \A j \in f.at .. (x - 1) : f.chain[j] \notin active
    OBVIOUS
  <2>5. /\ m \in f.at .. Len(f.chain) /\ f.chain[m] \in active
        /\ \A j \in f.at .. (m - 1) : f.chain[j] \notin active
    BY <2>3, <2>4
  <2>6. Bus!Skips(f) = m BY <2>4, <2>2 DEF Bus!Skips
  <2> QED BY <1>1, <2>5, <2>6
<1> QED BY <1>2, <1>3

\* One frame for another of the same dispatch, in the same place.
LEMMA BusGoesOn ==
    ASSUME BusInv, ~Bus!Idle, NEW f \in BusFrames, under' = Bus!WithTop(f),
           f.id = Bus!Top.id, f.chain = Bus!Top.chain, f.used => f.running /\ f.mode = "waterfall",
           Bus!Top.used => f.used,
           UNCHANGED <<bus, fresh, active, count, defaults>>,
           back' \in Bus!Values \cup {Bus!Pending},
           called' \in Seq(Nat \X Nat \X Listener),
           \A c \in 1 .. Len(called') : called'[c][1] \in 1 .. count,
           \A c \in 1 .. Len(called') :
               called'[c][1] = f.id \/ \E b \in 1 .. Len(called) : called'[c] = called[b],
           \A b \in 1 .. Len(called) : \E c \in 1 .. Len(called') : called'[c] = called[b],
           \A i, j \in 1 .. Len(called') :
               i < j /\ called'[i][1] = called'[j][1] => called'[i][2] < called'[j][2],
           ~f.used => Recorded(f)'
    PROVE  BusInv'
<1>1. /\ Len(under) \in Nat \ {0} /\ under \in Seq(BusFrames)
      /\ Bus!Top = under[Len(under)] /\ Bus!Top \in BusFrames
      /\ \A i \in 1 .. Len(under) : i < Len(under) => under[i].running
      /\ \A i \in 1 .. Len(under) : i # Len(under) /\ under[i].id = Bus!Top.id => under[i].used
  BY InnermostFrame
<1>2. /\ under' \in Seq(BusFrames) /\ Len(under') = Len(under) /\ under' # <<>>
      /\ under'[Len(under)] = f /\ \A i \in 1 .. (Len(under) - 1) : under'[i] = under[i]
  <2>1. under' = [under EXCEPT ![Len(under)] = f] BY DEF Bus!WithTop
  <2> QED BY <1>1, <2>1, WithLast DEF Bus!Idle
<1>3. \A i \in 1 .. Len(under) : i = Len(under) \/ (i \in 1 .. (Len(under) - 1) /\ i < Len(under))
  BY <1>1
<1>4. BusTypes' BY <1>2 DEF BusInv, BusTypes
<1>5. Bus!TypeOK'
  <2>1. \A i \in 1 .. (Len(under') - 1) : under'[i].running BY <1>1, <1>2
  <2> QED BY <1>2, <2>1 DEF BusInv, Bus!TypeOK, Bus!Idle, Bus!ToSet
<1>6. Begun'
  <2>1. \A i \in 1 .. Len(under') : under'[i].id = under[i].id BY <1>1, <1>2, <1>3
  <2> QED BY <1>2, <2>1 DEF BusInv, Begun
<1>7. OneCaller'
  <2>1. \A i \in 1 .. Len(under') :
          /\ under'[i].id = under[i].id /\ under'[i].chain = under[i].chain
          /\ under[i].used => under'[i].used
    BY <1>1, <1>2, <1>3
  <2>2. \A i \in 1 .. Len(under') : under'[i].used => under'[i].running /\ under'[i].mode = "waterfall"
    BY <1>1, <1>2, <1>3 DEF BusInv, OneCaller
  <2>3. OneCaller /\ fresh' = fresh BY DEF BusInv
  <2> QED BY ONLY <1>2, <2>1, <2>2, <2>3 DEF OneCaller
<1>8. Records'
  <2> SUFFICES ASSUME NEW i \in 1 .. Len(under'), ~under'[i].used PROVE Recorded(under[i])'
    BY DEF Records
  <2>1. CASE i = Len(under) BY <1>2, <2>1
  <2>2. CASE i \in 1 .. (Len(under) - 1)
    <3>1. under'[i] = under[i] /\ i \in 1 .. Len(under) /\ i # Len(under)
      BY ONLY <1>1, <1>2, <2>2
    <3>2. Recorded(under[i]) BY <3>1 DEF BusInv, Records
    <3>3. under[i].id # f.id BY <1>1, <3>1
    <3>4. ASSUME NEW c \in 1 .. Len(called'), called'[c][1] = under[i].id
          PROVE  Passed(under[i], called'[c][2])
      <4>1. PICK b \in 1 .. Len(called) : called'[c] = called[b] BY <3>3, <3>4
      <4> QED BY ONLY <3>2, <3>4, <4>1 DEF Recorded
    <3>5. ASSUME NEW k \in 1 .. Len(under[i].chain), Passed(under[i], k), under[i].chain[k] \in active
          PROVE  \E c \in 1 .. Len(called') : called'[c] = <<under[i].id, k, under[i].chain[k]>>
      <4>1. PICK b \in 1 .. Len(called) : called[b] = <<under[i].id, k, under[i].chain[k]>>
        BY ONLY <3>2, <3>5 DEF Recorded
      <4> QED BY <4>1
    <3>6. active' = active /\ defaults' = defaults OBVIOUS
    <3> QED BY ONLY <3>1, <3>2, <3>4, <3>5, <3>6 DEF Recorded
  <2> QED BY <1>2, <1>3, <2>1, <2>2
<1>9. Bus!CalledOnceInOrder' BY DEF BusInv, Bus!CalledOnceInOrder
<1> QED BY <1>4, <1>5, <1>6, <1>7, <1>8, <1>9 DEF BusInv, Unrepeated

\* The next listener is one that is registered, and it is called for the first time.
LEMMA BusNextListener ==
    ASSUME BusInv, Bus!NextListener
    PROVE  BusInv' /\ Bus!RemovedIsNotCalled /\ UNCHANGED defaults /\ Len(under') = Len(under)
<1> PICK top : top = Bus!Top OBVIOUS
<1> PICK k : k = Bus!Skips(top) OBVIOUS
<1> PICK f : f = [top EXCEPT !.at = k, !.running = TRUE] OBVIOUS
<1>1. /\ ~Bus!Idle /\ ~top.running /\ k <= Len(top.chain) /\ under' = Bus!WithTop(f)
      /\ called' = Append(called, <<top.id, k, top.chain[k]>>)
      /\ UNCHANGED <<bus, fresh, active, back, count, defaults>>
  BY DEF Bus!NextListener, Bus!LoopRuns
<1>2. /\ Len(under) \in Nat \ {0} /\ under \in Seq(BusFrames) /\ top = under[Len(under)]
      /\ top \in BusFrames
  BY <1>1, InnermostFrame
<1>3. /\ k \in Nat \ {0} /\ k >= top.at /\ top.chain[k] \in active /\ k \in 1 .. Len(top.chain)
      /\ \A j \in 1 .. Len(top.chain) : top.at <= j /\ j < k => top.chain[j] \notin active
      /\ top.at \in Nat \ {0} /\ top.chain[k] \in Listener /\ top.id \in Nat
  BY <1>1, <1>2, SkipsInactive DEF BusFrames
<1>4. ~top.used /\ top.id \in 1 .. count
  <2>1. Len(under) \in 1 .. Len(under) BY <1>2
  <2> QED BY <1>1, <1>2, <2>1 DEF BusInv, OneCaller, Begun
<1>5. Recorded(top) BY <1>2, <1>4 DEF BusInv, Records
<1>6. /\ f \in BusFrames /\ f.id = top.id /\ f.chain = top.chain /\ ~f.used /\ f.running
      /\ f.at = k
  BY <1>2, <1>3, <1>4 DEF BusFrames
<1>7. /\ called' \in Seq(Nat \X Nat \X Listener) /\ Len(called') = Len(called) + 1
      /\ Len(called) \in Nat /\ called'[Len(called) + 1] = <<top.id, k, top.chain[k]>>
      /\ \A c \in 1 .. Len(called) : called'[c] = called[c]
  BY <1>1, <1>3, AppendProperties DEF BusInv, BusTypes
<1>8. \A c \in 1 .. Len(called') : c \in 1 .. Len(called) \/ c = Len(called) + 1 BY <1>7
<1>9. \A c \in 1 .. Len(called) : c \in 1 .. Len(called') /\ c < Len(called) + 1 BY <1>7
<1>10. \A c \in 1 .. Len(called) : called[c][1] = top.id => called[c][2] \in Nat /\ called[c][2] < k
  <2>1. \A c \in 1 .. Len(called) : called[c][2] \in Nat BY DEF BusInv, BusTypes
  <2>2. \A c \in 1 .. Len(called) : called[c][1] = top.id => called[c][2] < top.at
    BY <1>1, <1>5 DEF Recorded, Passed
  <2> QED BY <1>3, <2>1, <2>2
<1>11. BusInv'
  <2>1. \A c \in 1 .. Len(called') : called'[c][1] \in 1 .. count
    <3>1. \A c \in 1 .. Len(called) : called[c][1] \in 1 .. count BY DEF BusInv, Begun
    <3>2. ASSUME NEW c \in 1 .. Len(called') PROVE called'[c][1] \in 1 .. count
      <4>1. CASE c \in 1 .. Len(called) BY ONLY <1>7, <3>1, <4>1
      <4>2. CASE c = Len(called) + 1 BY ONLY <1>4, <1>7, <4>2
      <4> QED BY <1>8, <4>1, <4>2
    <3> QED BY <3>2
  <2>2. \A c \in 1 .. Len(called') :
          called'[c][1] = f.id \/ \E b \in 1 .. Len(called) : called'[c] = called[b]
    <3>1. ASSUME NEW c \in 1 .. Len(called')
          PROVE  called'[c][1] = f.id \/ \E b \in 1 .. Len(called) : called'[c] = called[b]
      <4>1. CASE c \in 1 .. Len(called) BY ONLY <1>7, <4>1
      <4>2. CASE c = Len(called) + 1 BY ONLY <1>6, <1>7, <4>2
      <4> QED BY <1>8, <4>1, <4>2
    <3> QED BY <3>1
  <2>3. \A b \in 1 .. Len(called) : \E c \in 1 .. Len(called') : called'[c] = called[b]
    BY <1>7, <1>9
  <2>4. \A i, j \in 1 .. Len(called') :
          i < j /\ called'[i][1] = called'[j][1] => called'[i][2] < called'[j][2]
    <3> SUFFICES ASSUME NEW i \in 1 .. Len(called'), NEW j \in 1 .. Len(called'), i < j,
                        called'[i][1] = called'[j][1]
                 PROVE  called'[i][2] < called'[j][2]
      OBVIOUS
    <3>1. i \in 1 .. Len(called) BY <1>7, <1>8
    <3>2. CASE j \in 1 .. Len(called)
      BY <1>7, <3>1, <3>2 DEF BusInv, Bus!CalledOnceInOrder
    <3>3. CASE j = Len(called) + 1 BY <1>7, <1>10, <3>1, <3>3, SMTT(30)
    <3> QED BY <1>8, <3>2, <3>3
  <2>5. Recorded(f)'
    <3>1. \A c \in 1 .. Len(called') : called'[c][1] = f.id => Passed(f, called'[c][2])
      BY <1>6, <1>7, <1>8, <1>10 DEF Passed
    <3>2. \A d \in 1 .. Len(defaults) : defaults[d] # f.id BY <1>5, <1>6 DEF Recorded
    <3>3. ASSUME NEW m \in 1 .. Len(f.chain), Passed(f, m), f.chain[m] \in active
          PROVE  \E c \in 1 .. Len(called') : called'[c] = <<f.id, m, f.chain[m]>>
      <4>1. m \in Nat /\ (m < top.at \/ (top.at <= m /\ m < k) \/ m = k)
        BY <1>3, <1>6, <3>3 DEF Passed
      <4>2. CASE m = k
        <5>1. Len(called) + 1 \in 1 .. Len(called') BY ONLY <1>7
        <5> QED BY ONLY <1>6, <1>7, <4>2, <5>1
      <4>3. CASE m < top.at
        <5>1. Passed(top, m) BY <4>3 DEF Passed
        <5>2. \E c \in 1 .. Len(called) : called[c] = <<top.id, m, top.chain[m]>>
          BY <1>5, <1>6, <3>3, <5>1 DEF Recorded
        <5> QED BY <1>6, <1>7, <1>9, <5>2
      <4>4. CASE top.at <= m /\ m < k BY <1>3, <1>6, <3>3, <4>4
      <4> QED BY <4>1, <4>2, <4>3, <4>4
    <3> QED BY <1>1, <3>1, <3>2, <3>3 DEF Recorded
  <2>6. back' \in Bus!Values \cup {Bus!Pending} BY <1>1 DEF BusInv, Bus!TypeOK
  <2>7. called' \in Seq(Nat \X Nat \X Listener) BY <1>7
  <2>8. f.chain = Bus!Top.chain /\ f.id = Bus!Top.id /\ ~Bus!Top.used /\ ~f.used BY <1>4, <1>6
  <2> HIDE DEF BusInv
  <2> QED BY ONLY BusInv, <1>1, <1>6, <2>1, <2>2, <2>3, <2>4, <2>5, <2>6, <2>7, <2>8, BusGoesOn
<1>12. Bus!RemovedIsNotCalled
  <2>1. \A i \in (Len(called) + 1) .. Len(called') : i = Len(called) + 1 BY <1>7
  <2> QED BY <1>3, <1>7, <2>1 DEF Bus!RemovedIsNotCalled
<1>13. Len(under') = Len(under)
  BY <1>1, <1>2 DEF Bus!WithTop
<1> QED BY <1>1, <1>11, <1>12, <1>13

\* A loop that finds nobody left has called everybody who is registered.
LEMMA BusEndOfChain ==
    ASSUME BusInv, Bus!EndOfChain
    PROVE  /\ BusInv' /\ Bus!RemovedIsNotCalled
           /\ Bus!EmitReachesEveryone /\ Bus!DefaultIsInnermost
<1> PICK top : top = Bus!Top OBVIOUS
<1>1. /\ ~Bus!Idle /\ ~top.running /\ Bus!Skips(top) > Len(top.chain)
      /\ UNCHANGED <<bus, fresh, active, count, called>>
      /\ \/ /\ top.mode = "waterfall" /\ defaults' = Append(defaults, top.id)
            /\ \E v \in {"value", "raised"} : Bus!Leave(v)
         \/ top.mode # "waterfall" /\ Bus!Leave("none") /\ UNCHANGED defaults
  BY DEF Bus!EndOfChain, Bus!LoopRuns
<1>2. /\ Len(under) \in Nat \ {0} /\ under \in Seq(BusFrames) /\ top = under[Len(under)]
      /\ top \in BusFrames
  BY <1>1, InnermostFrame
<1>3. ~top.used
  <2>1. Len(under) \in 1 .. Len(under) BY <1>2
  <2> QED BY <1>1, <1>2, <2>1 DEF BusInv, OneCaller
<1>4. PICK v \in Bus!Values :
        Bus!Leave(v) /\ (top.mode = "emit" => v = "none")
  BY <1>1 DEF Bus!Values
<1>5. BusInv' BY <1>1, <1>3, <1>4, BusLeave
<1>6. Bus!Reached(top)
  <2>1. Recorded(top)
    <3>1. Len(under) \in 1 .. Len(under) BY <1>2
    <3> QED BY <1>2, <1>3, <3>1 DEF BusInv, Records
  <2>2. /\ top.at \in Nat /\ Len(top.chain) \in Nat /\ Bus!Skips(top) \in Nat
        /\ \A j \in 1 .. Len(top.chain) :
              top.at <= j /\ j < Bus!Skips(top) => top.chain[j] \notin active
    BY <1>2, SkipsInactive DEF BusFrames
  <2>3. called \in Seq(Nat \X Nat \X Listener) BY DEF BusInv, BusTypes
  <2> SUFFICES ASSUME NEW k \in 1 .. Len(top.chain), top.chain[k] \in active
               PROVE  <<top.id, k, top.chain[k]>> \in Bus!ToSet(called)
    BY DEF Bus!Reached
  <2>4. k < top.at
    <3>1. k < Bus!Skips(top) BY ONLY <1>1, <2>2
    <3> QED BY <2>2, <3>1
  <2>5. PICK c \in 1 .. Len(called) : called[c] = <<top.id, k, top.chain[k]>>
    BY <2>1, <2>4 DEF Recorded, Passed
  <2> QED BY <2>3, <2>5 DEF Bus!ToSet
<1>7. Bus!RemovedIsNotCalled
  <2>1. Len(called) \in Nat BY DEF BusInv, BusTypes
  <2>2. (Len(called) + 1) .. Len(called') = {} BY <1>1, <2>1
  <2> QED BY <2>2 DEF Bus!RemovedIsNotCalled
<1>8. Bus!EmitReachesEveryone
  BY <1>4, <1>6 DEF Bus!EmitReachesEveryone, Bus!Leave
<1>9. Bus!DefaultIsInnermost BY <1>6 DEF Bus!DefaultIsInnermost
<1> QED BY <1>5, <1>7, <1>8, <1>9

\* A step that only hands something back, or takes it.
LEMMA BusWaits ==
    ASSUME BusInv, UNCHANGED <<bus, fresh, active, under, count, called, defaults>>,
           back' \in Bus!Values \cup {Bus!Pending}, Bus!Idle => back' = Bus!Pending
    PROVE  BusInv'
<1>1. BusTypes' BY DEF BusInv, BusTypes
<1>2. Bus!TypeOK' BY DEF BusInv, Bus!TypeOK, Bus!Idle, Bus!ToSet
<1>3. Records'
  <2> SUFFICES ASSUME NEW i \in 1 .. Len(under), ~under[i].used PROVE Recorded(under[i])'
    BY DEF Records
  <2>1. Recorded(under[i]) BY DEF BusInv, Records
  <2> QED BY <2>1 DEF Recorded
<1>4. OneCaller' BY DEF BusInv, OneCaller
<1> QED BY <1>1, <1>2, <1>3, <1>4 DEF BusInv, Unrepeated, Begun, Bus!CalledOnceInOrder

\* The rest of a waterfall is a frame of its own; the listener's own has used its next().
LEMMA BusCallNext ==
    ASSUME BusInv, Bus!CallNext
    PROVE  BusInv' /\ UNCHANGED <<called, defaults>> /\ Len(under') \in Nat /\ Len(under') >= Len(under)
<1> PICK top : top = Bus!Top OBVIOUS
<1>1. /\ ~Bus!Idle /\ top.running /\ top.mode = "waterfall"
      /\ UNCHANGED <<bus, fresh, active, count, called, defaults>>
  BY DEF Bus!CallNext, Bus!ListenerRuns
<1>2. /\ Len(under) \in Nat \ {0} /\ under \in Seq(BusFrames) /\ top = under[Len(under)]
      /\ top \in BusFrames
      /\ \A i \in 1 .. Len(under) : i < Len(under) => under[i].running
      /\ \A i \in 1 .. Len(under) : i # Len(under) /\ under[i].id = top.id => under[i].used
  BY <1>1, InnermostFrame
<1>3. CASE top.used
  <2>1. back' = "raised" /\ UNCHANGED under BY <1>3 DEF Bus!CallNext
  <2>2. BusInv' BY <1>1, <2>1, BusWaits DEF Bus!Values
  <2> QED BY <1>1, <1>2, <2>1, <2>2
<1>4. CASE ~top.used
  <2> PICK f : f = [top EXCEPT !.used = TRUE] OBVIOUS
  <2> PICK g : g = Bus!Frame(top.id, top.mode, top.chain, top.at + 1) OBVIOUS
  <2>1. under' = Append(Bus!WithTop(f), g) /\ UNCHANGED back
    BY <1>4 DEF Bus!CallNext
  <2>2. /\ f \in BusFrames /\ f.id = top.id /\ f.chain = top.chain /\ f.used /\ f.running
        /\ f.mode = "waterfall"
    BY <1>1, <1>2 DEF BusFrames
  <2>3. /\ g \in BusFrames /\ g.id = top.id /\ g.chain = top.chain /\ g.at = top.at + 1
        /\ ~g.running /\ ~g.used
    BY <1>2 DEF BusFrames, Bus!Frame
  <2>4. /\ under' \in Seq(BusFrames) /\ Len(under') = Len(under) + 1 /\ under' # <<>>
        /\ under'[Len(under)] = f /\ under'[Len(under) + 1] = g
        /\ \A i \in 1 .. (Len(under) - 1) : under'[i] = under[i]
    <3> PICK s : s = Bus!WithTop(f) OBVIOUS
    <3>1. /\ s \in Seq(BusFrames) /\ Len(s) = Len(under) /\ s[Len(under)] = f
          /\ \A i \in 1 .. (Len(under) - 1) : s[i] = under[i]
      <4>1. s = [under EXCEPT ![Len(under)] = f] BY DEF Bus!WithTop
      <4>2. under # <<>> BY <1>1 DEF Bus!Idle
      <4> QED BY ONLY <1>2, <2>2, <4>1, <4>2, WithLast
    <3>2. under' = Append(s, g) BY <2>1
    <3>3. /\ under' \in Seq(BusFrames) /\ Len(under') = Len(s) + 1 /\ under' # <<>>
          /\ under'[Len(s) + 1] = g /\ \A i \in 1 .. Len(s) : under'[i] = s[i]
      BY ONLY <2>3, <3>1, <3>2, AppendProperties
    <3> QED BY ONLY <1>2, <3>1, <3>3
  <2>5. \A i \in 1 .. Len(under') :
          i \in 1 .. (Len(under) - 1) \/ i = Len(under) \/ i = Len(under) + 1
    BY ONLY <1>2, <2>4
  <2>6. \A i \in 1 .. (Len(under) - 1) :
          i \in 1 .. Len(under) /\ i # Len(under) /\ under'[i] = under[i] /\ under[i].running
    BY ONLY <1>2, <2>4
  <2>7. top.id \in 1 .. count /\ \A k \in 1 .. Len(top.chain) : top.chain[k] \notin fresh
    <3>1. Len(under) \in 1 .. Len(under) BY <1>2
    <3> QED BY <1>2, <3>1 DEF BusInv, OneCaller, Begun
  <2>8. BusTypes' BY <1>1, <2>1, <2>4 DEF BusInv, BusTypes
  <2>9. Bus!TypeOK'
    <3>1. ASSUME NEW i \in 1 .. (Len(under') - 1) PROVE under'[i].running
      <4>1. i \in 1 .. (Len(under) - 1) \/ i = Len(under) BY ONLY <1>2, <2>4
      <4> QED BY ONLY <2>2, <2>4, <2>6, <4>1
    <3>2. Bus!TypeOK /\ under' # <<>> /\ back' = back BY <2>1, <2>4 DEF BusInv
    <3> QED BY ONLY <1>1, <3>1, <3>2 DEF Bus!TypeOK, Bus!Idle, Bus!ToSet
  <2>10. Begun'
    <3>1. ASSUME NEW i \in 1 .. Len(under') PROVE under'[i].id \in 1 .. count
      <4>1. CASE i \in 1 .. (Len(under) - 1) BY <2>6, <4>1 DEF BusInv, Begun
      <4>2. CASE i = Len(under) BY ONLY <2>2, <2>4, <2>7, <4>2
      <4>3. CASE i = Len(under) + 1 BY ONLY <2>3, <2>4, <2>7, <4>3
      <4> QED BY <2>5, <4>1, <4>2, <4>3
    <3> QED BY <1>1, <3>1 DEF BusInv, Begun
  <2>11. OneCaller'
    <3> SUFFICES ASSUME NEW i \in 1 .. Len(under')
                 PROVE  /\ under'[i].used => under'[i].running /\ under'[i].mode = "waterfall"
                        /\ \A j \in 1 .. Len(under') :
                              i < j /\ under'[i].id = under'[j].id => under'[i].used
                        /\ \A k \in 1 .. Len(under'[i].chain) : under'[i].chain[k] \notin fresh
      BY <1>1 DEF OneCaller
    <3>1. CASE i \in 1 .. (Len(under) - 1)
      <4>1. i \in 1 .. Len(under) /\ i # Len(under) /\ under'[i] = under[i] BY <2>6, <3>1
      <4>2. ASSUME NEW j \in 1 .. Len(under'), i < j, under'[i].id = under'[j].id
            PROVE  under'[i].used
        <5>1. CASE j \in 1 .. (Len(under) - 1)
          <6>1. j \in 1 .. Len(under) /\ under'[j] = under[j] BY <2>6, <5>1
          <6> QED BY <4>1, <4>2, <6>1 DEF BusInv, OneCaller
        <5>2. CASE j = Len(under) \/ j = Len(under) + 1
          <6>1. under'[j].id = top.id BY ONLY <2>2, <2>3, <2>4, <5>2
          <6> QED BY ONLY <1>2, <4>1, <4>2, <6>1
        <5> QED BY <2>5, <5>1, <5>2
      <4> QED BY <4>1, <4>2 DEF BusInv, OneCaller
    <3>2. CASE i = Len(under) BY <2>2, <2>4, <2>7, <3>2
    <3>3. CASE i = Len(under) + 1
      <4>1. \A j \in 1 .. Len(under') : ~(i < j) BY ONLY <1>2, <2>4, <3>3
      <4> QED BY <2>3, <2>4, <2>7, <3>3, <4>1
    <3> QED BY <2>5, <3>1, <3>2, <3>3
  <2>12. Records'
    <3> SUFFICES ASSUME NEW i \in 1 .. Len(under'), ~under'[i].used PROVE Recorded(under[i])'
      BY DEF Records
    <3>1. CASE i \in 1 .. (Len(under) - 1)
      <4>1. Recorded(under[i]) /\ under'[i] = under[i] BY <2>6, <3>1 DEF BusInv, Records
      <4> QED BY <1>1, <4>1 DEF Recorded
    <3>2. CASE i = Len(under) + 1
      <4>1. Recorded(top)
        <5>1. Len(under) \in 1 .. Len(under) BY <1>2
        <5> QED BY <1>2, <1>4, <5>1 DEF BusInv, Records
      <4>2. \A c \in 1 .. Len(called) : called[c][1] = g.id => Passed(g, called[c][2])
        <5>1. \A c \in 1 .. Len(called) : called[c][2] \in Nat BY SMTT(30) DEF BusInv, BusTypes
        <5>2. top.at \in Nat BY <1>2 DEF BusFrames
        <5> QED BY <2>3, <4>1, <5>1, <5>2 DEF Recorded, Passed
      <4>3. ASSUME NEW k \in 1 .. Len(g.chain), Passed(g, k) PROVE Passed(top, k)
        <5>1. top.at \in Nat BY <1>2 DEF BusFrames
        <5> QED BY <1>1, <2>3, <4>3, <5>1 DEF Passed
      <4>4. under'[i] = g BY <2>4, <3>2
      <4> QED BY <1>1, <2>3, <4>1, <4>2, <4>3, <4>4, ZenonT(30) DEF Recorded
    <3> QED BY <2>2, <2>4, <2>5, <3>1, <3>2
  <2> QED BY <1>1, <1>2, <2>4, <2>8, <2>9, <2>10, <2>11, <2>12
          DEF BusInv, Unrepeated, Bus!CalledOnceInOrder
<1> QED BY <1>3, <1>4

LEMMA BusReceives ==
    ASSUME BusInv, Bus!Receives
    PROVE  BusInv' /\ UNCHANGED <<called, defaults>> /\ Len(under') \in Nat /\ Len(under') >= Len(under)
<1>1. back' = Bus!Pending /\ UNCHANGED <<bus, fresh, active, under, count, called, defaults>>
  BY DEF Bus!Receives
<1>2. Len(under) \in Nat BY DEF BusInv, BusTypes
<1> QED BY <1>1, <1>2, BusWaits

\* A listener's end ends its frame, or its loop goes on with the listener behind it.
LEMMA BusEnds ==
    ASSUME Bus!EventBusAssumption, BusInv, NEW v \in Bus!Values, Bus!Ends(v)
    PROVE  /\ BusInv' /\ Bus!RemovedIsNotCalled
           /\ Bus!EmitReachesEveryone /\ Bus!DefaultIsInnermost
<1> PICK top : top = Bus!Top OBVIOUS
<1>1. /\ ~Bus!Idle /\ top.running /\ UNCHANGED <<bus, fresh, active, count, called, defaults>>
      /\ IF Bus!Concludes(top.mode, v)
         THEN Bus!Leave(v)
         ELSE /\ under' = Bus!WithTop([top EXCEPT !.at = @ + 1, !.running = FALSE])
              /\ back' = Bus!Pending
  BY DEF Bus!Ends, Bus!ListenerRuns
<1>2. /\ Len(under) \in Nat \ {0} /\ under \in Seq(BusFrames) /\ top = under[Len(under)]
      /\ top \in BusFrames
  BY <1>1, InnermostFrame
<1>3. Bus!RemovedIsNotCalled
  <2>1. Len(called) \in Nat BY DEF BusInv, BusTypes
  <2>2. (Len(called) + 1) .. Len(called') = {} BY <1>1, <2>1
  <2> QED BY <2>2 DEF Bus!RemovedIsNotCalled
<1>4. Bus!DefaultIsInnermost BY <1>1 DEF Bus!DefaultIsInnermost
<1>5. top.mode \in {"emit", "bail", "waterfall"}
  BY <1>2 DEF BusFrames, Bus!EventBusAssumption
<1>6. CASE Bus!Concludes(top.mode, v)
  <2>1. Bus!Leave(v) /\ top.mode # "emit" BY <1>1, <1>6 DEF Bus!Concludes
  <2>2. BusInv' BY <1>1, <2>1, BusLeave
  <2> QED BY <1>3, <1>4, <2>1, <2>2 DEF Bus!EmitReachesEveryone
<1>7. CASE ~Bus!Concludes(top.mode, v)
  <2> PICK f : f = [top EXCEPT !.at = @ + 1, !.running = FALSE] OBVIOUS
  <2>1. under' = Bus!WithTop(f) /\ back' = Bus!Pending BY <1>1, <1>7
  <2>2. top.mode # "waterfall" BY <1>5, <1>7 DEF Bus!Concludes
  <2>3. ~top.used /\ Recorded(top)
    <3>1. Len(under) \in 1 .. Len(under) BY <1>2
    <3> QED BY <1>2, <2>2, <3>1 DEF BusInv, OneCaller, Records
  <2>4. /\ f \in BusFrames /\ f.id = top.id /\ f.chain = top.chain /\ ~f.used /\ ~f.running
        /\ f.at = top.at + 1 /\ top.at \in Nat
    <3>1. top \in BusFrames /\ ~top.used BY <1>2, <2>3
    <3>2. top.at \in Nat \ {0} BY <3>1 DEF BusFrames
    <3>3. top.at + 1 \in Nat \ {0} BY ONLY <3>2
    <3>4. f = [top EXCEPT !.at = @ + 1, !.running = FALSE] OBVIOUS
    <3>5. f = [id |-> top.id, mode |-> top.mode, chain |-> top.chain, at |-> top.at + 1,
               running |-> FALSE, used |-> top.used]
      BY ONLY <3>1, <3>4 DEF BusFrames
    <3> QED BY ONLY <3>1, <3>2, <3>3, <3>5 DEF BusFrames
  <2>5. \A k \in Nat : Passed(f, k) = Passed(top, k) BY ONLY <1>1, <2>4 DEF Passed
  <2>6. Recorded(f)'
    <3>1. \A c \in 1 .. Len(called) : called[c][2] \in Nat BY DEF BusInv, BusTypes
    <3>2. \A k \in 1 .. Len(f.chain) : k \in Nat OBVIOUS
    <3>3. Recorded(f) BY ONLY <2>3, <2>4, <2>5, <3>1, <3>2 DEF Recorded
    <3> QED BY <1>1, <3>3 DEF Recorded
  <2>7. /\ called \in Seq(Nat \X Nat \X Listener) /\ Len(called) \in Nat
        /\ \A c \in 1 .. Len(called) : called[c][1] \in 1 .. count
        /\ \A i, j \in 1 .. Len(called) :
              i < j /\ called[i][1] = called[j][1] => called[i][2] < called[j][2]
    BY DEF BusInv, BusTypes, Begun, Bus!CalledOnceInOrder
  <2>8. BusInv'
    <3>1. called' \in Seq(Nat \X Nat \X Listener) /\ called' = called BY <1>1, <2>7
    <3>2. /\ \A c \in 1 .. Len(called') : called'[c][1] \in 1 .. count
          /\ \A c \in 1 .. Len(called') :
                called'[c][1] = f.id \/ \E b \in 1 .. Len(called) : called'[c] = called[b]
          /\ \A b \in 1 .. Len(called) : \E c \in 1 .. Len(called') : called'[c] = called[b]
          /\ \A i, j \in 1 .. Len(called') :
                i < j /\ called'[i][1] = called'[j][1] => called'[i][2] < called'[j][2]
      BY ONLY <2>7, <3>1
    <3>3. back' \in Bus!Values \cup {Bus!Pending} BY <2>1
    <3>4. f.id = Bus!Top.id /\ f.chain = Bus!Top.chain /\ ~f.used /\ ~Bus!Top.used
      BY <2>3, <2>4
    <3> HIDE DEF BusInv
    <3> QED BY ONLY BusInv, <1>1, <2>1, <2>4, <2>6, <3>1, <3>2, <3>3, <3>4, BusGoesOn
  <2>9. Len(under') = Len(under) BY <1>2, <2>1 DEF Bus!WithTop
  <2>10. Bus!EmitReachesEveryone BY <1>2, <2>9 DEF Bus!EmitReachesEveryone
  <2> QED BY <1>3, <1>4, <2>8, <2>10
<1> QED BY <1>6, <1>7

\* Every step of the bus keeps its strengthening and its promise.
LEMMA BusStep ==
    ASSUME Bus!EventBusAssumption, BusInv, Bus!Next
    PROVE  BusInv' /\ Bus!Orderly
<1>1. BusInv' /\ Bus!RemovedIsNotCalled /\ Bus!EmitReachesEveryone /\ Bus!DefaultIsInnermost
  <2>1. Len(under) \in Nat /\ BusTypes BY DEF BusInv, BusTypes
  <2>2. ASSUME NEW l \in Listener, NEW e \in Event, NEW prepend \in BOOLEAN,
               Bus!On(l, e, prepend)
        PROVE  BusInv' /\ UNCHANGED <<called, defaults, under>>
    BY <2>2, BusOn DEF Bus!On
  <2>3. ASSUME NEW l \in Listener, Bus!Off(l)
        PROVE  BusInv' /\ UNCHANGED <<called, defaults, under>>
    BY <2>3, BusOff DEF Bus!Off
  <2>4. ASSUME NEW mode \in Modes, NEW e \in Event, Bus!Dispatch(mode, e)
        PROVE  BusInv' /\ UNCHANGED <<called, defaults>> /\ Len(under') = Len(under) + 1
    <3>1. under' = Append(under, Bus!Frame(count + 1, mode, bus[e], 1)) BY <2>4 DEF Bus!Dispatch
    <3>2. under \in Seq(BusFrames) /\ Bus!Frame(count + 1, mode, bus[e], 1) \in BusFrames
      BY DEF BusInv, BusTypes, BusFrames, Bus!Frame
    <3>3. Len(under') = Len(under) + 1 BY ONLY <3>1, <3>2, AppendProperties
    <3> QED BY <2>4, <3>3, BusDispatch DEF Bus!Dispatch
  <2>5. CASE Bus!NextListener
    BY <2>1, <2>5, BusNextListener DEF Bus!EmitReachesEveryone, Bus!DefaultIsInnermost
  <2>6. CASE Bus!EndOfChain BY <2>6, BusEndOfChain
  <2>7. CASE Bus!CallNext BY <2>1, <2>7, BusCallNext, NobodyCalled
  <2>8. CASE Bus!Receives BY <2>1, <2>8, BusReceives, NobodyCalled
  <2>9. ASSUME NEW v \in Bus!Values, Bus!Ends(v)
        PROVE  BusInv' /\ Bus!RemovedIsNotCalled /\ Bus!EmitReachesEveryone /\ Bus!DefaultIsInnermost
    BY <2>9, BusEnds
  <2>10. CASE Bus!Done
    <3>1. UNCHANGED <<bus, fresh, active, under, back, count, called, defaults>>
      BY <2>10 DEF Bus!Done, Bus!vars
    <3>2. BusInv' BY <3>1, BusWaits DEF BusInv, Bus!TypeOK
    <3> QED BY <2>1, <3>1, <3>2, NobodyCalled
  <2>11. ASSUME UNCHANGED <<called, defaults>>, Len(under') \in Nat, Len(under') >= Len(under)
         PROVE  Bus!RemovedIsNotCalled /\ Bus!EmitReachesEveryone /\ Bus!DefaultIsInnermost
    BY <2>1, <2>11, NobodyCalled
  <2>12. CASE \E l \in Listener, e \in Event, prepend \in BOOLEAN : Bus!On(l, e, prepend)
    BY <2>1, <2>2, <2>11, <2>12
  <2>13. CASE \E l \in Listener : Bus!Off(l) BY <2>1, <2>3, <2>11, <2>13
  <2>14. CASE \E mode \in Modes, e \in Event : Bus!Dispatch(mode, e) BY <2>1, <2>4, <2>11, <2>14
  <2> QED BY <2>5, <2>6, <2>7, <2>8, <2>9, <2>10, <2>12, <2>13, <2>14 DEF Bus!Next
<1> QED BY <1>1 DEF Bus!Orderly, BusInv

---------------------------------------------------------------------------
(* Configuration values.  A value's path is walked key by key; what        *)
(* deep_merge() gives at its end is said by the two walks it follows.      *)

\* The walk along a path: the recursive definition of Level() has a value.
LEMMA LevelSteps ==
    ASSUME NEW c, NEW path, Len(path) \in Nat
    PROVE  /\ Compose!Level(c, path, 0) = c
           /\ \A n \in 1 .. Len(path) :
                 Compose!Level(c, path, n) = Compose!PartAt(Compose!Level(c, path, n - 1), path[n])
<1> DEFINE Walks(m) ==
      \E g : g = [i \in 0 .. m |-> IF i = 0 THEN c ELSE Compose!PartAt(g[i - 1], path[i])]
<1>1. Walks(0)
  <2> PICK g : g = [i \in 0 .. 0 |-> c] OBVIOUS
  <2>1. g = [i \in 0 .. 0 |-> IF i = 0 THEN c ELSE Compose!PartAt(g[i - 1], path[i])]
    OBVIOUS
  <2> QED BY <2>1
<1>2. ASSUME NEW m \in Nat, Walks(m) PROVE Walks(m + 1)
  <2> PICK g : g = [i \in 0 .. m |-> IF i = 0 THEN c ELSE Compose!PartAt(g[i - 1], path[i])]
    BY <1>2
  <2> PICK h : h = [i \in 0 .. (m + 1) |->
                      IF i = m + 1 THEN Compose!PartAt(g[m], path[m + 1]) ELSE g[i]]
    OBVIOUS
  <2>1. \A i \in 0 .. m : h[i] = g[i] OBVIOUS
  <2>2. ASSUME NEW i \in 0 .. (m + 1)
        PROVE  h[i] = IF i = 0 THEN c ELSE Compose!PartAt(h[i - 1], path[i])
    <3>1. CASE i = m + 1
      <4>1. i # 0 /\ i - 1 = m /\ m \in 0 .. m BY <3>1
      <4>2. h[i] = Compose!PartAt(g[m], path[m + 1]) BY <3>1
      <4> QED BY <2>1, <3>1, <4>1, <4>2
    <3>2. CASE i \in 0 .. m
      <4>1. g[i] = IF i = 0 THEN c ELSE Compose!PartAt(g[i - 1], path[i]) BY <3>2
      <4>2. i # 0 => i - 1 \in 0 .. m BY <3>2
      <4> QED BY <2>1, <3>2, <4>1, <4>2
    <3> QED BY <3>1, <3>2
  <2>3. h = [i \in 0 .. (m + 1) |-> IF i = 0 THEN c ELSE Compose!PartAt(h[i - 1], path[i])]
    BY <2>2
  <2> QED BY <2>3, SMTT(30)
<1>3. \A m \in Nat : Walks(m)
  <2> DEFINE Bad == {m \in Nat : ~Walks(m)}
  <2> HIDE DEF Walks
  <2> SUFFICES ASSUME Bad # {} PROVE FALSE OBVIOUS
  <2>1. PICK m \in Bad : \A k \in Bad : m <= k BY LeastNumber
  <2>2. m \in Nat /\ m # 0 BY <1>1
  <2>3. m - 1 \in Nat /\ ~(m <= m - 1) BY <2>2
  <2>4. Walks(m - 1) BY <2>1, <2>3
  <2>5. Walks((m - 1) + 1) BY <1>2, <2>3, <2>4
  <2>6. (m - 1) + 1 = m BY <2>2
  <2> QED BY <2>5, <2>6
<1> DEFINE walk == CHOOSE w : w = [i \in 0 .. Len(path) |->
                                     IF i = 0 THEN c ELSE Compose!PartAt(w[i - 1], path[i])]
<1>4. walk = [i \in 0 .. Len(path) |-> IF i = 0 THEN c ELSE Compose!PartAt(walk[i - 1], path[i])]
  <2>1. Walks(Len(path)) BY <1>3
  <2> QED BY <2>1
<1>5. \A n : Compose!Level(c, path, n) = walk[n] BY DEF Compose!Level
<1> HIDE DEF walk
<1>6. 0 \in 0 .. Len(path) /\ walk[0] = c BY <1>4
<1>7. ASSUME NEW n \in 1 .. Len(path)
      PROVE  walk[n] = Compose!PartAt(walk[n - 1], path[n])
  <2>1. n \in 0 .. Len(path) /\ n # 0 OBVIOUS
  <2> QED BY <1>4, <2>1
<1> QED BY <1>5, <1>6, <1>7

\* What is at the end of a path in the merged value: what the later value has there or,
\* where that does not touch the path, what the earlier one had.
MergeLaw(b, o, m, path) ==
    \A v : v # Compose!Absent /\ ~Compose!IsMap(v) =>
        (Compose!At(m, path) = v <=>
            Compose!At(o, path) = v \/ (~Compose!Touches(o, path) /\ Compose!At(b, path) = v))

LEMMA MergeStep ==
    ASSUME Compose!CompositionAssumption, NEW b \in ConfigPart, NEW o \in ConfigPart,
           Compose!IsMap(b), Compose!IsMap(o), NEW k
    PROVE  LET m == Compose!PartAt(Merge(b, o), k) IN
        /\ Compose!IsMap(Merge(b, o))
        /\ \/ /\ Compose!PartAt(b, k) \in ConfigPart /\ Compose!PartAt(o, k) \in ConfigPart
              /\ m = Merge(Compose!PartAt(b, k), Compose!PartAt(o, k))
           \/ Compose!PartAt(b, k) = Compose!Absent /\ m = Compose!PartAt(o, k)
           \/ Compose!PartAt(o, k) = Compose!Absent /\ m = Compose!PartAt(b, k)
<1> PICK f : f = [key \in DOMAIN b.map \cup DOMAIN o.map |->
                    IF key \notin DOMAIN o.map THEN b.map[key]
                    ELSE IF key \in DOMAIN b.map THEN Merge(b.map[key], o.map[key])
                         ELSE o.map[key]]
  OBVIOUS
<1>1. Merge(b, o) = Compose!Mapping(f)
  BY DEF Compose!CompositionAssumption, Compose!MergesByKey
<1>2. Compose!IsMap(Merge(b, o)) /\ Merge(b, o).map = f
  BY <1>1 DEF Compose!IsMap, Compose!Mapping
<1>3. /\ k \in DOMAIN b.map => b.map[k] \in ConfigPart
      /\ k \in DOMAIN o.map => o.map[k] \in ConfigPart
  BY DEF Compose!CompositionAssumption
<1> QED BY <1>2, <1>3 DEF Compose!PartAt

LEMMA MergeAlongPath ==
    ASSUME Compose!CompositionAssumption, NEW b \in ConfigPart, NEW o \in ConfigPart, NEW path,
           Len(path) \in Nat
    PROVE  MergeLaw(b, o, Merge(b, o), path)
<1> DEFINE B(n) == Compose!Level(b, path, n)
           O(n) == Compose!Level(o, path, n)
           M(n) == Compose!Level(Merge(b, o), path, n)
           Open(n) == \A k \in 0 .. (n - 1) : O(k) # Compose!Absent => Compose!IsMap(O(k))
           Tells(n) ==
             \/ B(n) \in ConfigPart /\ O(n) \in ConfigPart /\ M(n) = Merge(B(n), O(n)) /\ Open(n)
             \/ B(n) = Compose!Absent /\ M(n) = O(n)
             \/ O(n) = Compose!Absent /\ M(n) = B(n) /\ Open(n)
             \/ O(n) = Compose!Absent /\ M(n) = Compose!Absent /\ ~Open(n)
<1>1. /\ B(0) = b /\ O(0) = o /\ M(0) = Merge(b, o)
      /\ \A n \in 1 .. Len(path) :
            /\ B(n) = Compose!PartAt(B(n - 1), path[n])
            /\ O(n) = Compose!PartAt(O(n - 1), path[n])
            /\ M(n) = Compose!PartAt(M(n - 1), path[n])
  <2>1. /\ B(0) = b
        /\ \A n \in 1 .. Len(path) : B(n) = Compose!PartAt(B(n - 1), path[n])
    BY LevelSteps, ZenonT(30)
  <2>2. /\ O(0) = o
        /\ \A n \in 1 .. Len(path) : O(n) = Compose!PartAt(O(n - 1), path[n])
    BY LevelSteps, ZenonT(30)
  <2>3. /\ M(0) = Merge(b, o)
        /\ \A n \in 1 .. Len(path) : M(n) = Compose!PartAt(M(n - 1), path[n])
    BY LevelSteps, ZenonT(30)
  <2> HIDE DEF B, O, M
  <2> QED BY ONLY <2>1, <2>2, <2>3
<1>2. \A k : Compose!PartAt(Compose!Absent, k) = Compose!Absent
  BY DEF Compose!PartAt, Compose!Absent, Compose!IsMap
<1>3. \A x \in ConfigPart : x # Compose!Absent
  BY DEF Compose!CompositionAssumption
<1>4. \A x, y \in ConfigPart : ~(Compose!IsMap(x) /\ Compose!IsMap(y)) => Merge(x, y) = y
  BY DEF Compose!CompositionAssumption, Compose!MergesByKey
<1>5. Tells(0) BY <1>1
<1> HIDE DEF B, O, M
<1>6. ASSUME NEW n \in 0 .. (Len(path) - 1), Tells(n) PROVE Tells(n + 1)
  <2>1. n + 1 \in 1 .. Len(path) /\ (n + 1) - 1 = n OBVIOUS
  <2> PICK k : k = path[n + 1] OBVIOUS
  <2>2. /\ B(n + 1) = Compose!PartAt(B(n), k) /\ O(n + 1) = Compose!PartAt(O(n), k)
        /\ M(n + 1) = Compose!PartAt(M(n), k)
    BY <1>1, <2>1
  <2>3. /\ Open(n) /\ (O(n) # Compose!Absent => Compose!IsMap(O(n))) => Open(n + 1)
        /\ ~Open(n) => ~Open(n + 1)
        /\ O(n) # Compose!Absent /\ ~Compose!IsMap(O(n)) => ~Open(n + 1)
    <3>1. \A j \in 0 .. n : j \in 0 .. (n - 1) \/ j = n OBVIOUS
    <3>2. \A j \in 0 .. (n - 1) : j \in 0 .. n OBVIOUS
    <3>3. n \in 0 .. n OBVIOUS
    <3>4. Open(n + 1) <=> \A j \in 0 .. n : O(j) # Compose!Absent => Compose!IsMap(O(j))
      BY <2>1
    <3> QED BY <3>1, <3>2, <3>3, <3>4
  <2> HIDE DEF Open
  <2>4. CASE B(n) \in ConfigPart /\ O(n) \in ConfigPart /\ M(n) = Merge(B(n), O(n)) /\ Open(n)
    <3>1. CASE Compose!IsMap(B(n)) /\ Compose!IsMap(O(n))
      <4>1. Open(n + 1) BY <2>3, <2>4, <3>1
      <4> QED BY <2>2, <2>4, <3>1, <4>1, MergeStep
    <3>2. CASE Compose!IsMap(O(n)) /\ ~Compose!IsMap(B(n))
      BY <1>4, <2>2, <2>4, <3>2 DEF Compose!PartAt
    <3>3. CASE ~Compose!IsMap(O(n))
      <4>1. ~Open(n + 1) BY <1>3, <2>3, <2>4, <3>3
      <4>2. M(n) = O(n) BY <1>4, <2>4, <3>3
      <4> QED BY <2>2, <3>3, <4>1, <4>2 DEF Compose!PartAt
    <3> QED BY <3>1, <3>2, <3>3
  <2>5. CASE B(n) = Compose!Absent /\ M(n) = O(n) BY <1>2, <2>2, <2>5
  <2>6. CASE O(n) = Compose!Absent /\ M(n) = B(n) /\ Open(n) BY <1>2, <2>2, <2>3, <2>6
  <2>7. CASE O(n) = Compose!Absent /\ M(n) = Compose!Absent /\ ~Open(n)
    BY <1>2, <2>2, <2>3, <2>7
  <2> QED BY <1>6, <2>4, <2>5, <2>6, <2>7
<1>7. Tells(Len(path))
  <2> DEFINE Bad == {n \in 0 .. Len(path) : ~Tells(n)}
  <2> HIDE DEF Tells
  <2> SUFFICES ASSUME Bad # {} PROVE FALSE
    BY DEF Tells
  <2>1. Bad \subseteq Nat OBVIOUS
  <2>2. PICK n \in Bad : \A j \in Bad : n <= j BY <2>1, LeastNumber
  <2>3. n \in 0 .. Len(path) /\ n # 0 BY <1>5
  <2>4. n - 1 \in 0 .. (Len(path) - 1) /\ n - 1 \in 0 .. Len(path) /\ ~(n <= n - 1)
        /\ (n - 1) + 1 = n
    BY <2>3
  <2>5. Tells(n - 1) BY <2>2, <2>4
  <2>6. Tells((n - 1) + 1) BY <1>6, <2>4, <2>5
  <2> QED BY <2>4, <2>6
<1>8. SUFFICES ASSUME NEW v, v # Compose!Absent, ~Compose!IsMap(v)
      PROVE  M(Len(path)) = v <=>
                 O(Len(path)) = v \/ (~Compose!Touches(o, path) /\ B(Len(path)) = v)
  BY DEF MergeLaw, Compose!At, B, O, M
<1>9. Compose!Touches(o, path) <=> O(Len(path)) # Compose!Absent \/ ~Open(Len(path))
  BY DEF Compose!Touches, Compose!At, O
<1> DEFINE b1 == B(Len(path))
           o1 == O(Len(path))
<1>10. CASE b1 \in ConfigPart /\ o1 \in ConfigPart /\ M(Len(path)) = Merge(b1, o1)
  <2>1. CASE Compose!IsMap(b1) /\ Compose!IsMap(o1)
    <3>1. Compose!IsMap(Merge(b1, o1)) BY <1>10, <2>1, MergeStep
    <3> QED BY <1>3, <1>8, <1>9, <1>10, <2>1, <3>1
  <2>2. CASE ~(Compose!IsMap(b1) /\ Compose!IsMap(o1)) BY <1>3, <1>4, <1>9, <1>10, <2>2
  <2> QED BY <2>1, <2>2
<1> QED BY <1>7, <1>8, <1>9, <1>10

---------------------------------------------------------------------------
(* The patches reached so far, and what they tell of an entry.             *)

First(ps, id, d) ==
    /\ d \in 1 .. Len(ps) /\ Compose!Inserts(ps[d], id)
    /\ \A j \in 1 .. (d - 1) : ~Compose!Inserts(ps[j], id)

\* The layer that defined an entry said its plugin, and nobody defined it before.
Origin(ps, e) ==
    /\ First(ps, e.id, Compose!DefinedBy(ps, e.id))
    /\ e.plugin = Compose!AsDefined(ps, e.id).plugin

\* An entry is what the layers that spoke of it made of it.
ConfigTold(ps, e) ==
    \A path \in Paths : \A v : v # Compose!Absent /\ ~Compose!IsMap(v) =>
        (Compose!At(e.config, path) = v <=>
            \E i \in Compose!Final(ps, e.id, path) : Compose!At(Compose!ConfigAt(ps, e.id, i), path) = v)
Told(ps, e) == Origin(ps, e) /\ e.disabled = Compose!LastFlag(ps, e.id) /\ ConfigTold(ps, e)

LEMMA FirstDefines ==
    ASSUME NEW S, NEW ps \in Seq(S), NEW id, NEW d, First(ps, id, d)
    PROVE  Compose!DefinedBy(ps, id) = d
<1>1. DOMAIN ps = 1 .. Len(ps) OBVIOUS
<1>2. \A i \in 1 .. Len(ps) :
        Compose!Inserts(ps[i], id) /\ (\A j \in 1 .. (i - 1) : ~Compose!Inserts(ps[j], id))
          => i = d
  <2> SUFFICES ASSUME NEW i \in 1 .. Len(ps), Compose!Inserts(ps[i], id),
                      \A j \in 1 .. (i - 1) : ~Compose!Inserts(ps[j], id), i # d
               PROVE  FALSE
    OBVIOUS
  <2>1. d \in Int /\ i \in Int BY DEF First
  <2>2. CASE i < d
    <3>1. i \in 1 .. (d - 1) BY <2>1, <2>2
    <3> QED BY <3>1 DEF First
  <2>3. CASE d < i
    <3>1. d \in 1 .. (i - 1) BY <2>1, <2>3 DEF First
    <3> QED BY <3>1 DEF First
  <2> QED BY <2>1, <2>2, <2>3
<1> QED BY <1>1, <1>2 DEF Compose!DefinedBy, First

\* What is inserted at all is inserted first somewhere.
LEMMA SomeFirst ==
    ASSUME NEW S, NEW ps \in Seq(S), NEW id, NEW n \in 1 .. Len(ps), Compose!Inserts(ps[n], id)
    PROVE  \E d \in 1 .. n : First(ps, id, d)
<1> DEFINE Inserting == {i \in 1 .. Len(ps) : Compose!Inserts(ps[i], id)}
<1>1. Inserting \subseteq Nat /\ Inserting # {} OBVIOUS
<1>2. PICK d \in Inserting : \A i \in Inserting : d <= i BY <1>1, LeastNumber
<1>3. d \in 1 .. Len(ps) /\ d <= n BY <1>2
<1>4. \A j \in 1 .. (d - 1) : ~Compose!Inserts(ps[j], id)
  <2>1. \A j \in 1 .. (d - 1) : j \in 1 .. Len(ps) /\ ~(d <= j) BY <1>3
  <2> QED BY <1>2, <2>1
<1>5. d \in 1 .. n BY <1>3
<1> QED BY <1>2, <1>4, <1>5 DEF First

\* One more patch does not change who defined an entry.
LEMMA OneMore ==
    ASSUME NEW S, NEW ps \in Seq(S), NEW p \in S, NEW id, NEW d, First(ps, id, d)
    PROVE  LET qs == Append(ps, p)
               defined == Compose!AsDefined(ps, id)
               new == IF Compose!Speaks(p, id, defined.plugin) THEN {Len(ps) + 1} ELSE {}
           IN /\ First(qs, id, d) /\ Compose!DefinedBy(qs, id) = d
              /\ Compose!AsDefined(qs, id) = defined
              /\ Compose!Spoken(qs, id) = Compose!Spoken(ps, id) \cup new
              /\ \A i \in 1 .. Len(ps) : Compose!ConfigAt(qs, id, i) = Compose!ConfigAt(ps, id, i)
              /\ Compose!ConfigAt(qs, id, Len(ps) + 1) = p.config
<1> PICK qs : qs = Append(ps, p) OBVIOUS
<1>1. /\ qs \in Seq(S) /\ Len(qs) = Len(ps) + 1 /\ Len(ps) \in Nat /\ qs[Len(ps) + 1] = p
      /\ \A i \in 1 .. Len(ps) : qs[i] = ps[i]
  BY AppendProperties
<1>2. DOMAIN qs = 1 .. (Len(ps) + 1) /\ DOMAIN ps = 1 .. Len(ps) BY <1>1
<1>3. d \in 1 .. Len(ps) BY DEF First
<1>4. First(qs, id, d)
  <2>1. d \in 1 .. Len(qs) /\ \A j \in 1 .. (d - 1) : j \in 1 .. Len(ps) BY <1>1, <1>3
  <2> QED BY <1>1, <1>3, <2>1 DEF First
<1>5. Compose!DefinedBy(qs, id) = d /\ Compose!DefinedBy(ps, id) = d
  BY <1>1, <1>4, FirstDefines
<1>6. Compose!AsDefined(qs, id) = Compose!AsDefined(ps, id)
  BY <1>1, <1>3, <1>5 DEF Compose!AsDefined
<1> PICK plugin : plugin = Compose!AsDefined(ps, id).plugin OBVIOUS
<1>7. Compose!Spoken(qs, id) = {i \in 1 .. (Len(ps) + 1) : i > d /\ Compose!Speaks(qs[i], id, plugin)}
  BY <1>2, <1>5, <1>6 DEF Compose!Spoken
<1>8. Compose!Spoken(ps, id) = {i \in 1 .. Len(ps) : i > d /\ Compose!Speaks(ps[i], id, plugin)}
  BY <1>2, <1>5 DEF Compose!Spoken
<1>9. \A i \in 1 .. (Len(ps) + 1) : i \in 1 .. Len(ps) \/ i = Len(ps) + 1 BY <1>1
<1>10. Len(ps) + 1 > d /\ Len(ps) + 1 # d /\ Len(ps) + 1 \in 1 .. (Len(ps) + 1)
       /\ \A i \in 1 .. Len(ps) : i \in 1 .. (Len(ps) + 1)
  BY <1>1, <1>3
<1>11. Compose!Spoken(qs, id) = Compose!Spoken(ps, id) \cup
         (IF Compose!Speaks(p, id, plugin) THEN {Len(ps) + 1} ELSE {})
  BY <1>1, <1>7, <1>8, <1>9, <1>10
<1>12. \A i \in 1 .. Len(ps) : Compose!ConfigAt(qs, id, i) = Compose!ConfigAt(ps, id, i)
  BY <1>1, <1>5, <1>6 DEF Compose!ConfigAt
<1>13. Compose!ConfigAt(qs, id, Len(ps) + 1) = p.config
  BY <1>1, <1>5, <1>10 DEF Compose!ConfigAt
<1> QED BY <1>4, <1>5, <1>6, <1>11, <1>12, <1>13

\* A place of a set of places that is behind all the others.
LEMMA LastPlace ==
    ASSUME NEW n \in Nat, NEW T \in SUBSET (1 .. n), T # {}
    PROVE  \E x \in T : \A y \in T : y <= x
<1> DEFINE U == {n - x : x \in T}
<1>1. U \subseteq Nat /\ U # {}
  <2>1. \A x \in T : x \in 1 .. n /\ n - x \in Nat OBVIOUS
  <2> QED BY <2>1
<1>2. PICK u \in U : \A w \in U : u <= w BY <1>1, LeastNumber
<1>3. PICK x \in T : u = n - x BY <1>2
<1>4. ASSUME NEW y \in T PROVE y <= x
  <2>1. n - y \in U OBVIOUS
  <2>2. u <= n - y BY <1>2, <2>1
  <2> QED BY <1>3, <2>2
<1> QED BY <1>4

\* Who wrote an entry's configuration and who set its flag, with one more patch.
LEMMA OneMoreWriter ==
    ASSUME NEW S, NEW ps \in Seq(S), NEW p \in S, NEW e, Origin(ps, e)
    PROVE  LET qs == Append(ps, p)
               n == Len(ps) + 1
               speaks == Compose!Speaks(p, e.id, e.plugin)
           IN /\ Compose!ConfigWriters(ps, e.id) \subseteq 1 .. Len(ps)
              /\ Compose!FlagSetters(ps, e.id) \subseteq 1 .. Len(ps)
              /\ Compose!ConfigWriters(qs, e.id) = Compose!ConfigWriters(ps, e.id)
                    \cup (IF speaks /\ Compose!SetsConfig(p) THEN {n} ELSE {})
              /\ Compose!FlagSetters(qs, e.id) = Compose!FlagSetters(ps, e.id)
                    \cup (IF speaks /\ Compose!Has(p, "disabled") THEN {n} ELSE {})
              /\ \A i \in 1 .. Len(ps) : qs[i] = ps[i]
              /\ qs[n] = p /\ Origin(qs, e)
<1> PICK qs : qs = Append(ps, p) OBVIOUS
<1> PICK d : d = Compose!DefinedBy(ps, e.id) OBVIOUS
<1>1. /\ qs \in Seq(S) /\ Len(qs) = Len(ps) + 1 /\ Len(ps) \in Nat /\ qs[Len(ps) + 1] = p
      /\ \A i \in 1 .. Len(ps) : qs[i] = ps[i]
  BY AppendProperties
<1>2. First(ps, e.id, d) /\ e.plugin = Compose!AsDefined(ps, e.id).plugin BY DEF Origin
<1>3. d \in 1 .. Len(ps) BY <1>2 DEF First
<1> PICK more : more = IF Compose!Speaks(p, e.id, e.plugin) THEN {Len(ps) + 1} ELSE {} OBVIOUS
<1>4. /\ First(qs, e.id, d) /\ Compose!DefinedBy(qs, e.id) = d
      /\ Compose!AsDefined(qs, e.id) = Compose!AsDefined(ps, e.id)
      /\ Compose!Spoken(qs, e.id) = Compose!Spoken(ps, e.id) \cup more
  BY <1>2, OneMore
<1>5. Compose!Spoken(ps, e.id) \subseteq 1 .. Len(ps) BY DEF Compose!Spoken
<1>6. \A i \in Compose!Spoken(ps, e.id) : qs[i] = ps[i] BY <1>1, <1>5
<1>7. \A i \in more : qs[i] = p BY <1>1
<1>8. Compose!ConfigWriters(qs, e.id) = Compose!ConfigWriters(ps, e.id)
        \cup {i \in more : Compose!SetsConfig(p)}
  BY <1>4, <1>6, <1>7 DEF Compose!ConfigWriters
<1>9. Compose!FlagSetters(qs, e.id) = Compose!FlagSetters(ps, e.id)
        \cup {i \in more : Compose!Has(p, "disabled")}
  BY <1>4, <1>6, <1>7 DEF Compose!FlagSetters
<1>10. Compose!ConfigWriters(ps, e.id) \subseteq 1 .. Len(ps)
  BY <1>3, <1>5 DEF Compose!ConfigWriters
<1>11. Compose!FlagSetters(ps, e.id) \subseteq 1 .. Len(ps)
  BY <1>5 DEF Compose!FlagSetters
<1>12. Origin(qs, e) BY <1>2, <1>4 DEF Origin
<1> QED BY <1>1, <1>8, <1>9, <1>10, <1>11, <1>12

\* The last flag, with one more patch: what it sets, or the last one before.
LEMMA OneMoreFlag ==
    ASSUME NEW S, NEW ps \in Seq(S), NEW p \in S, NEW e, Origin(ps, e)
    PROVE  Compose!LastFlag(Append(ps, p), e.id) =
             IF Compose!Speaks(p, e.id, e.plugin) /\ Compose!Has(p, "disabled")
             THEN p.disabled ELSE Compose!LastFlag(ps, e.id)
<1> PICK qs : qs = Append(ps, p) OBVIOUS
<1> PICK n : n = Len(ps) + 1 OBVIOUS
<1> PICK T : T = Compose!FlagSetters(ps, e.id) OBVIOUS
<1>1. /\ Len(ps) \in Nat /\ T \subseteq 1 .. Len(ps) /\ qs[n] = p
      /\ \A i \in 1 .. Len(ps) : qs[i] = ps[i]
      /\ Compose!FlagSetters(qs, e.id) = T \cup
           (IF Compose!Speaks(p, e.id, e.plugin) /\ Compose!Has(p, "disabled") THEN {n} ELSE {})
  BY OneMoreWriter
<1>2. Compose!AsDefined(qs, e.id) = Compose!AsDefined(ps, e.id) BY OneMore DEF Origin
<1>3. CASE Compose!Speaks(p, e.id, e.plugin) /\ Compose!Has(p, "disabled")
  <2>1. Compose!FlagSetters(qs, e.id) = T \cup {n} BY <1>1, <1>3
  <2>2. \A i \in T \cup {n} : (\A j \in T \cup {n} : j <= i) <=> i = n BY <1>1
  <2>3. (CHOOSE i \in T \cup {n} : \A j \in T \cup {n} : j <= i) = n BY <2>2
  <2> QED BY <1>1, <1>3, <2>1, <2>3 DEF Compose!LastFlag
<1>4. CASE ~(Compose!Speaks(p, e.id, e.plugin) /\ Compose!Has(p, "disabled"))
  <2>1. Compose!FlagSetters(qs, e.id) = T BY <1>1, <1>4
  <2>2. CASE T = {} BY <1>2, <1>4, <2>1, <2>2 DEF Compose!LastFlag
  <2>3. CASE T # {}
    <3>1. \E i \in T : \A j \in T : j <= i BY <1>1, <2>3, LastPlace
    <3> PICK c : c = CHOOSE i \in T : \A j \in T : j <= i OBVIOUS
    <3>2. c \in T BY <3>1
    <3>3. qs[c] = ps[c] BY <1>1, <3>2
    <3>4. Compose!LastFlag(ps, e.id) = ps[c].disabled BY <2>3 DEF Compose!LastFlag
    <3>5. Compose!LastFlag(qs, e.id) = qs[c].disabled BY <2>1, <2>3 DEF Compose!LastFlag
    <3> QED BY <1>4, <3>3, <3>4, <3>5
  <2> QED BY <2>2, <2>3
<1> QED BY <1>3, <1>4

\* A patch that does not speak of an entry leaves it what it was.
LEMMA NotSpokenOf ==
    ASSUME NEW S, NEW ps \in Seq(S), NEW p \in S, NEW e, Told(ps, e),
           ~Compose!Speaks(p, e.id, e.plugin)
    PROVE  Told(Append(ps, p), e)
<1> PICK qs : qs = Append(ps, p) OBVIOUS
<1> PICK W : W = Compose!ConfigWriters(ps, e.id) OBVIOUS
<1>1. Origin(ps, e) BY DEF Told
<1>2. W \subseteq 1 .. Len(ps) /\ Compose!ConfigWriters(qs, e.id) = W /\ Origin(qs, e)
  <2> PICK speaks : speaks = Compose!Speaks(p, e.id, e.plugin) OBVIOUS
  <2>1. /\ W \subseteq 1 .. Len(ps) /\ Origin(qs, e)
        /\ Compose!ConfigWriters(qs, e.id) =
             W \cup (IF speaks /\ Compose!SetsConfig(p) THEN {Len(ps) + 1} ELSE {})
    BY <1>1, OneMoreWriter
  <2>2. ~speaks OBVIOUS
  <2> QED BY <2>1, <2>2
<1>3. Compose!LastFlag(qs, e.id) = Compose!LastFlag(ps, e.id) BY <1>1, OneMoreFlag
<1>4. \A i \in W : Compose!ConfigAt(qs, e.id, i) = Compose!ConfigAt(ps, e.id, i)
  BY <1>1, <1>2, OneMore DEF Origin
<1>5. \A path : Compose!Final(qs, e.id, path) = Compose!Final(ps, e.id, path)
  BY <1>2, <1>4 DEF Compose!Final
<1>6. \A path : Compose!Final(ps, e.id, path) \subseteq W BY DEF Compose!Final
<1>7. ConfigTold(qs, e)
  BY <1>4, <1>5, <1>6 DEF Told, ConfigTold
<1> QED BY <1>2, <1>3, <1>7 DEF Told

\* A patch that speaks of an entry has the last word on what it sets.
LEMMA SpokenOf ==
    ASSUME Compose!CompositionAssumption,
           NEW S, NEW ps \in Seq(S), NEW p \in S, NEW e, NEW q, Told(ps, e),
           Compose!Speaks(p, e.id, e.plugin), q.id = e.id, q.plugin = e.plugin,
           q.disabled = IF Compose!Has(p, "disabled") THEN p.disabled ELSE e.disabled,
           q.config = IF Compose!SetsConfig(p) THEN Merge(e.config, p.config) ELSE e.config,
           e.config \in ConfigPart, Compose!SetsConfig(p) => p.config \in ConfigPart
    PROVE  Told(Append(ps, p), q)
<1> PICK qs : qs = Append(ps, p) OBVIOUS
<1> PICK n : n = Len(ps) + 1 OBVIOUS
<1> PICK W : W = Compose!ConfigWriters(ps, e.id) OBVIOUS
<1>1. Origin(ps, e) BY DEF Told
<1>2. /\ W \subseteq 1 .. Len(ps) /\ Origin(qs, e) /\ Len(ps) \in Nat
      /\ Compose!ConfigWriters(qs, e.id) = W \cup (IF Compose!SetsConfig(p) THEN {n} ELSE {})
  BY <1>1, OneMoreWriter
<1>3. Compose!LastFlag(qs, q.id) = q.disabled BY <1>1, OneMoreFlag DEF Told
<1>4. /\ \A i \in W : Compose!ConfigAt(qs, e.id, i) = Compose!ConfigAt(ps, e.id, i)
      /\ Compose!ConfigAt(qs, e.id, n) = p.config
  BY <1>1, <1>2, OneMore DEF Origin
<1>5. \A path : Compose!Final(ps, e.id, path) \subseteq W BY DEF Compose!Final
<1>6. ConfigTold(qs, q)
  <2>1. CASE ~Compose!SetsConfig(p)
    <3>1. \A path : Compose!Final(qs, e.id, path) = Compose!Final(ps, e.id, path)
      BY <1>2, <1>4, <2>1 DEF Compose!Final
    <3> QED BY <1>4, <1>5, <2>1, <3>1 DEF Told, ConfigTold
  <2>2. CASE Compose!SetsConfig(p)
    <3> SUFFICES ASSUME NEW path \in Paths, NEW v, v # Compose!Absent, ~Compose!IsMap(v)
                 PROVE  Compose!At(q.config, path) = v <=>
                          \E i \in Compose!Final(qs, e.id, path) :
                             Compose!At(Compose!ConfigAt(qs, e.id, i), path) = v
      BY DEF ConfigTold
    <3>1. Compose!Final(qs, e.id, path) =
            {n} \cup {i \in Compose!Final(ps, e.id, path) : ~Compose!Touches(p.config, path)}
      <4>1. Compose!ConfigWriters(qs, e.id) = W \cup {n} BY <1>2, <2>2
      <4>2. \A i \in W : n > i /\ ~(i > n) /\ i # n BY <1>2
      <4>3. ~(n > n) BY <1>2
      <4> QED BY <1>4, <4>1, <4>2, <4>3 DEF Compose!Final
    <3>2. Len(path) \in Nat BY DEF Compose!CompositionAssumption
    <3>3. MergeLaw(e.config, p.config, Merge(e.config, p.config), path)
      BY <2>2, <3>2, MergeAlongPath
    <3>4. Compose!At(q.config, path) = v <=>
            \/ Compose!At(p.config, path) = v
            \/ ~Compose!Touches(p.config, path) /\ Compose!At(e.config, path) = v
      BY <2>2, <3>3 DEF MergeLaw
    <3>5. Compose!At(e.config, path) = v <=>
            \E i \in Compose!Final(ps, e.id, path) : Compose!At(Compose!ConfigAt(ps, e.id, i), path) = v
      BY DEF Told, ConfigTold
    <3> QED BY <1>4, <1>5, <3>1, <3>4, <3>5
  <2> QED BY <2>1, <2>2
<1> QED BY <1>2, <1>3, <1>6 DEF Told, Origin

\* A new entry is what its insertion says.
LEMMA NewlyTold ==
    ASSUME NEW S, NEW ps \in Seq(S), NEW p \in S, NEW e \in Compose!ToSet(p.insert),
           Compose!Has(p, "insert"), p.insert \in Seq(Compose!ToSet(p.insert)),
           \A i, j \in DOMAIN p.insert : p.insert[i].id = p.insert[j].id => i = j,
           \A i \in 1 .. Len(ps) : ~Compose!Inserts(ps[i], e.id)
    PROVE  Told(Append(ps, p), e)
<1> PICK qs : qs = Append(ps, p) OBVIOUS
<1> PICK n : n = Len(ps) + 1 OBVIOUS
<1>1. /\ qs \in Seq(S) /\ Len(qs) = n /\ Len(ps) \in Nat /\ qs[n] = p
      /\ \A i \in 1 .. Len(ps) : qs[i] = ps[i]
  BY AppendProperties
<1>2. \A x \in Compose!ToSet(p.insert) : x.id = e.id <=> x = e BY DEF Compose!ToSet
<1>3. First(qs, e.id, n)
  <2>1. Compose!Inserts(p, e.id) BY DEF Compose!Inserts, Compose!Ids, Compose!ToSet
  <2>2. n \in 1 .. Len(qs) /\ \A j \in 1 .. (n - 1) : j \in 1 .. Len(ps) BY <1>1
  <2> QED BY <1>1, <2>1, <2>2 DEF First
<1>4. Compose!DefinedBy(qs, e.id) = n BY <1>1, <1>3, FirstDefines
<1>5. Compose!AsDefined(qs, e.id) = e BY <1>1, <1>2, <1>4 DEF Compose!AsDefined
<1>6. Compose!Spoken(qs, e.id) = {}
  <2>1. \A i \in DOMAIN qs : ~(i > n) BY <1>1
  <2> QED BY <1>4, <2>1 DEF Compose!Spoken
<1>7. Compose!ConfigWriters(qs, e.id) = {n} BY <1>4, <1>6 DEF Compose!ConfigWriters
<1>8. Compose!ConfigAt(qs, e.id, n) = e.config BY <1>4, <1>5 DEF Compose!ConfigAt
<1>9. \A path : Compose!Final(qs, e.id, path) = {n}
  <2>1. ~(n > n) BY <1>1
  <2> QED BY <1>7, <2>1 DEF Compose!Final
<1>10. Compose!LastFlag(qs, e.id) = e.disabled
  BY <1>5, <1>6 DEF Compose!LastFlag, Compose!FlagSetters
<1> QED BY <1>3, <1>4, <1>5, <1>8, <1>9, <1>10 DEF Told, Origin, ConfigTold

---------------------------------------------------------------------------
(* The composition's strengthening: every entry is what the patches reached *)
(* so far say of it, and no entry they define is missing.                   *)

Insertions == UNION {Compose!ToSet(p.insert) : p \in {q \in Compose!AllPatches : Compose!Has(q, "insert")}}
ComposedEntries ==
    {[id |-> d.id, plugin |-> d.plugin, config |-> c, disabled |-> b] :
        d \in Insertions, c \in Config, b \in BOOLEAN}
Layers == {"bundle", "config-steps", "profile", "overlay"} \X Seq(Compose!AllPatches)

ComposeTypes ==
    /\ layers \in Seq(Layers) /\ entries \in Seq(ComposedEntries)
    /\ written \in Seq(Compose!AllPatches) /\ warned \subseteq 1 .. Len(written)

Distinct(es) == \A i, j \in 1 .. Len(es) : es[i].id = es[j].id => i = j

AloudAt(ps, told, i) ==
    LET id == ps[i].id
        known == \E j \in 1 .. (i - 1) : Compose!Inserts(ps[j], id)
    IN i \in told <=>
         \/ ~(known /\ i \in Compose!Spoken(ps, id))
         \/ Compose!Has(ps[i], "config") /\ ps[i].config = Compose!Null

ComposeInv ==
    /\ ComposeTypes /\ Distinct(entries)
    /\ \A i \in 1 .. Len(entries) : Origin(written, entries[i])
    /\ composing # "refused" =>
          /\ \A i \in 1 .. Len(entries) : Told(written, entries[i])
          /\ \A j \in 1 .. Len(written) : \A id :
                Compose!Inserts(written[j], id) => \E i \in 1 .. Len(entries) : entries[i].id = id
          /\ \A i \in 1 .. Len(written) :
                Compose!Has(written[i], "id") => AloudAt(written, warned, i)
    /\ composing \in {"profile", "layers"} => DOMAIN mounted = {}
    /\ DOMAIN mounted \subseteq {entries[i].id : i \in Compose!Enabled}
    /\ composing \in {"mounting", "booted"} => Compose!CoreOn
    /\ composing = "booted" => Compose!Passes

\* What a patch that inserts holds.
LEMMA Insertion ==
    ASSUME Compose!CompositionAssumption, NEW p \in Compose!AllPatches, Compose!Has(p, "insert")
    PROVE  /\ p.insert \in Seq(ComposedEntries) /\ p.insert \in Seq(Compose!ToSet(p.insert))
           /\ ~Compose!Has(p, "id")
<1>1. Compose!IsPatch(p) BY DEF Compose!CompositionAssumption
<1>2. /\ DOMAIN p = {"insert"} /\ p.insert \in Seq(Compose!ToSet(p.insert))
      /\ \A e \in Compose!ToSet(p.insert) : Compose!IsEntry(e)
  BY <1>1 DEF Compose!IsPatch, Compose!Has
<1>3. Compose!ToSet(p.insert) \subseteq ComposedEntries
  <2> SUFFICES ASSUME NEW e \in Compose!ToSet(p.insert) PROVE e \in ComposedEntries
    OBVIOUS
  <2>1. e \in Insertions BY DEF Insertions
  <2>2. /\ e = [id |-> e.id, plugin |-> e.plugin, config |-> e.config, disabled |-> e.disabled]
        /\ e.config \in Config /\ e.disabled \in BOOLEAN
    BY <1>2 DEF Compose!IsEntry
  <2> QED BY <2>1, <2>2 DEF ComposedEntries
<1>4. p.insert \in Seq(ComposedEntries)
  <2>1. Len(p.insert) \in Nat /\ p.insert \in [1 .. Len(p.insert) -> Compose!ToSet(p.insert)]
    BY <1>2
  <2>2. p.insert \in [1 .. Len(p.insert) -> ComposedEntries] BY <1>3, <2>1
  <2> QED BY <2>1, <2>2, SeqDef
<1> QED BY <1>2, <1>4 DEF Compose!Has

\* What a patch makes of an entry it speaks of.
LEMMA PatchedEntry ==
    ASSUME Compose!CompositionAssumption, NEW e \in ComposedEntries,
           NEW p \in Compose!AllPatches, Compose!Has(p, "id"), ~Compose!BadFlag(p),
           NEW q, q = Compose!Patched(e, p)
    PROVE  /\ q \in ComposedEntries /\ q.id = e.id /\ q.plugin = e.plugin
           /\ q.disabled = IF Compose!Has(p, "disabled") THEN p.disabled ELSE e.disabled
           /\ q.config = IF Compose!SetsConfig(p) THEN Merge(e.config, p.config) ELSE e.config
           /\ e.config \in ConfigPart
           /\ Compose!SetsConfig(p) => p.config \in ConfigPart
<1>1. Compose!IsPatch(p) BY DEF Compose!CompositionAssumption
<1>2. /\ Compose!Has(p, "config") => p.config \in ConfigPart
      /\ Compose!Has(p, "disabled") => p.disabled \in BOOLEAN
  BY <1>1 DEF Compose!IsPatch, Compose!Has, Compose!BadFlag
<1>3. PICK d \in Insertions, c \in Config, b \in BOOLEAN :
        e = [id |-> d.id, plugin |-> d.plugin, config |-> c, disabled |-> b]
  BY DEF ComposedEntries
<1> PICK f : f = IF Compose!SetsConfig(p) THEN Merge(c, p.config) ELSE c OBVIOUS
<1> PICK g : g = IF Compose!Has(p, "disabled") THEN p.disabled ELSE b OBVIOUS
<1>4. q = [id |-> d.id, plugin |-> d.plugin, config |-> f, disabled |-> g]
  BY <1>3 DEF Compose!Patched
<1>5. f \in Config /\ Config \subseteq ConfigPart BY DEF Compose!CompositionAssumption
<1>6. g \in BOOLEAN BY <1>2
<1>7. q \in ComposedEntries BY <1>4, <1>5, <1>6 DEF ComposedEntries
<1>8. Compose!SetsConfig(p) => p.config \in ConfigPart BY <1>2 DEF Compose!SetsConfig
<1>9. e.config = c /\ e.disabled = b /\ e.id = d.id /\ e.plugin = d.plugin BY <1>3
<1>10. q.config = f /\ q.disabled = g /\ q.id = d.id /\ q.plugin = d.plugin BY <1>4
<1> QED BY <1>5, <1>7, <1>8, <1>9, <1>10

\* The warning about a patch stands, whatever comes after it.
LEMMA StaysAloud ==
    ASSUME NEW S, NEW ps \in Seq(S), NEW p \in S, NEW told, NEW more,
           NEW i \in 1 .. Len(ps), AloudAt(ps, told, i), i \in more <=> i \in told
    PROVE  AloudAt(Append(ps, p), more, i)
<1> PICK qs : qs = Append(ps, p) OBVIOUS
<1> PICK id : id = ps[i].id OBVIOUS
<1>1. Len(ps) \in Nat /\ \A j \in 1 .. Len(ps) : qs[j] = ps[j] BY AppendProperties
<1>2. \A j \in 1 .. (i - 1) : j \in 1 .. Len(ps) BY <1>1
<1>3. CASE ~(\E j \in 1 .. (i - 1) : Compose!Inserts(ps[j], id))
  BY <1>1, <1>2, <1>3 DEF AloudAt
<1>4. CASE \E j \in 1 .. (i - 1) : Compose!Inserts(ps[j], id)
  <2>1. PICK j \in 1 .. (i - 1) : Compose!Inserts(ps[j], id) BY <1>4
  <2>2. PICK d : First(ps, id, d) BY <1>2, <2>1, SomeFirst
  <2> PICK new : new = IF Compose!Speaks(p, id, Compose!AsDefined(ps, id).plugin)
                       THEN {Len(ps) + 1} ELSE {}
    OBVIOUS
  <2>3. Compose!Spoken(qs, id) = Compose!Spoken(ps, id) \cup new BY <2>2, OneMore
  <2>4. i \notin new BY <1>1
  <2>5. i \in Compose!Spoken(qs, id) <=> i \in Compose!Spoken(ps, id) BY <2>3, <2>4
  <2> QED BY <1>1, <1>2, <2>5 DEF AloudAt
<1> QED BY <1>3, <1>4

\* A patch with no entry to speak of is spoken of nowhere: it is warned about, or it
\* speaks of the entry with its id.
LEMMA BecomesAloud ==
    ASSUME NEW S, NEW ps \in Seq(S), NEW p \in S, NEW more,
           NEW n, n = Len(ps) + 1, NEW applies \in BOOLEAN,
           applies => \E e : Origin(ps, e) /\ Compose!Speaks(p, e.id, e.plugin) /\ e.id = p.id,
           ~applies => \/ \A j \in 1 .. Len(ps) : ~Compose!Inserts(ps[j], p.id)
                       \/ \E e : Origin(ps, e) /\ ~Compose!Speaks(p, e.id, e.plugin) /\ e.id = p.id,
           n \in more <=> ~applies \/ (Compose!Has(p, "config") /\ p.config = Compose!Null)
    PROVE  AloudAt(Append(ps, p), more, n)
<1> PICK qs : qs = Append(ps, p) OBVIOUS
<1> PICK id : id = p.id OBVIOUS
<1>1. Len(ps) \in Nat /\ qs[n] = p /\ \A j \in 1 .. Len(ps) : qs[j] = ps[j] BY AppendProperties
<1>2. 1 .. (n - 1) = 1 .. Len(ps) BY <1>1
<1>3. (\E j \in 1 .. (n - 1) : Compose!Inserts(qs[j], id)) /\ n \in Compose!Spoken(qs, id)
        <=> applies
  <2>1. ASSUME NEW e, Origin(ps, e), e.id = id
        PROVE  /\ \E j \in 1 .. (n - 1) : Compose!Inserts(qs[j], id)
               /\ n \in Compose!Spoken(qs, id) <=> Compose!Speaks(p, e.id, e.plugin)
    <3> PICK d : d = Compose!DefinedBy(ps, id) OBVIOUS
    <3>1. First(ps, id, d) /\ e.plugin = Compose!AsDefined(ps, id).plugin BY <2>1 DEF Origin
    <3>2. d \in 1 .. Len(ps) /\ Compose!Inserts(ps[d], id) BY <3>1 DEF First
    <3> PICK new : new = IF Compose!Speaks(p, id, e.plugin) THEN {Len(ps) + 1} ELSE {}
      OBVIOUS
    <3>3. Compose!Spoken(qs, id) = Compose!Spoken(ps, id) \cup new BY <3>1, OneMore
    <3>4. Compose!Spoken(ps, id) \subseteq 1 .. Len(ps) BY DEF Compose!Spoken
    <3>5. n \notin 1 .. Len(ps) BY <1>1
    <3> QED BY <1>1, <1>2, <2>1, <3>2, <3>3, <3>4, <3>5
  <2>2. CASE applies BY <2>1, <2>2
  <2>3. CASE ~applies /\ \A j \in 1 .. Len(ps) : ~Compose!Inserts(ps[j], p.id)
    BY <1>1, <1>2, <2>3
  <2>4. CASE ~applies /\ \E e : Origin(ps, e) /\ ~Compose!Speaks(p, e.id, e.plugin) /\ e.id = p.id
    BY <2>1, <2>4
  <2> QED BY <2>2, <2>3, <2>4
<1> QED BY <1>1, <1>3 DEF AloudAt

\* A refused patch leaves the entries what they were.
LEMMA ComposeRefused ==
    ASSUME ComposeInv, NEW p \in Compose!AllPatches, composing = "layers",
           written' = Append(written, p), Compose!Refuse
    PROVE  ComposeInv'
<1>1. /\ composing' = "refused" /\ layers' = layers /\ entries' = entries
      /\ warned' = warned /\ mounted' = mounted
  BY DEF Compose!Refuse
<1>2. /\ written \in Seq(Compose!AllPatches) /\ written' \in Seq(Compose!AllPatches)
      /\ Len(written') = Len(written) + 1 /\ Len(written) \in Nat
  BY AppendProperties DEF ComposeInv, ComposeTypes
<1>3. ComposeTypes' BY <1>1, <1>2 DEF ComposeInv, ComposeTypes
<1>4. Distinct(entries)' BY <1>1 DEF ComposeInv, Distinct
<1>5. \A i \in 1 .. Len(entries') : Origin(written', entries'[i])
  <2> SUFFICES ASSUME NEW i \in 1 .. Len(entries) PROVE Origin(written', entries[i])
    BY <1>1
  <2>1. Origin(written, entries[i]) BY DEF ComposeInv
  <2> QED BY <1>2, <2>1, OneMoreWriter
<1>6. DOMAIN mounted' = {} BY <1>1 DEF ComposeInv
<1>7. composing' \notin {"profile", "layers", "mounting", "booted"} BY <1>1
<1>8. \A i \in 1 .. Len(entries') : Origin(written, entries[i])' BY <1>1, <1>5 DEF Origin
<1> QED BY <1>1, <1>3, <1>4, <1>6, <1>7, <1>8 DEF ComposeInv

\* What an insertion adds to a list of entries.
LEMMA Inserted ==
    ASSUME NEW S, NEW s \in Seq(S), NEW t \in Seq(S), NEW u, u = s \o t
    PROVE  /\ u \in Seq(S) /\ Len(u) = Len(s) + Len(t)
           /\ \A i \in 1 .. Len(u) : \/ i \in 1 .. Len(s) /\ u[i] = s[i]
                                     \/ /\ ~(i \in 1 .. Len(s)) /\ (i - Len(s)) \in 1 .. Len(t)
                                        /\ u[i] = t[i - Len(s)]
           /\ \A i \in 1 .. Len(s) : i \in 1 .. Len(u) /\ u[i] = s[i]
           /\ \A i \in 1 .. Len(t) : Len(s) + i \in 1 .. Len(u) /\ u[Len(s) + i] = t[i]
<1>1. Len(s) \in Nat /\ Len(t) \in Nat OBVIOUS
<1>2. u \in Seq(S) /\ Len(u) = Len(s) + Len(t)
      /\ \A i \in 1 .. Len(s) + Len(t) : u[i] = IF i <= Len(s) THEN s[i] ELSE t[i - Len(s)]
  BY ConcatProperties
<1>3. ASSUME NEW i \in 1 .. Len(u)
      PROVE  \/ i \in 1 .. Len(s) /\ u[i] = s[i]
             \/ /\ ~(i \in 1 .. Len(s)) /\ (i - Len(s)) \in 1 .. Len(t)
                /\ u[i] = t[i - Len(s)]
  BY <1>1, <1>2
<1>4. ASSUME NEW i \in 1 .. Len(s) PROVE i \in 1 .. Len(u) /\ u[i] = s[i]
  BY <1>1, <1>2
<1>5. ASSUME NEW i \in 1 .. Len(t) PROVE Len(s) + i \in 1 .. Len(u) /\ u[Len(s) + i] = t[i]
  <2>1. Len(s) + i \in 1 .. Len(u) /\ ~(Len(s) + i <= Len(s)) /\ Len(s) + i - Len(s) = i
    BY <1>1, <1>2
  <2> QED BY <1>2, <2>1
<1> QED BY <1>2, <1>3, <1>4, <1>5

LEMMA ComposeInserted ==
    ASSUME Compose!CompositionAssumption, ComposeInv, NEW p \in Compose!AllPatches,
           composing = "layers", written' = Append(written, p), layers' \in Seq(Layers),
           Compose!Has(p, "insert"), Compose!Defines(p.insert), entries' = entries \o p.insert,
           UNCHANGED <<warned, mounted, composing>>
    PROVE  ComposeInv'
<1> PICK t : t = p.insert OBVIOUS
<1>1. t \in Seq(ComposedEntries) /\ t \in Seq(Compose!ToSet(t)) /\ ~Compose!Has(p, "id")
  BY Insertion
<1>2. /\ entries \in Seq(ComposedEntries) /\ written \in Seq(Compose!AllPatches)
      /\ warned \subseteq 1 .. Len(written) /\ Distinct(entries)
  BY DEF ComposeInv, ComposeTypes
<1>3. /\ entries' \in Seq(ComposedEntries) /\ Len(entries') = Len(entries) + Len(t)
      /\ \A i \in 1 .. Len(entries') :
            \/ i \in 1 .. Len(entries) /\ entries'[i] = entries[i]
            \/ /\ ~(i \in 1 .. Len(entries)) /\ (i - Len(entries)) \in 1 .. Len(t)
               /\ entries'[i] = t[i - Len(entries)]
      /\ \A i \in 1 .. Len(entries) : i \in 1 .. Len(entries') /\ entries'[i] = entries[i]
      /\ \A i \in 1 .. Len(t) : /\ Len(entries) + i \in 1 .. Len(entries')
                                /\ entries'[Len(entries) + i] = t[i]
  BY <1>1, <1>2, Inserted
<1>4. /\ written' \in Seq(Compose!AllPatches) /\ Len(written') = Len(written) + 1
      /\ Len(written) \in Nat /\ written'[Len(written) + 1] = p
      /\ \A j \in 1 .. Len(written) : written'[j] = written[j]
  BY <1>2, AppendProperties
<1>5. /\ \A i \in 1 .. Len(t), j \in 1 .. Len(entries) : t[i].id # entries[j].id
      /\ \A i, j \in 1 .. Len(t) : t[i].id = t[j].id => i = j
  BY <1>1, <1>2, SMTT(30) DEF Compose!Defines, Compose!Ids
<1>6. ComposeTypes' BY <1>2, <1>3, <1>4 DEF ComposeTypes
<1>7. Distinct(entries)'
  <2>1. Len(entries) \in Nat BY <1>2
  <2> SUFFICES ASSUME NEW i \in 1 .. Len(entries'), NEW j \in 1 .. Len(entries'),
                      entries'[i].id = entries'[j].id
               PROVE  i = j
    BY DEF Distinct
  <2>2. CASE i \in 1 .. Len(entries) /\ j \in 1 .. Len(entries)
    BY <1>2, <1>3, <2>2 DEF Distinct
  <2>3. ASSUME NEW k \in 1 .. Len(entries'), ~(k \in 1 .. Len(entries))
        PROVE  \E m \in 1 .. Len(t) : m = k - Len(entries) /\ entries'[k] = t[m]
    BY <1>3, <2>3
  <2>4. CASE i \in 1 .. Len(entries) /\ ~(j \in 1 .. Len(entries))
    <3>1. PICK m \in 1 .. Len(t) : entries'[j] = t[m] BY <2>3, <2>4
    <3>2. t[m].id # entries[i].id BY <1>5, <2>4
    <3>3. entries'[i] = entries[i] BY <1>3, <2>4
    <3> QED BY <3>1, <3>2, <3>3
  <2>5. CASE ~(i \in 1 .. Len(entries)) /\ j \in 1 .. Len(entries)
    <3>1. PICK m \in 1 .. Len(t) : entries'[i] = t[m] BY <2>3, <2>5
    <3>2. t[m].id # entries[j].id BY <1>5, <2>5
    <3>3. entries'[j] = entries[j] BY <1>3, <2>5
    <3> QED BY <3>1, <3>2, <3>3
  <2>6. CASE ~(i \in 1 .. Len(entries)) /\ ~(j \in 1 .. Len(entries))
    <3>1. PICK m \in 1 .. Len(t) : m = i - Len(entries) /\ entries'[i] = t[m] BY <2>3, <2>6
    <3>2. PICK k \in 1 .. Len(t) : k = j - Len(entries) /\ entries'[j] = t[k] BY <2>3, <2>6
    <3>3. m = k BY <1>5, <3>1, <3>2
    <3> QED BY <2>1, <3>1, <3>2, <3>3
  <2> QED BY <2>2, <2>4, <2>5, <2>6
<1>8. \A i \in 1 .. Len(entries') : Told(written', entries'[i])
  <2> SUFFICES ASSUME NEW i \in 1 .. Len(entries') PROVE Told(written', entries'[i])
    OBVIOUS
  <2>1. CASE i \in 1 .. Len(entries)
    <3>1. Told(written, entries[i]) BY <2>1 DEF ComposeInv
    <3>2. ~Compose!Speaks(p, entries[i].id, entries[i].plugin) BY <1>1 DEF Compose!Speaks
    <3> QED BY <1>2, <1>3, <2>1, <3>1, <3>2, NotSpokenOf
  <2>2. CASE ~(i \in 1 .. Len(entries))
    <3>1. i - Len(entries) \in 1 .. Len(t) /\ entries'[i] = t[i - Len(entries)] BY <1>3, <2>2
    <3> PICK e : e = entries'[i] OBVIOUS
    <3>2. e \in Compose!ToSet(t) BY <1>1, <3>1 DEF Compose!ToSet
    <3>3. \A j \in 1 .. Len(entries) : entries[j].id # e.id BY <1>5, <3>1
    <3>4. \A j \in 1 .. Len(written) : ~Compose!Inserts(written[j], e.id)
      BY <3>3 DEF ComposeInv
    <3>5. \A k, j \in DOMAIN t : t[k].id = t[j].id => k = j
      <4>1. DOMAIN t = 1 .. Len(t) BY <1>1
      <4> QED BY ONLY <1>5, <4>1
    <3> QED BY <1>1, <1>2, <3>2, <3>4, <3>5, NewlyTold
  <2> QED BY <2>1, <2>2
<1>9. ASSUME NEW j \in 1 .. Len(written'), NEW id, Compose!Inserts(written'[j], id)
      PROVE  \E i \in 1 .. Len(entries') : entries'[i].id = id
  <2>1. CASE j \in 1 .. Len(written)
    <3>1. PICK i \in 1 .. Len(entries) : entries[i].id = id BY <1>4, <1>9, <2>1 DEF ComposeInv
    <3> QED BY <1>3, <3>1
  <2>2. CASE j = Len(written) + 1
    <3>1. id \in Compose!Ids(t) BY <1>4, <1>9, <2>2 DEF Compose!Inserts
    <3>2. PICK i \in 1 .. Len(t) : t[i].id = id BY <1>1, <3>1 DEF Compose!Ids
    <3> QED BY <1>3, <3>2
  <2> QED BY <1>4, <2>1, <2>2
<1>10. ASSUME NEW i \in 1 .. Len(written'), Compose!Has(written'[i], "id")
       PROVE  AloudAt(written', warned', i)
  <2>1. i \in 1 .. Len(written) /\ Compose!Has(written[i], "id") BY <1>1, <1>4, <1>10
  <2>2. AloudAt(written, warned, i) BY <2>1 DEF ComposeInv
  <2>3. i \in warned' <=> i \in warned OBVIOUS
  <2> QED BY <1>2, <2>1, <2>2, <2>3, StaysAloud
<1>11. DOMAIN mounted' = {} BY DEF ComposeInv
<1>12. /\ \A i \in 1 .. Len(entries') : Origin(written, entries[i])'
       /\ \A i \in 1 .. Len(entries') : Told(written, entries[i])'
  <2>1. \A i \in 1 .. Len(entries') : Told(written, entries[i])'
    BY <1>8 DEF Told, Origin, ConfigTold
  <2>2. \A i \in 1 .. Len(entries') : Origin(written', entries'[i]) BY <1>8 DEF Told
  <2>3. \A i \in 1 .. Len(entries') : Origin(written, entries[i])' BY <2>2 DEF Origin
  <2> QED BY <2>1, <2>3
<1>13. \A i \in 1 .. Len(written') :
         Compose!Has(written'[i], "id") => AloudAt(written, warned, i)'
  BY <1>10 DEF AloudAt
<1>14. composing' = "layers" OBVIOUS
<1> QED BY <1>6, <1>7, <1>9, <1>11, <1>12, <1>13, <1>14 DEF ComposeInv

\* Whether a patch of an id applies is whether its entry is there and spoken of.
LEMMA AppliesToEntry ==
    ASSUME NEW p, Distinct(entries), entries \in Seq(ComposedEntries)
    PROVE  /\ p.id \in Compose!Ids(entries) =>
                 /\ Compose!PositionOf(p.id) \in 1 .. Len(entries)
                 /\ entries[Compose!PositionOf(p.id)].id = p.id
                 /\ \A i \in 1 .. Len(entries) :
                       entries[i].id = p.id => i = Compose!PositionOf(p.id)
           /\ p.id \notin Compose!Ids(entries) =>
                 \A i \in 1 .. Len(entries) : entries[i].id # p.id
<1>1. DOMAIN entries = 1 .. Len(entries) OBVIOUS
<1>2. CASE p.id \in Compose!Ids(entries)
  <2>1. \E i \in DOMAIN entries : entries[i].id = p.id BY <1>2 DEF Compose!Ids
  <2>2. /\ Compose!PositionOf(p.id) \in DOMAIN entries
        /\ entries[Compose!PositionOf(p.id)].id = p.id
    BY <2>1 DEF Compose!PositionOf
  <2> QED BY <1>1, <1>2, <2>2 DEF Distinct
<1>3. CASE p.id \notin Compose!Ids(entries) BY <1>1, <1>3 DEF Compose!Ids
<1> QED BY <1>2, <1>3

LEMMA ComposeModified ==
    ASSUME Compose!CompositionAssumption, ComposeInv, NEW p \in Compose!AllPatches,
           composing = "layers", written' = Append(written, p), layers' \in Seq(Layers),
           Compose!Has(p, "id"), ~(Compose!Applies(p) /\ Compose!BadFlag(p)),
           Compose!ApplyModify(p)
    PROVE  ComposeInv'
<1> PICK n : n = Len(written) + 1 OBVIOUS
<1> PICK at : at = Compose!PositionOf(p.id) OBVIOUS
<1> PICK q : q = Compose!Patched(entries[at], p) OBVIOUS
<1>1. /\ entries \in Seq(ComposedEntries) /\ written \in Seq(Compose!AllPatches)
      /\ warned \subseteq 1 .. Len(written) /\ Distinct(entries)
  BY DEF ComposeInv, ComposeTypes
<1>2. /\ written' \in Seq(Compose!AllPatches) /\ Len(written') = n
      /\ Len(written) \in Nat /\ written'[n] = p
      /\ \A j \in 1 .. Len(written) : written'[j] = written[j]
  BY <1>1, AppendProperties
<1>3. ~Compose!Has(p, "insert")
  <2>1. Compose!IsPatch(p) BY DEF Compose!CompositionAssumption
  <2> QED BY <2>1 DEF Compose!IsPatch, Compose!Has
<1>4. /\ p.id \in Compose!Ids(entries) =>
            /\ at \in 1 .. Len(entries) /\ entries[at].id = p.id
            /\ \A i \in 1 .. Len(entries) : entries[i].id = p.id => i = at
      /\ p.id \notin Compose!Ids(entries) => \A i \in 1 .. Len(entries) : entries[i].id # p.id
  BY <1>1, AppliesToEntry
<1>5. Compose!Applies(p) <=> /\ p.id \in Compose!Ids(entries)
                             /\ Compose!Speaks(p, entries[at].id, entries[at].plugin)
  BY <1>4 DEF Compose!Applies, Compose!Speaks
<1>6. Compose!Applies(p) =>
        /\ at \in 1 .. Len(entries) /\ entries[at] \in ComposedEntries
        /\ entries' = [entries EXCEPT ![at] = q]
        /\ q \in ComposedEntries /\ q.id = entries[at].id /\ q.plugin = entries[at].plugin
        /\ Told(written', q)
  <2> SUFFICES ASSUME Compose!Applies(p)
               PROVE  /\ at \in 1 .. Len(entries) /\ entries[at] \in ComposedEntries
                      /\ entries' = [entries EXCEPT ![at] = q]
                      /\ q \in ComposedEntries /\ q.id = entries[at].id
                      /\ q.plugin = entries[at].plugin /\ Told(written', q)
    OBVIOUS
  <2>1. at \in 1 .. Len(entries) BY <1>4, <1>5
  <2>2. entries[at] \in ComposedEntries BY <1>1, <2>1
  <2>3. entries' = [entries EXCEPT ![at] = q] BY DEF Compose!ApplyModify
  <2> PICK e : e = entries[at] OBVIOUS
  <2>4. /\ q \in ComposedEntries /\ q.id = e.id /\ q.plugin = e.plugin
        /\ q.disabled = IF Compose!Has(p, "disabled") THEN p.disabled ELSE e.disabled
        /\ q.config = IF Compose!SetsConfig(p) THEN Merge(e.config, p.config) ELSE e.config
        /\ e.config \in ConfigPart
        /\ Compose!SetsConfig(p) => p.config \in ConfigPart
    BY <2>2, PatchedEntry
  <2>5. Told(written, e) BY <2>1 DEF ComposeInv
  <2>6. Compose!Speaks(p, e.id, e.plugin) BY <1>5
  <2>7. Told(written', q) BY <1>1, <2>4, <2>5, <2>6, SpokenOf
  <2> QED BY <2>1, <2>2, <2>3, <2>4, <2>7
<1>7. ~Compose!Applies(p) => entries' = entries BY DEF Compose!ApplyModify
<1>8. /\ entries' \in Seq(ComposedEntries) /\ Len(entries') = Len(entries)
      /\ \A i \in 1 .. Len(entries) : /\ entries'[i].id = entries[i].id
                                      /\ ~(Compose!Applies(p) /\ i = at) => entries'[i] = entries[i]
      /\ Compose!Applies(p) => entries'[at] = q
  <2>1. CASE Compose!Applies(p)
    <3>1. Len(entries') = Len(entries) /\ entries' \in Seq(ComposedEntries)
      BY <1>1, <1>6, <2>1, ExceptSeq, SMTT(30)
    <3>2. \A i \in 1 .. Len(entries) : entries'[i] = IF i = at THEN q ELSE entries[i]
      BY <1>1, <1>6, <2>1
    <3> QED BY <1>6, <2>1, <3>1, <3>2
  <2>2. CASE ~Compose!Applies(p) BY <1>1, <1>7, <2>2
  <2> QED BY <2>1, <2>2
<1>9. warned' = IF Compose!Warns(p) THEN warned \cup {n} ELSE warned
  BY DEF Compose!ApplyModify
<1>10. /\ warned' \subseteq 1 .. Len(written')
       /\ \A i \in 1 .. Len(written) : i \in warned' <=> i \in warned
       /\ n \in warned' <=> Compose!Warns(p)
  <2>1. n \notin 1 .. Len(written) /\ 1 .. Len(written') = 1 .. Len(written) \cup {n} BY <1>2
  <2>2. CASE Compose!Warns(p) BY <1>1, <1>9, <2>1, <2>2
  <2>3. CASE ~Compose!Warns(p) BY <1>1, <1>9, <2>1, <2>3
  <2> QED BY <2>2, <2>3
<1>11. ComposeTypes' BY <1>2, <1>8, <1>10 DEF ComposeTypes
<1>12. Distinct(entries)' BY <1>1, <1>8 DEF Distinct
<1>13. \A i \in 1 .. Len(entries') : Told(written', entries'[i])
  <2> SUFFICES ASSUME NEW i \in 1 .. Len(entries) PROVE Told(written', entries'[i])
    BY <1>8
  <2>1. CASE Compose!Applies(p) /\ i = at BY <1>6, <1>8, <2>1
  <2>2. CASE ~(Compose!Applies(p) /\ i = at)
    <3>1. entries'[i] = entries[i] BY <1>8, <2>2
    <3>2. Told(written, entries[i]) BY DEF ComposeInv
    <3>3. ~Compose!Speaks(p, entries[i].id, entries[i].plugin)
      <4>1. CASE entries[i].id # p.id BY <4>1 DEF Compose!Speaks
      <4>2. CASE entries[i].id = p.id
        <5>1. p.id \in Compose!Ids(entries) /\ i = at BY <1>4, <4>2
        <5> QED BY <1>5, <2>2, <5>1
      <4> QED BY <4>1, <4>2
    <3> QED BY <1>1, <3>1, <3>2, <3>3, NotSpokenOf
  <2> QED BY <2>1, <2>2
<1>14. ASSUME NEW j \in 1 .. Len(written'), NEW id, Compose!Inserts(written'[j], id)
       PROVE  \E i \in 1 .. Len(entries') : entries'[i].id = id
  <2>1. j \in 1 .. Len(written) /\ Compose!Inserts(written[j], id)
    BY <1>2, <1>3, <1>14 DEF Compose!Inserts
  <2>2. \E i \in 1 .. Len(entries) : entries[i].id = id BY <2>1 DEF ComposeInv
  <2> QED BY <1>8, <2>2
<1>15. ASSUME NEW i \in 1 .. Len(written'), Compose!Has(written'[i], "id")
       PROVE  AloudAt(written', warned', i)
  <2>1. CASE i \in 1 .. Len(written)
    <3>1. AloudAt(written, warned, i) BY <1>2, <1>15, <2>1 DEF ComposeInv
    <3>2. i \in warned' <=> i \in warned BY <1>10, <2>1
    <3> QED BY <1>1, <2>1, <3>1, <3>2, StaysAloud
  <2>2. CASE i = n
    <3> PICK applies \in BOOLEAN : applies = Compose!Applies(p)
      BY DEF Compose!Applies
    <3>1. ASSUME applies
          PROVE  \E e : Origin(written, e) /\ Compose!Speaks(p, e.id, e.plugin) /\ e.id = p.id
      <4>1. at \in 1 .. Len(entries) /\ entries[at].id = p.id BY <1>4, <1>5, <3>1
      <4>2. Compose!Speaks(p, entries[at].id, entries[at].plugin) BY <1>5, <3>1
      <4>3. Origin(written, entries[at]) BY <4>1 DEF ComposeInv
      <4> QED BY <4>1, <4>2, <4>3
    <3>2. ASSUME ~applies
          PROVE  \/ \A j \in 1 .. Len(written) : ~Compose!Inserts(written[j], p.id)
                 \/ \E e : /\ Origin(written, e) /\ ~Compose!Speaks(p, e.id, e.plugin)
                           /\ e.id = p.id
      <4>1. CASE p.id \in Compose!Ids(entries)
        <5>1. at \in 1 .. Len(entries) /\ entries[at].id = p.id BY <1>4, <4>1
        <5>2. ~Compose!Speaks(p, entries[at].id, entries[at].plugin) BY <1>5, <3>2, <4>1
        <5>3. Origin(written, entries[at]) BY <5>1 DEF ComposeInv
        <5> QED BY <5>1, <5>2, <5>3
      <4>2. CASE p.id \notin Compose!Ids(entries)
        <5>1. \A k \in 1 .. Len(entries) : entries[k].id # p.id BY <1>4, <4>2
        <5> QED BY <5>1 DEF ComposeInv
      <4> QED BY <4>1, <4>2
    <3>3. n \in warned' <=> ~applies \/ (Compose!Has(p, "config") /\ p.config = Compose!Null)
      BY <1>10 DEF Compose!Warns
    <3>4. AloudAt(Append(written, p), warned', n) BY <1>1, <3>1, <3>2, <3>3, BecomesAloud
    <3> QED BY <2>2, <3>4
  <2> QED BY <1>2, <2>1, <2>2
<1>16. composing' = "layers" /\ DOMAIN mounted' = {} BY DEF ComposeInv, Compose!ApplyModify
<1>17. /\ \A i \in 1 .. Len(entries') : Origin(written, entries[i])'
       /\ \A i \in 1 .. Len(entries') : Told(written, entries[i])'
  <2>1. \A i \in 1 .. Len(entries') : Told(written, entries[i])'
    BY <1>13 DEF Told, Origin, ConfigTold
  <2>2. \A i \in 1 .. Len(entries') : Origin(written', entries'[i]) BY <1>13 DEF Told
  <2>3. \A i \in 1 .. Len(entries') : Origin(written, entries[i])' BY <2>2 DEF Origin
  <2> QED BY <2>1, <2>3
<1>18. \A i \in 1 .. Len(written') :
         Compose!Has(written'[i], "id") => AloudAt(written, warned, i)'
  BY <1>15 DEF AloudAt
<1> QED BY <1>11, <1>12, <1>14, <1>16, <1>17, <1>18 DEF ComposeInv

\* Any patch that is reached.
LEMMA ComposePatched ==
    ASSUME Compose!CompositionAssumption, ComposeInv, NEW p \in Compose!AllPatches,
           composing = "layers", Compose!ApplyPatch(p),
           composing' # "refused" => layers' \in Seq(Layers)
    PROVE  ComposeInv'
<1>1. written' = Append(written, p) BY DEF Compose!ApplyPatch
<1>2. CASE Compose!Refuse BY <1>1, <1>2, ComposeRefused
<1>3. CASE Compose!Has(p, "insert") /\ Compose!ApplyInsert(p) /\ ~Compose!Refuse
  <2>1. /\ Compose!Defines(p.insert) /\ entries' = entries \o p.insert
        /\ UNCHANGED <<warned, mounted, composing>>
    BY <1>3 DEF Compose!ApplyInsert
  <2>2. layers' \in Seq(Layers) BY <2>1
  <2> QED BY <1>1, <1>3, <2>1, <2>2, ComposeInserted
<1>4. CASE /\ Compose!Has(p, "id") /\ ~(Compose!Applies(p) /\ Compose!BadFlag(p))
           /\ Compose!ApplyModify(p)
  <2>1. layers' \in Seq(Layers) BY <1>4 DEF Compose!ApplyModify
  <2> QED BY <1>1, <1>4, <2>1, ComposeModified
<1> QED BY <1>2, <1>3, <1>4 DEF Compose!ApplyPatch

\* The list of layers that a profile makes, and the rest of the layers.
LEMMA ProfileLayers ==
    ASSUME Compose!CompositionAssumption, NEW listed \in Profiles \cup {DefaultBundles},
           Compose!ToSet(listed) \subseteq Compose!Installed
    PROVE  Compose!BundleLayers(listed)
             \o <<Compose!StepsLayer, <<"profile", <<>>>>, <<"overlay", <<>>>>>> \in Seq(Layers)
<1>1. listed \in Seq(Compose!ToSet(listed)) BY DEF Compose!CompositionAssumption
<1>2. ASSUME NEW i \in 1 .. Len(listed) PROVE <<"bundle", Compose!BundleNamed(listed[i])>> \in Layers
  <2>1. listed[i] \in DOMAIN Static \cup DOMAIN Discovered
    BY <1>1 DEF Compose!ToSet, Compose!Installed
  <2>2. Compose!BundleNamed(listed[i]) \in Seq(Compose!BundlePatches)
    BY <2>1 DEF Compose!BundleNamed, Compose!CompositionAssumption
  <2>3. Compose!BundlePatches \subseteq Compose!AllPatches BY DEF Compose!AllPatches
  <2>4. \A s \in Seq(Compose!BundlePatches) : s \in Seq(Compose!AllPatches) BY <2>3
  <2> QED BY <2>2, <2>4 DEF Layers
<1>3. Compose!BundleLayers(listed) \in Seq(Layers)
  <2>1. Len(listed) \in Nat /\ DOMAIN listed = 1 .. Len(listed) BY <1>1
  <2>2. Compose!BundleLayers(listed) \in [1 .. Len(listed) -> Layers]
    BY <1>2, <2>1 DEF Compose!BundleLayers
  <2> QED BY <2>1, <2>2, SeqDef
<1>4. Compose!StepsLayer \in Layers
  <2>1. Compose!StepsPatch \in Compose!AllPatches BY DEF Compose!AllPatches
  <2>2. <<Compose!StepsPatch>> \in Seq(Compose!AllPatches) BY <2>1
  <2> QED BY <2>2 DEF Compose!StepsLayer, Layers
<1>5. <<"profile", <<>>>> \in Layers /\ <<"overlay", <<>>>> \in Layers
  <2>1. <<>> \in Seq(Compose!AllPatches) OBVIOUS
  <2> QED BY <2>1, Zenon DEF Layers
<1> PICK own : own = <<Compose!StepsLayer, <<"profile", <<>>>>, <<"overlay", <<>>>>>> OBVIOUS
<1>6. own \in Seq(Layers)
  <2>1. <<Compose!StepsLayer, <<"profile", <<>>>>, <<"overlay", <<>>>>>> \in Seq(Layers)
    BY <1>4, <1>5
  <2> QED BY <2>1
<1> QED BY <1>3, <1>6, ConcatProperties

\* What is left when the entries, and what was reached of the layers, stay.
LEMMA ComposeStays ==
    ASSUME ComposeInv, UNCHANGED <<entries, written, warned>>, layers' \in Seq(Layers),
           composing # "refused"
    PROVE  /\ ComposeTypes' /\ Distinct(entries)'
           /\ \A i \in 1 .. Len(entries') : Origin(written, entries[i])'
           /\ \A i \in 1 .. Len(entries') : Told(written, entries[i])'
           /\ \A j \in 1 .. Len(written') : \A id :
                Compose!Inserts(written'[j], id) => \E i \in 1 .. Len(entries') : entries'[i].id = id
           /\ \A i \in 1 .. Len(written') :
                Compose!Has(written'[i], "id") => AloudAt(written, warned, i)'
           /\ Compose!Enabled' = Compose!Enabled /\ Compose!CoreOn' = Compose!CoreOn
<1>1. ComposeTypes' BY DEF ComposeInv, ComposeTypes
<1>2. Distinct(entries)' BY DEF ComposeInv, Distinct
<1>3. \A i \in 1 .. Len(entries) : Told(written, entries[i]) BY DEF ComposeInv
<1>4. /\ \A i \in 1 .. Len(entries') : Origin(written, entries[i])'
      /\ \A i \in 1 .. Len(entries') : Told(written, entries[i])'
  <2>1. \A i \in 1 .. Len(entries') : Told(written', entries'[i]) BY <1>3
  <2>2. \A i \in 1 .. Len(entries') : Told(written, entries[i])'
    BY <2>1 DEF Told, Origin, ConfigTold
  <2>3. \A i \in 1 .. Len(entries') : Origin(written', entries'[i]) BY <2>1 DEF Told
  <2>4. \A i \in 1 .. Len(entries') : Origin(written, entries[i])' BY <2>3 DEF Origin
  <2> QED BY <2>2, <2>4
<1>5. \A i \in 1 .. Len(written) : Compose!Has(written[i], "id") => AloudAt(written, warned, i)
  BY DEF ComposeInv
<1>6. \A i \in 1 .. Len(written') : Compose!Has(written'[i], "id") => AloudAt(written, warned, i)'
  BY <1>5 DEF AloudAt
<1>7. \A j \in 1 .. Len(written) : \A id :
        Compose!Inserts(written[j], id) => \E i \in 1 .. Len(entries) : entries[i].id = id
  BY DEF ComposeInv
<1>8. Compose!Enabled' = Compose!Enabled /\ Compose!CoreOn' = Compose!CoreOn
  BY DEF Compose!Enabled, Compose!CoreOn
<1> QED BY <1>1, <1>2, <1>4, <1>6, <1>7, <1>8

LEMMA ComposeStep ==
    ASSUME Compose!CompositionAssumption, ComposeInv, Compose!Next
    PROVE  ComposeInv'
<1>1. layers \in Seq(Layers) BY DEF ComposeInv, ComposeTypes
<1>2. CASE Compose!LoadProfile
  <2>1. /\ composing = "profile" /\ UNCHANGED <<entries, written, warned, mounted>>
        /\ composing' \in {"layers", "refused"}
    BY <1>2 DEF Compose!LoadProfile
  <2>2. layers' \in Seq(Layers)
    <3>1. PICK listed \in Profiles :
            LET names == IF listed = <<>> THEN DefaultBundles ELSE listed IN
            IF Compose!ToSet(names) \subseteq Compose!Installed
            THEN layers' = Compose!BundleLayers(names)
                   \o <<Compose!StepsLayer, <<"profile", <<>>>>, <<"overlay", <<>>>>>>
            ELSE UNCHANGED layers
      BY <1>2 DEF Compose!LoadProfile
    <3> PICK names : names = IF listed = <<>> THEN DefaultBundles ELSE listed OBVIOUS
    <3>2. names \in Profiles \cup {DefaultBundles} OBVIOUS
    <3>3. CASE Compose!ToSet(names) \subseteq Compose!Installed
      <4>1. layers' = Compose!BundleLayers(names)
              \o <<Compose!StepsLayer, <<"profile", <<>>>>, <<"overlay", <<>>>>>>
        BY <3>1, <3>3
      <4> QED BY <3>2, <3>3, <4>1, ProfileLayers
    <3>4. CASE ~(Compose!ToSet(names) \subseteq Compose!Installed)
      BY <1>1, <3>1, <3>4
    <3> QED BY <3>3, <3>4
  <2>3. DOMAIN mounted' = {} BY <2>1 DEF ComposeInv
  <2> QED BY <2>1, <2>2, <2>3, ComposeStays DEF ComposeInv
<1>3. CASE Compose!BundlePatch
  <2> PICK patches : patches = Head(layers)[2] OBVIOUS
  <2> PICK rest : rest = <<<<Head(layers)[1], Tail(patches)>>>> \o Tail(layers) OBVIOUS
  <2>1. /\ composing = "layers" /\ layers # <<>> /\ patches # <<>>
        /\ Compose!ApplyPatch(Head(patches))
        /\ composing' # "refused" => layers' = rest
    BY <1>3 DEF Compose!BundlePatch
  <2>2. Head(layers) \in Layers /\ Tail(layers) \in Seq(Layers) BY <1>1, <2>1
  <2>3. patches \in Seq(Compose!AllPatches) /\ Head(layers)[1] \in
          {"bundle", "config-steps", "profile", "overlay"}
    BY <2>2 DEF Layers
  <2>4. Head(patches) \in Compose!AllPatches /\ Tail(patches) \in Seq(Compose!AllPatches)
    BY <2>1, <2>3
  <2>5. <<Head(layers)[1], Tail(patches)>> \in Layers BY <2>3, <2>4 DEF Layers
  <2>6. <<<<Head(layers)[1], Tail(patches)>>>> \in Seq(Layers) BY <2>5
  <2>7. rest \in Seq(Layers) BY <2>2, <2>6, ConcatProperties
  <2> QED BY <2>1, <2>4, <2>7, ComposePatched
<1>4. CASE Compose!OwnPatch
  <2>1. PICK p \in Patches : Compose!ApplyPatch(p) BY <1>4 DEF Compose!OwnPatch
  <2>2. composing = "layers" /\ layers' = layers BY <1>4 DEF Compose!OwnPatch
  <2>3. p \in Compose!AllPatches BY DEF Compose!AllPatches
  <2> QED BY <1>1, <2>1, <2>2, <2>3, ComposePatched
<1>5. CASE Compose!NextLayer
  <2>1. /\ composing = "layers" /\ layers # <<>> /\ layers' = Tail(layers)
        /\ UNCHANGED <<entries, written, warned, mounted, composing>>
    BY <1>5 DEF Compose!NextLayer
  <2>2. layers' \in Seq(Layers) BY <1>1, <2>1
  <2>3. DOMAIN mounted' = {} BY <2>1 DEF ComposeInv
  <2> QED BY <2>1, <2>2, <2>3, ComposeStays DEF ComposeInv
<1>6. CASE Compose!CheckCore
  <2>1. /\ composing = "layers" /\ composing' = IF Compose!CoreOn THEN "mounting" ELSE "refused"
        /\ UNCHANGED <<layers, entries, written, warned, mounted>>
    BY <1>6 DEF Compose!CheckCore
  <2>2. DOMAIN mounted' = {} BY <2>1 DEF ComposeInv
  <2>3. (composing' = "mounting" /\ Compose!CoreOn) \/ composing' = "refused" BY <2>1
  <2> QED BY <1>1, <2>1, <2>2, <2>3, ComposeStays DEF ComposeInv
<1>7. CASE Compose!MountNext
  <2> PICK at : at = CHOOSE i \in Compose!ToMount : \A j \in Compose!ToMount : i <= j OBVIOUS
  <2>1. /\ composing = "mounting" /\ Compose!ToMount # {}
        /\ UNCHANGED <<layers, entries, written, warned, composing>>
        /\ DOMAIN mounted' = DOMAIN mounted \cup {entries[at].id}
    BY <1>7 DEF Compose!MountNext
  <2>2. Compose!ToMount \subseteq Nat
    BY DEF Compose!ToMount, Compose!Enabled, ComposeInv, ComposeTypes
  <2>3. at \in Compose!ToMount
    <3>1. \E i \in Compose!ToMount : \A j \in Compose!ToMount : i <= j
      BY <2>1, <2>2, LeastNumber
    <3> QED BY <3>1
  <2>4. at \in Compose!Enabled BY <2>3 DEF Compose!ToMount
  <2>5. DOMAIN mounted' \subseteq {entries'[i].id : i \in Compose!Enabled'}
    <3>1. DOMAIN mounted \subseteq {entries[i].id : i \in Compose!Enabled} BY DEF ComposeInv
    <3>2. Compose!Enabled' = Compose!Enabled /\ entries' = entries
      BY <2>1 DEF Compose!Enabled
    <3> QED BY <2>1, <2>4, <3>1, <3>2
  <2>6. Compose!CoreOn BY <2>1 DEF ComposeInv
  <2> QED BY <1>1, <2>1, <2>5, <2>6, ComposeStays DEF ComposeInv
<1>8. CASE Compose!Audit
  <2>1. /\ composing = "mounting" /\ composing' = IF Compose!Passes THEN "booted" ELSE "refused"
        /\ UNCHANGED <<layers, entries, written, warned, mounted>>
    BY <1>8 DEF Compose!Audit
  <2>2. Compose!CoreOn BY <2>1 DEF ComposeInv
  <2>3. Compose!Passes' = Compose!Passes
    BY <2>1 DEF Compose!Passes, Compose!ActiveEntry, Compose!Provided
  <2>4. DOMAIN mounted' \subseteq {entries'[i].id : i \in Compose!Enabled'}
    <3>1. DOMAIN mounted \subseteq {entries[i].id : i \in Compose!Enabled} BY DEF ComposeInv
    <3>2. Compose!Enabled' = Compose!Enabled BY <2>1 DEF Compose!Enabled
    <3> QED BY <2>1, <3>1, <3>2
  <2>5. (composing' = "booted" /\ Compose!Passes') \/ composing' = "refused" BY <2>1, <2>3
  <2> QED BY <1>1, <2>1, <2>2, <2>4, <2>5, ComposeStays DEF ComposeInv
<1> QED BY <1>2, <1>3, <1>4, <1>5, <1>6, <1>7, <1>8 DEF Compose!Next

LEMMA ComposeInit ==
    Compose!Init => ComposeInv
<1> SUFFICES ASSUME Compose!Init PROVE ComposeInv OBVIOUS
<1>1. /\ layers = <<>> /\ entries = <<>> /\ written = <<>> /\ warned = {} /\ mounted = <<>>
      /\ composing = "profile"
  BY DEF Compose!Init
<1>2. ComposeTypes BY <1>1 DEF ComposeTypes
<1>3. 1 .. Len(entries) = {} /\ 1 .. Len(written) = {} BY <1>1
<1>4. DOMAIN mounted = {} BY <1>1
<1> QED BY <1>1, <1>2, <1>3, <1>4 DEF ComposeInv, Distinct

\* The strengthening says what a composition promises.
LEMMA ComposeHolds ==
    ASSUME Compose!CompositionAssumption, ComposeInv
    PROVE  Compose!AsWritten
<1>1. /\ entries \in Seq(ComposedEntries) /\ written \in Seq(Compose!AllPatches)
      /\ DOMAIN entries = 1 .. Len(entries) /\ DOMAIN written = 1 .. Len(written)
  BY DEF ComposeInv, ComposeTypes
<1>2. \A e \in Compose!ToSet(entries) : \E i \in 1 .. Len(entries) : e = entries[i]
  BY <1>1 DEF Compose!ToSet
<1>3. Compose!LastWriterWins
  <2> SUFFICES ASSUME composing # "refused",
                      NEW e \in Compose!ToSet(entries), NEW path \in Paths, NEW v,
                      v # Compose!Absent /\ ~Compose!IsMap(v)
               PROVE  Compose!At(e.config, path) = v <=>
                        \E i \in Compose!Final(written, e.id, path) :
                           Compose!At(Compose!ConfigAt(written, e.id, i), path) = v
    BY DEF Compose!LastWriterWins
  <2>1. Told(written, e) BY <1>2 DEF ComposeInv
  <2> QED BY <2>1 DEF Told, ConfigTold
<1>4. Compose!DefinedOnce
  BY <1>1, <1>2 DEF Compose!DefinedOnce, ComposeInv, Distinct, Origin
<1>5. Compose!SkippedAloud
  <2> SUFFICES ASSUME composing # "refused", NEW i \in 1 .. Len(written),
                      Compose!Has(written[i], "id")
               PROVE  AloudAt(written, warned, i)
    BY <1>1 DEF Compose!SkippedAloud, AloudAt
  <2> QED BY DEF ComposeInv
<1>6. Compose!CoreNeverOff
  <2> SUFFICES ASSUME composing = "booted", NEW id \in Locked
               PROVE  id \in Compose!Ids(entries) /\ ~Compose!LastFlag(written, id)
    BY DEF Compose!CoreNeverOff
  <2>1. PICK i \in Compose!Enabled : entries[i].id = id BY DEF ComposeInv, Compose!CoreOn
  <2>2. i \in 1 .. Len(entries) /\ ~entries[i].disabled BY <1>1 DEF Compose!Enabled
  <2>3. Told(written, entries[i]) BY <2>2 DEF ComposeInv
  <2>4. entries[i].disabled = Compose!LastFlag(written, id) BY <2>1, <2>3 DEF Told
  <2>5. ~Compose!LastFlag(written, id) BY <2>2, <2>4, Zenon
  <2> QED BY <1>1, <2>1, <2>2, <2>5 DEF Compose!Ids
<1>7. Compose!SeamsFilled
  <2> SUFFICES ASSUME composing = "booted", NEW s \in DOMAIN Seams
               PROVE  \E e \in Compose!ToSet(entries) :
                        e.plugin \in Seams[s] /\ ~e.disabled /\ Compose!ActiveEntry(e.id)
    BY DEF Compose!SeamsFilled
  <2>1. PICK i \in 1 .. Len(entries) :
          entries[i].plugin \in Seams[s] /\ Compose!ActiveEntry(entries[i].id)
    BY <1>1 DEF ComposeInv, Compose!Passes, Compose!Provided
  <2>2. entries[i].id \in {entries[j].id : j \in Compose!Enabled}
    BY <2>1 DEF ComposeInv, Compose!ActiveEntry
  <2>3. PICK j \in Compose!Enabled : entries[j].id = entries[i].id BY <2>2
  <2>4. j \in 1 .. Len(entries) /\ ~entries[j].disabled BY <1>1 DEF Compose!Enabled
  <2>5. j = i BY <2>3, <2>4 DEF ComposeInv, Distinct
  <2>6. entries[i] \in Compose!ToSet(entries) BY <1>1 DEF Compose!ToSet
  <2> QED BY <2>1, <2>4, <2>5, <2>6
<1> QED BY <1>3, <1>4, <1>5, <1>6, <1>7 DEF Compose!AsWritten

---------------------------------------------------------------------------
(* What the parts promise, of the kernel's behaviours.                      *)

\* events.py: every dispatch calls, once and in order, the listeners that are registered
\* when their turn comes, and none that was removed; an emit reaches them all, and a
\* waterfall's default runs at most once, behind them all.
THEOREM DispatchesStand ==
    ASSUME KernelAssumption
    PROVE  KernelSpec => DispatchIsOrderly
<1> DEFINE Inv == part = "bus" => BusInv
           Kept == part = "bus" => Bus!Orderly
<1>1. KernelInit => Inv BY BusInit DEF KernelInit, KernelAssumption
<1>2. Inv /\ [KernelNext]_kernelVars => Inv' /\ [Kept]_kernelVars
  <2> SUFFICES ASSUME Inv, [KernelNext]_kernelVars PROVE Inv' /\ [Kept]_kernelVars
    OBVIOUS
  <2>1. CASE part = "bus" /\ Bus!Next /\ OnlyBus
    BY <2>1, BusStep DEF OnlyBus, KernelAssumption
  <2>2. CASE \/ part = "fibers" /\ Next /\ OnlyFibers
             \/ part = "compose" /\ Compose!Next /\ OnlyCompose
             \/ part = "start" /\ Start!Next /\ OnlyStart
    BY <2>2 DEF OnlyFibers, OnlyCompose, OnlyStart
  <2>3. CASE UNCHANGED kernelVars
    <3>1. UNCHANGED <<part, busVars>> BY <2>3 DEF kernelVars
    <3>2. part = "bus" => BusInv'
      BY <3>1, BusWaits DEF busVars, BusInv, Bus!TypeOK
    <3> QED BY <2>3, <3>1, <3>2
  <2> QED BY <2>1, <2>2, <2>3 DEF KernelNext
<1> HIDE DEF Inv
<1> QED BY <1>1, <1>2, PTL DEF KernelSpec, DispatchIsOrderly

\* runtime.py: a program executes with a complete set of plugins, and it stays that set
\* until the kernel is disposed of; the set is never fixed while a change is under way.
THEOREM StartsStand ==
    ASSUME KernelAssumption
    PROVE  KernelSpec => StartsComplete
<1> DEFINE Inv == part = "start" => StartInv
           Kept == part = "start" => Start!Complete
<1>1. KernelInit => Inv BY StartInit DEF KernelInit, KernelAssumption
<1>2. Inv /\ [KernelNext]_kernelVars => Inv' /\ [Kept]_kernelVars
  <2> SUFFICES ASSUME Inv, [KernelNext]_kernelVars PROVE Inv' /\ [Kept]_kernelVars
    OBVIOUS
  <2>1. CASE part = "start" /\ Start!Next /\ OnlyStart
    BY <2>1, StartStep DEF OnlyStart, KernelAssumption
  <2>2. CASE \/ part = "fibers" /\ Next /\ OnlyFibers
             \/ part = "bus" /\ Bus!Next /\ OnlyBus
             \/ part = "compose" /\ Compose!Next /\ OnlyCompose
    BY <2>2 DEF OnlyFibers, OnlyBus, OnlyCompose
  <2>3. CASE UNCHANGED kernelVars
    <3>1. UNCHANGED <<part, startVars>> BY <2>3 DEF kernelVars
    <3> QED BY <2>3, <3>1 DEF startVars, StartInv, StartTypes, Start!TypeOK, ReadyBeneath,
               Start!NothingUnderWay, Start!Changing, ReadyAlone, Looked, Start!Active,
               Start!ReadyIsComplete
  <2> QED BY <2>1, <2>2, <2>3 DEF KernelNext
<1> HIDE DEF Inv
<1> QED BY <1>1, <1>2, PTL DEF KernelSpec, StartsComplete

\* compose.py: the composed entries are what the last layers wrote, nothing is defined
\* twice, what had no effect is warned about, and a program that boots has its core and a
\* provider for every seam.
THEOREM CompositionStands ==
    ASSUME KernelAssumption
    PROVE  KernelSpec => []ComposedAsWritten
<1> DEFINE Inv == part = "compose" => ComposeInv
<1>1. KernelInit => Inv BY ComposeInit DEF KernelInit, KernelAssumption
<1>2. Inv /\ [KernelNext]_kernelVars => Inv'
  <2> SUFFICES ASSUME Inv, [KernelNext]_kernelVars PROVE Inv'
    OBVIOUS
  <2>1. CASE part = "compose" /\ Compose!Next /\ OnlyCompose
    BY <2>1, ComposeStep DEF OnlyCompose, KernelAssumption
  <2>2. CASE \/ part = "fibers" /\ Next /\ OnlyFibers
             \/ part = "bus" /\ Bus!Next /\ OnlyBus
             \/ part = "start" /\ Start!Next /\ OnlyStart
    BY <2>2 DEF OnlyFibers, OnlyBus, OnlyStart
  <2>3. CASE UNCHANGED kernelVars
    <3>1. UNCHANGED <<part, composeVars>> BY <2>3 DEF kernelVars
    <3>2. UNCHANGED <<part, layers, entries, written, warned, mounted, composing>>
      BY <3>1 DEF composeVars
    <3>3. ASSUME ComposeInv PROVE ComposeInv'
      <4>1. layers' \in Seq(Layers) BY <3>2, <3>3 DEF ComposeInv, ComposeTypes
      <4>2. Compose!Passes' = Compose!Passes
        BY <3>2 DEF Compose!Passes, Compose!ActiveEntry, Compose!Provided
      <4>3. CASE composing # "refused"
        BY <3>2, <3>3, <4>1, <4>2, <4>3, ComposeStays DEF ComposeInv
      <4>4. CASE composing = "refused"
        BY <3>2, <3>3, <4>4 DEF ComposeInv, ComposeTypes, Distinct, Origin, Compose!Enabled
      <4> QED BY <4>3, <4>4
    <3> QED BY <3>2, <3>3
  <2> QED BY <2>1, <2>2, <2>3 DEF KernelNext
<1>3. Inv => ComposedAsWritten BY ComposeHolds DEF ComposedAsWritten, KernelAssumption
<1> HIDE DEF Inv
<1> QED BY <1>1, <1>2, <1>3, PTL DEF KernelSpec

\* fiber.py: whatever is called and raised, and wherever a call has got to, a service
\* belongs to a plugin that lists it, only a plugin that is loaded or in transition owns
\* anything, and between calls no plugin is left reconciling.
THEOREM FibersStand ==
    ASSUME KernelAssumption
    PROVE  KernelSpec => [](part = "fibers" => NothingIsOrphaned)
<1> DEFINE Inv == part = "fibers" => FiberInv
           Goal == part = "fibers" => NothingIsOrphaned
<1>1. FiberAssumption BY DEF KernelAssumption
<1>2. KernelInit => Inv BY <1>1, FiberStarts DEF KernelInit
<1>3. Inv /\ [KernelNext]_kernelVars => Inv'
  <2> SUFFICES ASSUME Inv, [KernelNext]_kernelVars PROVE Inv'
    OBVIOUS
  <2>1. CASE part = "fibers" /\ Next /\ OnlyFibers
    BY <1>1, <2>1, FiberGoes DEF OnlyFibers
  <2>2. CASE \/ part = "bus" /\ Bus!Next /\ OnlyBus
             \/ part = "compose" /\ Compose!Next /\ OnlyCompose
             \/ part = "start" /\ Start!Next /\ OnlyStart
    BY <2>2 DEF OnlyBus, OnlyCompose, OnlyStart
  <2>3. CASE UNCHANGED kernelVars
    <3>1. UNCHANGED part /\ UNCHANGED vars BY <2>3 DEF kernelVars
    <3> QED BY <1>1, <3>1, FiberStays
  <2> QED BY <2>1, <2>2, <2>3 DEF KernelNext
<1>4. Inv => Goal BY <1>1, OrphansNothing
<1> HIDE DEF Inv
<1> QED BY <1>2, <1>3, <1>4, PTL DEF KernelSpec
=============================================================================
