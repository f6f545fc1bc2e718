------------------------------ MODULE WeChatDraft -----------------------------
(* The companion plugin runspool_wechat: wechat_render lays an article out, the   *)
(* plugin's gate listener and a person let one attempt of wechat_draft through,   *)
(* and that attempt uploads the image and the cover and saves a draft.            *)
(*                                                                                *)
(* Around the step nothing stands still: the author edits the files, somebody     *)
(* deletes drafts and covers in the WeChat back end, a call fails or its answer   *)
(* is lost, and the process dies.  A file is represented by its version, which    *)
(* stands for its content and for its digest.                                     *)
EXTENDS Naturals, FiniteSets

CONSTANTS
  MaxEdits,     \* bound: edits of the author's files
  MaxDeletes,   \* bound: deletions in the back end
  MaxFailures,  \* bound: failed calls, lost answers, crashes and failures later on
  StepsAfter,   \* the workflow has a step after wechat_draft (the shipped one has none)
  AuthorWaits   \* the author leaves the files alone while an attempt runs

WeChatAssumption ==
  /\ MaxEdits \in Nat /\ MaxDeletes \in Nat /\ MaxFailures \in Nat
  /\ StepsAfter \in BOOLEAN /\ AuthorWaits \in BOOLEAN

VARIABLES
  files,     \* the author's article, image and cover, as versions
  summary,   \* article.json: the digest rendered; 0 before the first render
  cache,     \* upload-cache.json: digest -> what was uploaded for it
  drafts,    \* the drafts in the back end
  covers,    \* the cover materials in the back end: ids
  ids,       \* the next id the back end gives out
  known,     \* metadata.wechat_media_id as the task row has it; 0 for none
  run,       \* the attempt: where it is, and what it holds
  edits, deletes, failures

remote == <<drafts, covers, ids>>
budget == <<edits, deletes, failures>>
vars == <<files, summary, cache, remote, known, run, budget>>

Names == {"article", "image", "cover"}
NoRun == [at |-> "idle", text |-> 0, key |-> 0, url |-> 0, thumb |-> 0, media |-> 0]
At(pc) == run.at = pc
Goto(pc) == run' = [run EXCEPT !.at = pc]
Running == run.at \notin {"idle", "asked", "granted", "done"}

ImageKeys == {c.key : c \in cache.images}
CoverKeys == {c.key : c \in cache.covers}
UrlOf(k) == (CHOOSE c \in cache.images : c.key = k).url
MediaOf(k) == (CHOOSE c \in cache.covers : c.key = k).media
DraftIds == {d.id : d \in drafts}

------------------------------------------------------------------------------
(* The author, and the back end's other users.                                    *)
Edit ==
  /\ edits < MaxEdits
  /\ AuthorWaits => ~Running
  /\ \E n \in Names : files' = [files EXCEPT ![n] = @ + 1]
  /\ edits' = edits + 1
  /\ UNCHANGED <<summary, cache, remote, known, run, deletes, failures>>

DeleteRemote ==
  /\ deletes < MaxDeletes
  /\ \/ \E d \in drafts : drafts' = drafts \ {d} /\ UNCHANGED covers
     \/ \E c \in covers : covers' = covers \ {c} /\ UNCHANGED drafts
  /\ deletes' = deletes + 1
  /\ UNCHANGED <<files, summary, cache, ids, known, run, edits, failures>>

------------------------------------------------------------------------------
(* WeChatRenderStep.run: a first render; or again, as draft_refusal tells a person  *)
(* to: a refused or failed task may be moved back by set-step.                      *)
Render ==
  /\ At("idle") /\ summary # files["article"]
  /\ summary' = files["article"]
  /\ UNCHANGED <<files, cache, remote, known, run, budget>>

(* draft_refusal.                                                                 *)
Unchecked == FALSE

Refused == summary # files["article"]

(* gate_drafts: a refusal is a Deny, anything else asks a person about this        *)
(* attempt; the gate is asked again when the granted attempt is claimed.           *)
Ask ==
  /\ At("idle") /\ summary # 0
  /\ ~Refused
  /\ Goto("asked")
  /\ UNCHANGED <<files, summary, cache, remote, known, budget>>

Approve ==
  /\ At("asked")
  /\ Goto("granted")
  /\ UNCHANGED <<files, summary, cache, remote, known, budget>>

GateAgain ==
  /\ At("granted")
  /\ Goto(IF Refused THEN "idle" ELSE "check")
  /\ UNCHANGED <<files, summary, cache, remote, known, budget>>

------------------------------------------------------------------------------
(* WeChatDraftStep.run, split wherever a file or the back end may change.          *)
Raise == run' = NoRun

Check ==
  /\ At("check")
  /\ IF Refused THEN Raise ELSE Goto("load")
  /\ UNCHANGED <<files, summary, cache, remote, known, budget>>

LoadArticle ==
  /\ At("load")
  /\ run' = [run EXCEPT !.at = "image", !.text = files["article"]]
  /\ UNCHANGED <<files, summary, cache, remote, known, budget>>

(* An upload is keyed by the digest of the file.                                  *)
NameKey(n) == 1

Digest(n) == files[n]

Image ==
  /\ At("image")
  /\ LET k == Digest("image") IN
     run' = IF k \in ImageKeys
            THEN [run EXCEPT !.at = "cover", !.url = UrlOf(k)]
            ELSE [run EXCEPT !.at = "upload", !.key = k]
  /\ UNCHANGED <<files, summary, cache, remote, known, budget>>

(* upload_content_image reads the file again when it sends it.                    *)
UploadImage ==
  /\ At("upload")
  /\ cache' = [cache EXCEPT !.images = @ \union {[key |-> run.key, url |-> files["image"]]}]
  /\ run' = [run EXCEPT !.at = "cover", !.url = files["image"]]
  /\ UNCHANGED <<files, summary, remote, known, budget>>

Cover ==
  /\ At("cover")
  /\ LET k == Digest("cover") IN
     run' = IF k \in CoverKeys
            THEN [run EXCEPT !.at = "save", !.key = k, !.thumb = MediaOf(k)]
            ELSE [run EXCEPT !.at = "material", !.key = k]
  /\ UNCHANGED <<files, summary, cache, remote, known, budget>>

NextId == ids + 1

UploadCover ==
  /\ At("material")
  /\ covers' = covers \union {ids}
  /\ ids' = NextId
  /\ cache' = [cache EXCEPT !.covers = @ \union {[key |-> run.key, media |-> ids]}]
  /\ run' = [run EXCEPT !.at = "save", !.thumb = ids]
  /\ UNCHANGED <<files, summary, drafts, known, budget>>

Draft(id) == [id |-> id, text |-> run.text, image |-> run.url, thumb |-> run.thumb]

(* Whether the back end takes an update of `known', or an add: it answers          *)
(* DRAFT_GONE for a draft and for a cover that no longer exists.                    *)
CoverThere == run.thumb \in covers
DraftThere == known \in DraftIds

UpdateFails == ~(DraftThere /\ CoverThere)

SaveKnown ==
  /\ At("save") /\ known # 0
  /\ IF UpdateFails
     THEN Goto("add") /\ UNCHANGED drafts
     ELSE /\ drafts' = {d \in drafts : d.id # known} \union {Draft(known)}
          /\ run' = [run EXCEPT !.at = "record", !.media = known]
  /\ UNCHANGED <<files, summary, cache, covers, ids, known, budget>>

AddsAnyhow == At("save")

AddsDirectly == At("save") /\ known = 0

(* The cover is forgotten when the back end does not know it any more.             *)
KeptCovers == cache.covers

WithoutCover == {c \in cache.covers : c.key # run.key}

Add ==
  /\ At("add") \/ AddsDirectly
  /\ IF CoverThere
     THEN /\ drafts' = drafts \union {Draft(ids)}
          /\ ids' = NextId
          /\ run' = [run EXCEPT !.at = "record", !.media = ids]
          /\ UNCHANGED cache
     ELSE /\ cache' = [cache EXCEPT !.covers = WithoutCover]
          /\ Raise
          /\ UNCHANGED <<drafts, ids>>
  /\ UNCHANGED <<files, summary, covers, known, budget>>

(* TaskRunner.execute: the id is committed to the task row on its own ...           *)
RecordId ==
  /\ At("record")
  /\ known' = run.media
  /\ Goto("recorded")
  /\ UNCHANGED <<files, summary, cache, remote, budget>>

(* ... before the step run is closed and finish_step moves the task on.             *)
Finish ==
  /\ At("recorded")
  /\ Goto("done")
  /\ UNCHANGED <<files, summary, cache, remote, known, budget>>

(* Any call of the run raises, or the process dies: the step is repeated, from the  *)
(* row and the cache file as they are by then.                                      *)
Fail ==
  /\ Running /\ failures < MaxFailures
  /\ failures' = failures + 1
  /\ Raise
  /\ UNCHANGED <<files, summary, cache, remote, known, edits, deletes>>

(* A later step failed, and a person moves the task back: set_step refuses a task   *)
(* that is finished, so this needs a step after wechat_draft.                       *)
MoveBack ==
  /\ StepsAfter /\ At("done") /\ failures < MaxFailures
  /\ failures' = failures + 1
  /\ Raise
  /\ UNCHANGED <<files, summary, cache, remote, known, edits, deletes>>

------------------------------------------------------------------------------
(* A task may be added with the id of a draft (--meta wechat_media_id).             *)
Earlier == [id |-> 1, text |-> 0, image |-> 0, thumb |-> 0]

Init ==
  /\ files = [n \in Names |-> 1]
  /\ summary = 0
  /\ cache = [images |-> {}, covers |-> {}]
  /\ covers = {}
  /\ \/ drafts = {} /\ ids = 1 /\ known = 0
     \/ drafts = {Earlier} /\ ids = 2 /\ known = Earlier.id
  /\ run = NoRun
  /\ edits = 0 /\ deletes = 0 /\ failures = 0

Step ==
  \/ Render \/ Ask \/ Approve \/ GateAgain \/ Check \/ LoadArticle \/ Image \/ UploadImage
  \/ Cover \/ UploadCover \/ SaveKnown \/ Add \/ RecordId \/ Finish

Next == Step \/ Edit \/ DeleteRemote \/ Fail \/ MoveBack
Spec == Init /\ [][Next]_vars
(* The engine runs what may run, and a person renders again and approves.          *)
FairSpec == Spec /\ WF_vars(Step)

------------------------------------------------------------------------------
TypeOK ==
  /\ files \in [Names -> 1..(MaxEdits + 1)]
  /\ summary \in 0..(MaxEdits + 1)
  /\ CoverKeys \union ImageKeys \subseteq 1..(MaxEdits + 1)
  /\ covers \union DraftIds \subseteq 1..(ids - 1)
  /\ known \in 0..(ids - 1)
  /\ edits \in 0..MaxEdits /\ deletes \in 0..MaxDeletes /\ failures \in 0..MaxFailures

(* An article edited after it was rendered is not drafted, and a draft shows the   *)
(* image as it is: what is saved is the text the person was asked about and the    *)
(* current image.                                                                   *)
DraftIsTheRendering ==
  \A d \in drafts' \ drafts : d.text = summary /\ d.image = files["image"]

(* A known draft is updated, never duplicated, by an attempt that repeats one whose *)
(* id was recorded: a second one is added only when the recorded one is gone.       *)
KnownIsUpdated ==
  Cardinality(drafts') > Cardinality(drafts) /\ known # 0 => known \notin DraftIds

(* The upload cache tells what was uploaded: a digest leads to that very content.   *)
CacheTruthful == \A c \in cache.images : c.url = c.key

(* A recorded draft is not duplicated; and what is drafted is what a person was asked *)
(* about, if the author leaves a running attempt alone.                               *)
DraftsHold ==
  /\ KnownIsUpdated
  /\ AuthorWaits => CacheTruthful' /\ DraftIsTheRendering

(* The article is drafted, and the task has the draft's id on record.               *)
Drafted == known # 0 /\ At("done")
==============================================================================
