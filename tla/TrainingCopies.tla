--------------------------- MODULE TrainingCopies ---------------------------
(***************************************************************************)
(* What is kept of one member's fight to train the detector, apart from    *)
(* the fight itself: the copy of a video shared on upload                  *)
(* (core/training_consent.py) and the pose sequences of the corrections    *)
(* (core/annotations.py), against everything that deletes the fight, its   *)
(* video or the account (app/main.py, core/db.py).  The analysis is done;  *)
(* persist_completed_job saves it in the history and then keeps the copy.  *)
(*                                                                         *)
(* Removing a directory is one step, and a file is copied in one step.     *)
(***************************************************************************)
EXTENDS Integers

CONSTANTS Removals,    \* deletions the owner or an administrator makes
          Corrections, \* calls of annotate_event and of the backfill
          NoNote,
          MaxNotes     \* annotation rows ever inserted

ASSUME CopiesAssumption == MaxNotes \in Nat \ {0} /\ NoNote \notin [id : Nat, path : BOOLEAN]

VARIABLES
    ticked,    \* training_consent of the session
    session,   \* history_saved of the session file, "gone" without the file
    artifacts, \* the run's report and tracking
    video,     \* the uploaded file
    fightRow,  \* the row of fights: "none", "whole", "detached" of its video
    member,    \* the account and its profile exist
    copy,      \* dataset/consented/<job>: "none", "video", "whole"
    saverAt,   \* where persist_completed_job is, in the job's lock
    removal,   \* what each deletion removes and where it is
    fulfilled, \* what was deleted by a call that has ended
    sharing,   \* the profile's allow_model_training
    note,      \* the annotation of the moment: its id and whether it has a path
    nextNote,  \* AUTOINCREMENT
    sequences, \* ids with an .npz file
    strays,    \* ids whose file lost its row in a way the code does not handle
    fix        \* where each correction is

fightVars == <<session, artifacts, video, fightRow, member, copy>>
noteVars == <<note, nextNote, sequences, strays>>
copiesVars == <<ticked, fightVars, saverAt, removal, fulfilled, sharing,
                noteVars, fix>>

Idle == [at |-> "idle"]
Deletable == {"fight", "video", "account"}

CopiesInit ==
    /\ ticked \in BOOLEAN /\ sharing \in BOOLEAN
    /\ session = "unsaved" /\ artifacts = TRUE /\ video = TRUE
    /\ fightRow = "none" /\ member = TRUE /\ copy = "none" /\ saverAt = "idle"
    /\ removal = [d \in Removals |-> Idle] /\ fulfilled = {}
    /\ note = NoNote /\ nextNote = 1 /\ sequences = {} /\ strays = {}
    /\ fix = [c \in Corrections |-> Idle]

Annotated == note # NoNote

------------------------------------------------------------------------------
(* app/state.py, persist_completed_job.                                     *)

\* The report is read and the row inserted, or refreshed when there is one.
\* The foreign key on the profile is not enforced.
SavesRow ==
    /\ saverAt = "idle" /\ session \in {"unsaved", "failed"}
    /\ \/ /\ artifacts
          /\ fightRow' = IF fightRow = "none" THEN "whole" ELSE fightRow
          /\ saverAt' = IF ticked THEN "keeping" ELSE "saved"
       \/ /\ saverAt' = "failed"
          /\ UNCHANGED fightRow
    /\ UNCHANGED <<ticked, session, artifacts, video, member, copy, removal,
                   fulfilled, sharing, noteVars, fix>>

\* keep looks for the video, ...
LooksForVideo ==
    /\ saverAt = "keeping"
    /\ saverAt' = IF video THEN "placing" ELSE "saved"
    /\ UNCHANGED <<ticked, fightVars, removal, fulfilled, sharing, noteVars, fix>>

\* Slip: what was found is copied, there or not.
PlacesUnseen ==
    /\ saverAt = "placing"
    /\ copy' = (IF copy = "none" THEN "video" ELSE copy) /\ saverAt' = "recording"
    /\ UNCHANGED <<ticked, session, artifacts, video, fightRow, member, removal,
                   fulfilled, sharing, noteVars, fix>>

\* ... links it beside what is kept, unless it is there; a link of a file that
\* is gone raises, and what was kept is taken back.
PlacesVideo ==
    /\ saverAt = "placing"
    /\ IF video \/ copy # "none"
         THEN copy' = (IF copy = "none" THEN "video" ELSE copy) /\ saverAt' = "recording"
         ELSE copy' = "none" /\ saverAt' = "saved"
    /\ UNCHANGED <<ticked, session, artifacts, video, fightRow, member, removal,
                   fulfilled, sharing, noteVars, fix>>

\* The artifacts that are still there follow, and the record of the consent.
\* A folder that was forgotten meanwhile makes the writing of it raise, and so
\* does a disk that is full.
RecordsConsent ==
    /\ saverAt = "recording" /\ saverAt' = "saved"
    /\ copy' \in IF copy = "none" THEN {"none"} ELSE {"whole", "none"}
    /\ UNCHANGED <<ticked, session, artifacts, video, fightRow, member, removal,
                   fulfilled, sharing, noteVars, fix>>

\* _write_session makes the job's directory again when it was removed.
RecordsSaving ==
    /\ saverAt \in {"saved", "failed"} /\ saverAt' = "idle"
    /\ session' \in {saverAt, session}
    /\ UNCHANGED <<ticked, artifacts, video, fightRow, member, copy, removal,
                   fulfilled, sharing, noteVars, fix>>

------------------------------------------------------------------------------
(* Deletions.  removal[d].path says that the call knows the video's path.   *)

Removes(d, at) == removal' = [removal EXCEPT ![d].at = at]
Deletes(d, kind, at) ==
    removal' = [removal EXCEPT ![d] = [at |-> at, kind |-> kind,
                                       path |-> fightRow = "whole",
                                       listed |-> fightRow # "none"]]
Ends(d) ==
    /\ removal' = [removal EXCEPT ![d] = Idle]
    /\ fulfilled' = fulfilled \cup {removal[d].kind}

\* Slip: the rows go, the sequences stay.
RemovesRow ==
    /\ note' = NoNote
    /\ UNCHANGED <<sequences, nextNote, strays>>

\* _remove_annotation_sequences and the rows of the annotations.
RemovesNote ==
    /\ sequences' = IF Annotated /\ note.path THEN sequences \ {note.id} ELSE sequences
    /\ note' = NoNote
    /\ UNCHANGED <<nextNote, strays>>

\* _delete_own_fight, or the administrator's: delete_fight in one transaction.
DeletesFight(d) ==
    /\ removal[d].at = "idle" /\ fightRow # "none"
    /\ Deletes(d, "fight", "forgetting")
    /\ RemovesNote /\ fightRow' = "none"
    /\ UNCHANGED <<ticked, session, artifacts, video, member, copy, saverAt,
                   fulfilled, sharing, fix>>

\* delete_account lists the fights, ...
ListsFights(d) ==
    /\ removal[d].at = "idle" /\ member
    /\ Deletes(d, "account", "listed")
    /\ UNCHANGED <<ticked, fightVars, saverAt, fulfilled, sharing, noteVars, fix>>

\* ... clears what hangs off those it listed, and then every row of the profile.
DeletesAccount(d) ==
    /\ removal[d].at = "listed"
    /\ IF removal[d].listed THEN RemovesNote ELSE UNCHANGED noteVars
    /\ fightRow' = "none" /\ member' = FALSE
    /\ IF removal[d].listed THEN Removes(d, "forgetting") /\ UNCHANGED fulfilled
       ELSE Ends(d)
    /\ UNCHANGED <<ticked, session, artifacts, video, copy, saverAt, sharing, fix>>

\* _remove_fight_files: what was kept for training, ...
ForgetsCopy(d) ==
    /\ removal[d].at = "forgetting" /\ copy' = "none"
    /\ Removes(d, "wiping")
    /\ UNCHANGED <<ticked, session, artifacts, video, fightRow, member, saverAt,
                   fulfilled, sharing, noteVars, fix>>

\* ... the job's directory, ...
WipesFolder(d) ==
    /\ removal[d].at = "wiping" /\ session' = "gone" /\ artifacts' = FALSE
    /\ Removes(d, "unlinking")
    /\ UNCHANGED <<ticked, video, fightRow, member, copy, saverAt, fulfilled,
                   sharing, noteVars, fix>>

\* ... and the video.
UnlinksVideo(d) ==
    /\ removal[d].at = "unlinking"
    /\ video' = (video /\ ~removal[d].path)
    /\ Ends(d)
    /\ UNCHANGED <<ticked, session, artifacts, fightRow, member, copy, saverAt,
                   sharing, noteVars, fix>>

\* delete_original_video: the file first, then the copy, then the row.
DropsVideo(d) ==
    /\ removal[d].at = "idle" /\ fightRow # "none" /\ member
    /\ Deletes(d, "video", "dropped")
    /\ video' = (video /\ fightRow # "whole")
    /\ UNCHANGED <<ticked, session, artifacts, fightRow, member, copy, saverAt,
                   fulfilled, sharing, noteVars, fix>>
DropsCopy(d) ==
    /\ removal[d].at = "dropped" /\ copy' = "none"
    /\ Removes(d, "marking")
    /\ UNCHANGED <<ticked, session, artifacts, video, fightRow, member, saverAt,
                   fulfilled, sharing, noteVars, fix>>
Detaches == fightRow' = IF fightRow = "none" THEN "none" ELSE "detached"
MarksVideo(d) ==
    /\ removal[d].at = "marking" /\ Detaches
    /\ Ends(d)
    /\ UNCHANGED <<ticked, session, artifacts, video, member, copy, saverAt,
                   sharing, noteVars, fix>>

\* The retention of saved videos: the copy stays, as the owner agreed to.
ExpiresVideo ==
    /\ fightRow = "whole" /\ Detaches /\ video' = FALSE
    /\ UNCHANGED <<ticked, session, artifacts, member, copy, saverAt, removal,
                   fulfilled, sharing, noteVars, fix>>

------------------------------------------------------------------------------
(* Corrections.                                                             *)

Fixes(c, at) == fix' = [fix EXCEPT ![c].at = at]

SetsSharing ==
    /\ member /\ sharing' = ~sharing
    /\ UNCHANGED <<ticked, fightVars, saverAt, removal, fulfilled, noteVars, fix>>

\* annotate_event reads the report of a fight the member may open, ...
OpensFix(c) ==
    /\ fix[c].at = "idle" /\ member /\ artifacts
    /\ Fixes(c, "saving")
    /\ UNCHANGED <<ticked, fightVars, saverAt, removal, fulfilled, sharing, noteVars>>

\* ... inserts the annotation or updates the one of that moment, ...
SavesNote(c) ==
    /\ fix[c].at = "saving"
    /\ \/ /\ Annotated
          /\ fix' = [fix EXCEPT ![c] = [at |-> "exporting", id |-> note.id,
                                        backfill |-> FALSE]]
          /\ UNCHANGED noteVars
       \/ /\ ~Annotated /\ nextNote <= MaxNotes
          /\ note' = [id |-> nextNote, path |-> FALSE] /\ nextNote' = nextNote + 1
          /\ fix' = [fix EXCEPT ![c] = [at |-> "exporting", id |-> nextNote,
                                        backfill |-> FALSE]]
          /\ UNCHANGED <<sequences, strays>>
    /\ UNCHANGED <<ticked, fightVars, saverAt, removal, fulfilled, sharing>>

\* remote_worker_dataset_backfill takes up a label without a sequence.
ListsNote(c) ==
    /\ fix[c].at = "idle" /\ Annotated /\ ~note.path
    /\ fix' = [fix EXCEPT ![c] = [at |-> "exporting", id |-> note.id,
                                  backfill |-> TRUE]]
    /\ UNCHANGED <<ticked, fightVars, saverAt, removal, fulfilled, sharing, noteVars>>

\* export_sequence, where the profile allows it at that moment and there is a
\* tracking file with the fighter in it.  The backfill also wants the fight, and
\* leaves the row alone when it exports nothing.
Exports(c) ==
    /\ fix[c].at = "exporting"
    /\ \/ /\ member /\ sharing /\ artifacts
          /\ fix[c].backfill => fightRow # "none"
          /\ sequences' = sequences \cup {fix[c].id}
          /\ Fixes(c, "linking")
       \/ /\ UNCHANGED sequences
          /\ IF fix[c].backfill THEN fix' = [fix EXCEPT ![c] = Idle]
             ELSE Fixes(c, "clearing")
    /\ UNCHANGED <<ticked, fightVars, saverAt, removal, fulfilled, sharing,
                   note, nextNote, strays>>

\* set_annotation_sequence: nothing, when the row is gone.
SetsPath(c) ==
    /\ fix[c].at \in {"linking", "clearing"}
    /\ LET here == Annotated /\ note.id = fix[c].id
           linked == fix[c].at = "linking"
       IN  /\ note' = IF here THEN [note EXCEPT !.path = linked] ELSE note
           /\ strays' = IF here /\ linked THEN strays \ {fix[c].id}
                        ELSE strays \cup (sequences \cap {fix[c].id})
    /\ fix' = [fix EXCEPT ![c] = Idle]
    /\ UNCHANGED <<ticked, fightVars, saverAt, removal, fulfilled, sharing,
                   nextNote, sequences>>

------------------------------------------------------------------------------
CopiesNext ==
    \/ SavesRow \/ LooksForVideo \/ PlacesVideo \/ RecordsConsent \/ RecordsSaving
    \/ \E d \in Removals : \/ DeletesFight(d)
                           \/ ListsFights(d)
                           \/ DeletesAccount(d)
                           \/ ForgetsCopy(d)
                           \/ WipesFolder(d)
                           \/ UnlinksVideo(d)
                           \/ DropsVideo(d)
                           \/ DropsCopy(d)
                           \/ MarksVideo(d)
    \/ ExpiresVideo
    \/ SetsSharing
    \/ \E c \in Corrections : \/ OpensFix(c)
                              \/ SavesNote(c)
                              \/ ListsNote(c)
                              \/ Exports(c)
                              \/ SetsPath(c)

CopiesSpec == CopiesInit /\ [][CopiesNext]_copiesVars

CopiesTypeOK ==
    /\ session \in {"unsaved", "failed", "saved", "gone"}
    /\ fightRow \in {"none", "whole", "detached"}
    /\ copy \in {"none", "video", "whole"}
    /\ saverAt \in {"idle", "keeping", "placing", "recording", "saved", "failed"}
    /\ note \in {NoNote} \cup [id : 1..MaxNotes, path : BOOLEAN]
    /\ nextNote \in 1..(MaxNotes + 1)
    /\ sequences \subseteq 1..MaxNotes /\ strays \subseteq sequences
    /\ fulfilled \subseteq Deletable

Quiet == saverAt = "idle" /\ \A d \in Removals : removal[d].at = "idle"

\* main.py, delete_original_video: once the owner has had the original video
\* deleted, nothing of it is kept for training, whatever else went on or goes
\* on: a copy that is being made fails, because the file went first.
VideoDeletionForgets ==
    "video" \in fulfilled => copy = "none"

\* db.py, _remove_annotation_sequences: the training sequence of a correction
\* can be found from its row, so that deleting the fight deletes it, except
\* while the call that wrote it is about to write its path there.  It is
\* lost where a correction is made again after the consent was withdrawn, and
\* where the fight is deleted while the correction is being exported (strays).
SequencesAreAccountedFor ==
    \A s \in sequences \ strays :
       \/ Annotated /\ note = [id |-> s, path |-> TRUE]
       \/ \E c \in Corrections : fix[c].at = "linking" /\ fix[c].id = s

\* analyze.html:131, what the member is told at the box: "Delete the fight, its
\* video or your account and it is deleted too."
DeletedIsForgotten == Quiet /\ fulfilled # {} => copy = "none"
=============================================================================
