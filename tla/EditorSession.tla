--------------------------- MODULE EditorSession ----------------------------
(***************************************************************************)
(* The life of a configuration that is edited in the browser: the session  *)
(* of `yyr4ctl editor` (configurator/web/session.py, api.py, server.py),   *)
(* its files, the recovery it leaves for the next session, and the safe    *)
(* replacement of the configuration file (configurator/save.py).           *)
(*                                                                         *)
(* Two threads of the editor's process run at the same time: the HTTP      *)
(* server, one request after the other, and the thread that stops the      *)
(* session when `yyr4ctl editor stop` or Ctrl-C asks for it. One step is   *)
(* one access to a file or to the session's memory. Other programs write   *)
(* the configuration file at any time, restore_backup among them, and the  *)
(* process may be killed between any two steps. A directory is removed in  *)
(* one step.                                                               *)
(*                                                                         *)
(* A configuration is a member of Docs: ConfigDraft says what an edit does *)
(* to it and DraftOps what its text says. A digest is the text itself.     *)
(***************************************************************************)
EXTENDS Integers, FiniteSets

CONSTANTS
  Docs,         (* configurations                                          *)
  Read,         (* Read[d]: what the canonical text of d says (Written)    *)
  Loadable,     (* the configurations the loader accepts                   *)
  Foreign,      (* texts that other programs write to configuration files  *)
  NoText,       (* no such file                                            *)
  NoDir,        (* no such directory                                       *)
  MaxChanges,   (* bounds of a checked behaviour: edits that succeed and   *)
                (* what other programs do to the files, together;          *)
  MaxSessions,  (* sessions, so that a recovery can be resumed;            *)
  OneRace       (* a stop races with one request, in the last session      *)

Canonical == "canonical"
Texts == [says : Docs, style : {Canonical, "by_hand"}]

(* The file the editor opens, and the other one it may be told to save to. *)
Source  == "source"
Paths   == {Source, "other"}

(* The sidecar, the manifest and the files of a recovery.                  *)
Sides     == [sha : Texts, count : Nat]
Manifests == [target : Paths, base : Texts, sha : Texts, side : Sides, count : Nat]
Recoveries ==
  [draft : Texts \cup {NoText}, side : Sides \cup {NoText},
   manifest : Manifests \cup {NoText}]

ASSUME EditorAssumption ==
  /\ Read \in [Docs -> Docs]
  /\ \A d \in Docs : Read[Read[d]] = Read[d]
  /\ Loadable \subseteq Docs
  /\ Foreign \subseteq Texts
  /\ NoText \notin Texts \cup Sides \cup Manifests
  /\ NoDir \notin Recoveries \cup [draft : Texts, side : Sides]
  /\ MaxChanges \in Nat /\ MaxSessions \in Nat /\ OneRace \in BOOLEAN

TextOf(d) == [says |-> Read[d], style |-> Canonical]
Loads(d)  == d \in Loadable

Threads == {"server", "stopper"}
RecIds  == 1 .. MaxSessions + MaxChanges
NoRec   == 0

Policies == {"keep_recovery", "discard", "cancel"}

VARIABLES
  files,     (* the configuration files: files[path] is a text or NoText   *)
  backups,   (* texts in the backup directory: [of, holds], the text whose *)
             (* digest names the backup and the text that is in it         *)
  recs,      (* the recovery directories: NoDir or [draft, side, manifest] *)
  dir,       (* the session's directory: NoDir or [draft, side]            *)
  listed,    (* the session's entry in the registry exists                 *)
  ses,       (* what the session keeps in memory                           *)
  pc,        (* where each thread is                                       *)
  own,       (* what each thread remembers between its steps               *)
  restore,   (* a restore_backup under way elsewhere: NoText or [to, text] *)
  phase,     (* "none", "running", "closed", "exited" or "killed"          *)
  seen,      (* history: what the properties ask about the past            *)
  left       (* bounds not yet used                                        *)

disk == <<files, backups, restore>>
home == <<recs, dir, listed>>
vars == <<disk, home, ses, pc, own, phase, seen, left>>

-----------------------------------------------------------------------------
Labels ==
  {"idle", "draft", "sidecar", "open", "copy_draft", "copy_side", "manifest",
   "registry", "backup", "recheck", "replace", "refresh", "discard", "clean",
   "leave", "ended", "failed"}

Sessions ==
  [target : Paths, keeps : BOOLEAN, base : Texts, draft : Docs, dirty : BOOLEAN,
   count : Nat, reviewed : Int, rid : RecIds \cup {NoRec}, down : BOOLEAN]

Owned ==
  [rid : RecIds \cup {NoRec}, then : {"registry", "clean"}, round : {1, 2},
   side : Sides \cup {NoText}, expected : Texts \cup {NoText}]

Histories ==
  [reviewed : Docs \cup {NoText}, drafts : SUBSET Sides, asked : Policies,
   blind : BOOLEAN, touched : BOOLEAN, raced : BOOLEAN]

(* Every file and every field has its shape, in both threads.              *)
TypeOK ==
  /\ files \in [Paths -> Texts \cup {NoText}]
  /\ backups \subseteq [of : Texts, holds : Texts \cup {NoText}]
  /\ recs \in [RecIds -> Recoveries \cup {NoDir}]
  /\ dir \in [draft : Texts, side : Sides] \cup {NoDir}
  /\ listed \in BOOLEAN
  /\ ses \in Sessions
  /\ pc \in [Threads -> Labels]
  /\ own \in [Threads -> Owned]
  /\ restore \in [to : Paths, text : Texts] \cup {NoText}
  /\ phase \in {"none", "running", "closed", "exited", "killed"}
  /\ seen \in Histories
  /\ left \in [changes : 0 .. MaxChanges, sessions : 0 .. MaxSessions]

Running == phase = "running"
Idle(t) == pc[t] = "idle"
Within  == OneRace => ~seen.raced
Busy(t) == pc[t] \notin {"idle", "ended", "failed"}
At(t, label) == Running /\ pc[t] = label

Target == files[ses.target]

GoTo(t, label) == pc' = [pc EXCEPT ![t] = label]

(* An exception in a request is answered with an error; one that leaves    *)
(* shutdown() ends the thread.                                             *)
Fail(t) == GoTo(t, IF own[t].then = "clean" THEN "failed" ELSE "idle")

NoMemory ==
  [target |-> Source, keeps |-> FALSE, base |-> CHOOSE t \in Texts : TRUE,
   draft |-> CHOOSE d \in Docs : TRUE, dirty |-> FALSE, count |-> 0, reviewed |-> -1,
   rid |-> NoRec, down |-> FALSE]

AtRest == [t \in Threads |-> [rid |-> NoRec, then |-> "registry", round |-> 1,
                              side |-> NoText, expected |-> NoText]]

NoHistory ==
  [reviewed |-> NoText, drafts |-> {}, asked |-> "cancel",
   blind |-> FALSE, touched |-> FALSE, raced |-> FALSE]

Init ==
  /\ files \in {[p \in Paths |-> IF p = Source THEN t ELSE NoText] :
                  t \in {x \in Foreign : Loads(x.says)}}
  /\ backups = {}
  /\ recs = [r \in RecIds |-> NoDir]
  /\ dir = NoDir
  /\ listed = FALSE
  /\ ses = NoMemory
  /\ pc = [t \in Threads |-> "idle"]
  /\ own = AtRest
  /\ restore = NoText
  /\ phase = "none"
  /\ seen = NoHistory
  /\ left = [changes |-> MaxChanges, sessions |-> MaxSessions]

-----------------------------------------------------------------------------
(* Sessions begin: create_session, and resume_session on top of it. The    *)
(* directory is new, so this is one step.                                  *)
Begin(s, d, side) ==
  /\ ~Running
  /\ Within
  /\ left.sessions > 0
  /\ files[Source] # NoText
  /\ Loads(files[Source].says)
  /\ ses' = s
  /\ dir' = [draft |-> TextOf(d), side |-> side]
  /\ listed' = TRUE
  /\ pc' = [t \in Threads |-> "idle"]
  /\ own' = [AtRest EXCEPT !["server"].rid = s.rid]
  /\ phase' = "running"
  /\ seen' = [seen EXCEPT !.reviewed = NoText, !.asked = "cancel"]
  /\ left' = [left EXCEPT !.sessions = @ - 1]
  /\ UNCHANGED <<disk, recs>>

Start(target, keeps) ==
  LET d == files[Source].says
  IN  Begin([NoMemory EXCEPT !.target = target, !.keeps = keeps,
                             !.base = TextOf(d), !.draft = d],
            d, [sha |-> TextOf(d), count |-> 0])

ResumableSlip(r) ==
  /\ recs[r] # NoDir
  /\ recs[r].manifest # NoText
  /\ files[Source] # NoText
  /\ TextOf(files[Source].says) = recs[r].manifest.base
  /\ recs[r].draft # NoText /\ recs[r].side # NoText
  /\ Loads(recs[r].draft.says)
  /\ recs[r].side = recs[r].manifest.side

(* What resume_session and from_recovery ask of a recovery.                *)
Resumable(r) ==
  /\ recs[r] # NoDir
  /\ recs[r].manifest # NoText
  /\ files[Source] # NoText
  /\ TextOf(files[Source].says) = recs[r].manifest.base
  /\ recs[r].draft = recs[r].manifest.sha
  /\ Loads(recs[r].draft.says)
  /\ recs[r].side = recs[r].manifest.side

RestoredReviewSlip(count) == count

RestoredReview(count) == count - 1

(* The recovery's target is kept, the backup directory is not.             *)
Resume(r) ==
  LET d == recs[r].draft.says
      n == recs[r].side.count
  IN  /\ Resumable(r)
      /\ Begin([NoMemory EXCEPT !.target = recs[r].manifest.target,
                                !.base = TextOf(files[Source].says), !.draft = d,
                                !.dirty = TRUE, !.count = n,
                                !.reviewed = RestoredReview(n), !.rid = r],
               d, recs[r].side)

-----------------------------------------------------------------------------
(* Requests. One that begins while the session is being stopped races with *)
(* it.                                                                     *)
Request(label) ==
  /\ Running /\ Idle("server")
  /\ Within
  /\ GoTo("server", label)
  /\ UNCHANGED <<disk, home, phase>>

Racing(h) == [h EXCEPT !.raced = @ \/ Busy("stopper")]

(* An edit of the draft that changes it; every handler then writes draft,  *)
(* sidecar, recovery and registry, and do_POST the last two once more.     *)
Edit(d) ==
  /\ d # ses.draft
  /\ left.changes > 0
  /\ Request("draft")
  /\ ses' = [ses EXCEPT !.draft = d, !.dirty = TRUE, !.count = @ + 1]
  /\ own' = [own EXCEPT !["server"] = [@ EXCEPT !.then = "registry", !.round = 1]]
  /\ seen' = [Racing(seen) EXCEPT
                !.drafts = @ \cup {[sha |-> TextOf(d), count |-> ses.count + 1]}]
  /\ left' = [left EXCEPT !.changes = @ - 1]

(* An edit that leaves the draft as it is, and one that is refused.        *)
EmptyEdit ==
  /\ \/ Request("draft") /\ own' = [own EXCEPT !["server"].round = 1]
     \/ Request("open")  /\ own' = [own EXCEPT !["server"].round = 2]
  /\ seen' = Racing(seen)
  /\ UNCHANGED <<ses, left>>

WriteDraft ==
  /\ At("server", "draft")
  /\ IF dir = NoDir
       THEN Fail("server") /\ UNCHANGED dir
       ELSE GoTo("server", "sidecar") /\ dir' = [dir EXCEPT !.draft = TextOf(ses.draft)]
  /\ UNCHANGED <<disk, recs, listed, ses, own, phase, seen, left>>

WriteSidecar ==
  /\ At("server", "sidecar")
  /\ IF dir = NoDir
       THEN Fail("server") /\ UNCHANGED dir
       ELSE /\ GoTo("server", "open")
            /\ dir' = [dir EXCEPT !.side = [sha |-> TextOf(ses.draft), count |-> ses.count]]
  /\ UNCHANGED <<disk, recs, listed, ses, own, phase, seen, left>>

(* write_recovery, by either thread.                                       *)
FreshRecs ==
  {r \in RecIds : recs[r] = NoDir /\ r # ses.rid /\ \A t \in Threads : own[t].rid # r}

OpenRecovery(t) ==
  LET r == IF ses.rid = NoRec THEN CHOOSE x \in FreshRecs : TRUE ELSE ses.rid
  IN  /\ At(t, "open")
      /\ ses.rid = NoRec => FreshRecs # {}
      /\ IF ses.dirty
           THEN /\ GoTo(t, "copy_draft")
                /\ ses' = [ses EXCEPT !.rid = r]
                /\ own' = [own EXCEPT ![t].rid = r]
                /\ recs' = [recs EXCEPT ![r] =
                     IF @ = NoDir THEN [draft |-> NoText, side |-> NoText, manifest |-> NoText]
                                  ELSE @]
           ELSE GoTo(t, own[t].then) /\ UNCHANGED <<recs, ses, own>>
      /\ UNCHANGED <<disk, dir, listed, phase, seen, left>>

CopyDraft(t) ==
  LET r == own[t].rid
  IN  /\ At(t, "copy_draft")
      /\ IF dir # NoDir /\ recs[r] = NoDir
           THEN Fail(t) /\ UNCHANGED recs
           ELSE /\ GoTo(t, "copy_side")
                /\ recs' = IF dir = NoDir THEN recs ELSE [recs EXCEPT ![r].draft = dir.draft]
      /\ UNCHANGED <<disk, dir, listed, ses, own, phase, seen, left>>

(* Draft and sidecar must both be there before the manifest is written;    *)
(* their digest is taken here.                                             *)
CopySide(t) ==
  LET r    == own[t].rid
      rec  == recs[r]
      side == IF dir = NoDir THEN rec.side ELSE dir.side
  IN  /\ At(t, "copy_side")
      /\ IF rec = NoDir THEN Fail(t) /\ UNCHANGED <<recs, own>>
         ELSE /\ recs' = [recs EXCEPT ![r].side = side]
              /\ own' = [own EXCEPT ![t].side = side]
              /\ IF NoText \in {rec.draft, side} THEN Fail(t) ELSE GoTo(t, "manifest")
      /\ UNCHANGED <<disk, dir, listed, ses, phase, seen, left>>

RewrittenSlip(r, manifest) ==
  IF recs[r].manifest = NoText THEN [recs EXCEPT ![r].manifest = manifest] ELSE recs

Rewritten(r, manifest) == [recs EXCEPT ![r].manifest = manifest]

(* The digest of the draft is the one the session's sidecar states.        *)
WriteManifest(t) ==
  LET r == own[t].rid
  IN  /\ At(t, "manifest")
      /\ IF dir = NoDir \/ recs[r] = NoDir
           THEN Fail(t) /\ UNCHANGED recs
           ELSE /\ GoTo(t, own[t].then)
                /\ recs' = Rewritten(r,
                     [target |-> ses.target, base |-> ses.base, sha |-> dir.side.sha, side |-> own[t].side,
                      count |-> ses.count])
      /\ own' = [own EXCEPT ![t].side = NoText]
      /\ UNCHANGED <<disk, dir, listed, ses, phase, seen, left>>

(* The first time this ends the handler, whose answer needs the sidecar    *)
(* (build_state) and is sent; then the recovery is written once more.      *)
WriteRegistry ==
  LET again == own["server"].round = 1 /\ dir # NoDir
  IN  /\ At("server", "registry")
      /\ GoTo("server", IF again THEN "open" ELSE "idle")
      /\ listed' = TRUE
      /\ own' = [own EXCEPT !["server"].round = 2]
      /\ UNCHANGED <<disk, recs, dir, ses, phase, seen, left>>

Review ==
  /\ Running /\ Idle("server")
  /\ ses' = [ses EXCEPT !.reviewed = ses.count]
  /\ seen' = [seen EXCEPT !.reviewed = ses.draft]
  /\ UNCHANGED <<disk, home, pc, own, phase, left>>

-----------------------------------------------------------------------------
(* handle_save and save_draft. What the file must hold is what was loaded, *)
(* in its canonical form, or nothing if there is no file.                  *)
Reviewed == ses.reviewed = ses.count

Save ==
  /\ Reviewed
  /\ Loads(Read[ses.draft])
  /\ Target \in {NoText, ses.base}
  /\ Request(IF ses.keeps /\ Target # NoText THEN "backup" ELSE "recheck")
  /\ own' = [own EXCEPT !["server"] = [@ EXCEPT !.expected = Target, !.then = "registry",
                                                !.round = 2]]
  /\ seen' = [Racing(seen) EXCEPT !.blind = FALSE, !.touched = FALSE]
  /\ UNCHANGED <<ses, left>>

(* The backup's name is made of the digest compared and of the second, and *)
(* must be new; the file is then read again.                               *)
Backup ==
  LET name == own["server"].expected
  IN  /\ At("server", "backup")
      /\ \/ /\ Target # NoText
            /\ GoTo("server", "recheck")
            /\ backups' = backups \cup {[of |-> name, holds |-> Target]}
         \/ /\ Target = NoText
            /\ Fail("server")
            /\ backups' = backups \cup {[of |-> name, holds |-> NoText]}
         \/ /\ \E b \in backups : b.of = name
            /\ Fail("server")
            /\ UNCHANGED backups
      /\ UNCHANGED <<files, restore, home, ses, own, phase, seen, left>>

StillThereSlip(expected) == Target # NoText

StillThere(expected) == Target = expected

Install == files' = [files EXCEPT ![ses.target] = TextOf(ses.draft)]

(* A new file is linked into place, which fails if there is one by now. An *)
(* old one is compared once more, then replaced.                           *)
Recheck ==
  LET expected == own["server"].expected
  IN  /\ At("server", "recheck")
      /\ \/ /\ expected = NoText /\ Target = NoText
            /\ Install
            /\ GoTo("server", "refresh")
         \/ /\ expected # NoText /\ StillThere(expected)
            /\ GoTo("server", "replace")
            /\ UNCHANGED files
         \/ /\ IF expected = NoText THEN Target # NoText ELSE ~StillThere(expected)
            /\ Fail("server")
            /\ UNCHANGED files
      /\ UNCHANGED <<backups, restore, home, ses, own, phase, seen, left>>

Replace ==
  /\ At("server", "replace")
  /\ Install
  /\ GoTo("server", "refresh")
  /\ UNCHANGED <<backups, restore, home, ses, own, phase, seen, left>>

(* refresh_base: the saved file is loaded and becomes the new base. The    *)
(* review is withdrawn only after the sidecar is written.                  *)
RefreshBase ==
  LET d == Target.says
      new == [ses EXCEPT !.base = TextOf(d), !.draft = d, !.dirty = FALSE, !.count = 0]
  IN  /\ At("server", "refresh")
      /\ IF Target = NoText \/ ~Loads(d) THEN Fail("server") /\ UNCHANGED <<dir, ses>>
         ELSE IF dir = NoDir THEN Fail("server") /\ ses' = new /\ UNCHANGED dir
         ELSE /\ GoTo("server", "discard")
              /\ ses' = [new EXCEPT !.reviewed = -1]
              /\ dir' = [dir EXCEPT !.side = [sha |-> TextOf(d), count |-> 0]]
      /\ seen' = IF ses' = ses THEN seen
                 ELSE [seen EXCEPT !.drafts = @ \cup {[sha |-> TextOf(d), count |-> 0]}]
      /\ UNCHANGED <<disk, recs, listed, own, phase, left>>

(* discard_recovery of the session, by either thread.                      *)
RemovedSlip(r) == recs

Removed(r) == [recs EXCEPT ![r] = NoDir]

Discard(t) ==
  /\ At(t, "discard")
  /\ GoTo(t, own[t].then)
  /\ IF ses.rid = NoRec THEN UNCHANGED <<recs, listed, ses>>
     ELSE recs' = Removed(ses.rid) /\ listed' = TRUE /\ ses' = [ses EXCEPT !.rid = NoRec]
  /\ UNCHANGED <<disk, dir, own, phase, seen, left>>

-----------------------------------------------------------------------------
(* The end of a session. The server ends between two requests, with the    *)
(* policy the page has chosen, or when the session was idle for long.      *)
(* `yyr4ctl editor stop` brings a policy of its own, and Ctrl-C the page's.*)
FirstOfShutdown(policy) ==
  CASE policy = "keep_recovery" /\ ses.dirty -> "open"
    [] policy = "discard"                    -> "discard"
    [] OTHER                                 -> "clean"

Other(t) == IF t = "server" THEN "stopper" ELSE "server"

Shutdown(t, policy) ==
  /\ Running /\ Idle(t)
  /\ ses' = [ses EXCEPT !.down = TRUE]
  /\ GoTo(t, IF ses.down THEN "leave" ELSE FirstOfShutdown(policy))
  /\ own' = [own EXCEPT ![t].then = "clean"]
  /\ seen' = [seen EXCEPT !.raced = @ \/ Busy(Other(t)),
                          !.asked = IF ses.down THEN @ ELSE policy]
  /\ UNCHANGED <<disk, home, phase, left>>

Clean(t) ==
  /\ At(t, "clean")
  /\ GoTo(t, "leave")
  /\ dir' = NoDir
  /\ listed' = FALSE
  /\ UNCHANGED <<disk, recs, ses, own, phase, seen, left>>

(* The stopper ends the process, and a request under way with it. The      *)
(* server's thread only ends itself: the process waits for a stop.         *)
Leave(t) ==
  /\ At(t, "leave")
  /\ GoTo(t, "ended")
  /\ phase' = IF t = "stopper" THEN "exited"
              ELSE IF Busy("stopper") THEN "running" ELSE "closed"
  /\ UNCHANGED <<disk, home, ses, own, seen, left>>

(* What was in memory is lost; what is left in the runtime directory is no *)
(* longer anybody's.                                                       *)
Crash ==
  /\ Running
  /\ phase' = "killed"
  /\ dir' = NoDir
  /\ listed' = FALSE
  /\ ses' = NoMemory
  /\ pc' = [t \in Threads |-> "ended"]
  /\ own' = AtRest
  /\ seen' = [seen EXCEPT !.reviewed = NoText, !.asked = "cancel"]
  /\ UNCHANGED <<disk, recs, left>>

-----------------------------------------------------------------------------
(* Other programs: a configuration file is written or removed, a recovery  *)
(* is discarded (`recover discard` asks nothing about the session that     *)
(* keeps it), a backup is restored. restore_backup compares the file with  *)
(* what its caller saw, then replaces it.                                  *)
Written(path, text) ==
  /\ files' = [files EXCEPT ![path] = text]
  /\ seen' = [seen EXCEPT !.touched = @ \/ path = ses.target,
                          !.blind = @ \/ (path = ses.target /\ pc["server"] = "replace")]

WriteFile(path, text) ==
  /\ left.changes > 0
  /\ Written(path, text)
  /\ left' = [left EXCEPT !.changes = @ - 1]
  /\ UNCHANGED <<backups, restore, home, ses, pc, own, phase>>

DiscardRecovery(r) ==
  /\ left.changes > 0
  /\ recs[r] # NoDir
  /\ recs' = [recs EXCEPT ![r] = NoDir]
  /\ seen' = [seen EXCEPT !.raced = @ \/ r = ses.rid]
  /\ left' = [left EXCEPT !.changes = @ - 1]
  /\ UNCHANGED <<disk, dir, listed, ses, pc, own, phase>>

RestoreBegins(b) ==
  /\ left.changes > 0
  /\ restore = NoText
  /\ b.holds # NoText
  /\ Loads(b.holds.says)
  /\ restore' = [to |-> ses.target, text |-> b.holds]
  /\ left' = [left EXCEPT !.changes = @ - 1]
  /\ UNCHANGED <<files, backups, home, ses, pc, own, phase, seen>>

RestoreReplaces ==
  /\ restore # NoText
  /\ Written(restore.to, restore.text)
  /\ restore' = NoText
  /\ UNCHANGED <<backups, home, ses, pc, own, phase, left>>

-----------------------------------------------------------------------------
ThreadStep(t) ==
  \/ OpenRecovery(t) \/ CopyDraft(t) \/ CopySide(t) \/ WriteManifest(t)
  \/ Discard(t) \/ Clean(t) \/ Leave(t)

RequestStep ==
  \/ WriteDraft \/ WriteSidecar \/ WriteRegistry
  \/ Backup \/ Recheck \/ Replace \/ RefreshBase

Next ==
  \/ \E p \in Paths, k \in BOOLEAN : Start(p, k)
  \/ \E r \in RecIds : Resume(r) \/ DiscardRecovery(r)
  \/ \E d \in Docs : Edit(d)
  \/ EmptyEdit \/ Review \/ Save
  \/ \E q \in Policies \ {"cancel"} : Shutdown("server", q)
  \/ \E q \in Policies : Shutdown("stopper", q)
  \/ \E t \in Threads : ThreadStep(t)
  \/ RequestStep
  \/ Crash
  \/ \E p \in Paths, x \in Foreign \cup {NoText} : WriteFile(p, x)
  \/ \E b \in backups : RestoreBegins(b)
  \/ RestoreReplaces

Spec == Init /\ [][Next]_vars

-----------------------------------------------------------------------------
Current(r) ==
  /\ recs[r].draft = TextOf(ses.draft)
  /\ recs[r].side = [sha |-> TextOf(ses.draft), count |-> ses.count]
  /\ recs[r].manifest = [target |-> ses.target, base |-> ses.base,
                         sha |-> TextOf(ses.draft), side |-> recs[r].side,
                         count |-> ses.count]

(* save_draft never destroys a text it does not know: what it replaces is  *)
(* the text that was loaded, unless another program wrote the file between *)
(* the last comparison and the replacement; and when backups are kept and  *)
(* nobody touched the file, what was replaced is in one of them.           *)
Replaces ==
  At("server", "replace") \/ (At("server", "recheck") /\ pc'["server"] = "refresh")

ReplacesWhatItKnows ==
  [][ Replaces =>
        /\ Target = own["server"].expected \/ seen.blind
        /\ ses.keeps /\ Target # NoText /\ ~seen.touched =>
             [of |-> Target, holds |-> Target] \in backups ]_vars

(* A draft is saved only as it was when it was last reviewed: edits made   *)
(* since, and a draft that was resumed, need a review of their own.        *)
SavedWasReviewed ==
  [][ Replaces /\ dir # NoDir => ses.draft = seen.reviewed ]_vars

(* Between two requests a draft with unsaved edits is in its recovery,     *)
(* whole and up to date: this is what a crash then leaves.                 *)
RecoveryIsCurrent ==
  Running /\ ses.dirty /\ ~seen.raced
    /\ (\A t \in Threads : Idle(t)) => ses.rid # NoRec /\ recs[ses.rid] # NoDir /\ Current(ses.rid)

(* Whatever a crash leaves behind, a recovery that resume_session accepts is *)
(* a draft the editor really had, with the number of edits it had then:    *)
(* never the draft of one edit with the sidecar of another.                *)
NoTornResume ==
  \A r \in RecIds : ~seen.raced /\ Resumable(r) =>
    [sha |-> recs[r].draft, count |-> recs[r].side.count] \in seen.drafts

(* A session that ended as it was asked to has kept its unsaved edits or   *)
(* left no recovery, and nothing of it is left in the runtime directory.   *)
StopKeepsItsWord ==
  phase \in {"closed", "exited"} /\ ~seen.raced =>
    /\ dir = NoDir /\ ~listed
    /\ seen.asked = "discard" => \A t \in Threads, r \in RecIds :
                                   own[t].rid = r => recs[r] = NoDir
    /\ seen.asked # "discard" /\ ses.dirty => recs[ses.rid] # NoDir /\ Current(ses.rid)

(* "Crash-safe: persist after every mutation" (session.py): a crash at any *)
(* moment loses no more than the edit under way, the last one.             *)
CrashLosesOneEdit ==
  Running /\ ses.dirty /\ ses.count > 1 /\ Loads(ses.draft) /\ ~seen.raced =>
    \/ \E r \in RecIds : Resumable(r) /\ recs[r].side.count >= ses.count - 1
    \/ Target = TextOf(ses.draft)
=============================================================================
