----------------------------- MODULE CaseEditor -----------------------------
(***************************************************************************)
(* The page of one test case.  It copies the query detailFull into local    *)
(* fields whenever the query's data change, also while they are edited;     *)
(* Save sends a PATCH of the row and then, if the steps were changed, a PUT *)
(* of the steps; Cancel goes back to a snapshot and deletes the attachments *)
(* that are not in it.  A row, a list of steps and a list of files are      *)
(* known by number; what a version of the GETs holds is in rowAt, filesAt.  *)
(***************************************************************************)
EXTENDS QueryCache, Sequences

CONSTANTS
    Files,      \* attachments of the case, by id
    Attached,   \* those it has when the page is first opened
    Budgets     \* how often each kind of event may happen

Detail == "detailFull"

ASSUME EditorAssumption ==
    /\ Paths = {"case", "files", "steps"} /\ Queries = {Detail}
    /\ First = [q \in Queries |-> {"case", "files"}]
    /\ Then = [q \in Queries |-> {"steps"}]
    /\ Attached \subseteq Files
    /\ Budgets \subseteq [{"saves", "archives", "links", "xfers", "foreign", "faults", "visits"} -> Nat]

VARIABLES
    page,       \* mode and local fields; pending: the copying effect has still to run
    save,       \* handleSave: where it stands and what it closed over
    xfer,       \* one upload, or one deletion by hand, of an attachment
    side,       \* another mutation of the case: archive, or linking an issue or a dataset
    dels,       \* DELETEs that Cancel has sent
    rowAt,      \* which row each version of "case" shows (an issue link changes no row)
    filesAt,    \* which files each version of "files" lists
    hist,       \* history: see the properties
    left        \* what remains of the budget

editorVars == <<page, save, xfer, side, dels, rowAt, filesAt, hist, left>>
vars == <<cacheVars, editorVars>>

Blank == -1     \* the initial values of the fields
Typed == -2     \* what the user has typed and not yet saved

BlankSnapshot == [row |-> Blank, steps |-> Blank, files |-> {}]
Closed == [mode |-> "away", row |-> Blank, steps |-> Blank, sig |-> Blank, files |-> {},
           snap |-> BlankSnapshot, pending |-> FALSE]
NoSave == [pc |-> "idle", row |-> 0, ver |-> 0, changed |-> FALSE, steps |-> 0, files |-> {},
           mine |-> FALSE, awaits |-> FALSE]
NoXfer == [pc |-> "idle", erase |-> FALSE, file |-> {}, mine |-> FALSE]
NoSide == [pc |-> "idle", archive |-> FALSE, row |-> 0, ver |-> 0, mine |-> FALSE, awaits |-> FALSE]

Row    == rowAt[Len(rowAt)]
Stored == filesAt[Len(filesAt)]

EditorInit ==
    /\ CacheInit
    /\ page = Closed /\ save = NoSave /\ xfer = NoXfer /\ side = NoSide /\ dels = {}
    /\ rowAt = <<0>>
    /\ filesAt = <<Attached>>
    /\ hist = [kept |-> Attached, whole |-> FALSE, alone |-> TRUE, blanked |-> FALSE]
    /\ left \in Budgets

Spend(k) == left[k] > 0 /\ left' = [left EXCEPT ![k] = @ - 1]

\* isSaving belongs to the page that the save was clicked on: one that is opened
\* again while it goes on has the value of a new page.
IsSaving == save.pc # "idle" /\ save.mine

\* Bound: one handleSave at a time.  A page that was left during a save and opened
\* again could start another one beside it.
OneSave == save.pc = "idle"

\* The page re-renders when the query's data are not what they were.
Rerender ==
    page' = [page EXCEPT !.pending = @ \/ (page.mode # "away" /\ data'[Detail] # data[Detail])]

\* Nothing is shown but a spinner before the first load, or an error with "Retry".
\* Effects run before the next click is handled.
Ready == page.mode # "away" /\ HasData(Detail) /\ ~failed[Detail] /\ ~page.pending

-----------------------------------------------------------------------------
(* The page.  The mode is in the URL's hash: going back may lead to "edit". *)
OpenPage(m) ==
    /\ page.mode = "away"
    /\ Mount(Detail)
    /\ page' = [Closed EXCEPT !.mode = m, !.pending = HasData(Detail)]
    /\ hist' = [hist EXCEPT !.whole = FALSE, !.blanked = FALSE]

Open(m) == OpenPage(m) /\ Spend("visits") /\ UNCHANGED <<save, xfer, side, dels, rowAt, filesAt>>

\* What was started goes on, but its setters reach no component any more.
Leave ==
    /\ page.mode # "away"
    /\ Unmount(Detail)
    /\ page' = Closed
    /\ save' = [save EXCEPT !.mine = FALSE]
    /\ xfer' = [xfer EXCEPT !.mine = FALSE]
    /\ side' = [side EXCEPT !.mine = FALSE]
    /\ UNCHANGED <<dels, rowAt, filesAt, hist, left>>

\* syncQueryToState
Sync ==
    /\ page.mode # "away" /\ page.pending
    /\ page' = [page EXCEPT !.pending = FALSE,
                            !.row = rowAt[data[Detail]["case"] + 1],
                            !.steps = data[Detail]["steps"],
                            !.sig = data[Detail]["steps"],
                            !.files = filesAt[data[Detail]["files"] + 1]]
    /\ UNCHANGED <<cacheVars, save, xfer, side, dels, rowAt, filesAt, hist, left>>

Retry ==
    /\ page.mode # "away" /\ failed[Detail]
    /\ Refetch(Detail)
    /\ save' = [save EXCEPT !.awaits = FALSE]
    /\ side' = [side EXCEPT !.awaits = FALSE]
    /\ UNCHANGED <<page, xfer, dels, rowAt, filesAt, hist, left>>

EditStart ==
    /\ Ready /\ page.mode = "view"
    /\ page' = [page EXCEPT !.mode = "edit"]
    /\ UNCHANGED <<cacheVars, save, xfer, side, dels, rowAt, filesAt, hist, left>>

\* The inputs stay enabled while a save is under way.
TypeRow ==
    /\ Ready /\ page.mode = "edit" /\ page.row # Typed
    /\ page' = [page EXCEPT !.row = Typed]
    /\ UNCHANGED <<cacheVars, save, xfer, side, dels, rowAt, filesAt, hist, left>>

\* addStep, insertStepAfter, removeStep, updateStep, moveStep
TypeSteps ==
    /\ Ready /\ page.mode = "edit" /\ page.steps # Typed
    /\ page' = [page EXCEPT !.steps = Typed]
    /\ UNCHANGED <<cacheVars, save, xfer, side, dels, rowAt, filesAt, hist, left>>

\* The snapshot is the one of the last save on this page, or else that of the
\* render before the fields were first filled.
CancelEdit ==
    /\ Ready /\ page.mode = "edit" /\ ~IsSaving
    /\ dels' = dels \cup (page.files \ page.snap.files)
    /\ page' = [page EXCEPT !.mode = "view", !.row = page.snap.row, !.steps = page.snap.steps,
                            !.sig = page.snap.steps, !.files = page.snap.files]
    /\ hist' = [hist EXCEPT !.blanked = @ \/ page.snap = BlankSnapshot]
    /\ UNCHANGED <<cacheVars, save, xfer, side, rowAt, filesAt, left>>

-----------------------------------------------------------------------------
(* handleSave                                                               *)
ClickSave ==
    /\ Ready /\ page.mode = "edit" /\ ~IsSaving /\ OneSave
    /\ Spend("saves")
    /\ save' = [NoSave EXCEPT !.pc = "patch", !.changed = page.steps # page.sig,
                              !.steps = page.steps, !.files = page.files, !.mine = TRUE]
    /\ hist' = [hist EXCEPT !.alone = @ /\ side.pc = "idle" /\ fetch[Detail].state = "idle"
                                      /\ (clean[Detail] \/ page.steps # page.sig)]
    /\ UNCHANGED <<cacheVars, page, xfer, side, dels, rowAt, filesAt>>

WriteCase(row) == Write("case") /\ rowAt' = Append(rowAt, row)

ServePatch ==
    /\ save.pc = "patch"
    /\ WriteCase(Row + 1)
    /\ save' = [save EXCEPT !.pc = "patched", !.row = Row + 1, !.ver = server["case"] + 1]
    /\ UNCHANGED <<page, xfer, side, dels, filesAt, hist, left>>

\* onSuccess of usePatchTestCaseMutation
PatchAnswered ==
    /\ save.pc = "patched"
    /\ SetData(Detail, "case", save.ver)
    /\ Rerender
    /\ save' = [save EXCEPT !.pc = "acked"]
    /\ UNCHANGED <<xfer, side, dels, rowAt, filesAt, hist, left>>

SendPut ==
    /\ save.pc = "acked" /\ save.changed
    /\ save' = [save EXCEPT !.pc = "put"]
    /\ UNCHANGED <<cacheVars, page, xfer, side, dels, rowAt, filesAt, hist, left>>

ServePut ==
    /\ save.pc = "put"
    /\ Write("steps")
    /\ save' = [save EXCEPT !.pc = "stored", !.ver = server["steps"] + 1]
    /\ UNCHANGED <<page, xfer, side, dels, rowAt, filesAt, hist, left>>

\* Mutant: the steps that were sent are kept, not those that came back.
PutAnswered_KeepsSent ==
    /\ save.pc = "stored"
    /\ Invalidate(Detail, "steps", save.ver)
    /\ save' = [save EXCEPT !.pc = "refetching", !.awaits = active[Detail]]
    /\ side' = [side EXCEPT !.awaits = FALSE]
    /\ UNCHANGED <<page, xfer, dels, rowAt, filesAt, hist, left>>

\* onSuccess of useReplaceTestCaseStepsMutation.  The keys detail and detailFull
\* both match: the second refetch joins every GET of the first, so they are one.
PutAnswered ==
    /\ save.pc = "stored"
    /\ Invalidate(Detail, "steps", save.ver)
    /\ save' = [save EXCEPT !.pc = "refetching", !.steps = save.ver,
                            !.awaits = active[Detail]]
    /\ side' = [side EXCEPT !.awaits = FALSE]
    /\ UNCHANGED <<page, xfer, dels, rowAt, filesAt, hist, left>>

\* Mutant: the save waits until the query has fresh data.
Finish_AwaitsFresh ==
    /\ save.pc \in {"acked", "refetching"} /\ (save.changed => save.pc = "refetching")
    /\ fetch[Detail].state = "idle" /\ ~failed[Detail]
    /\ save' = NoSave
    /\ page' = [page EXCEPT !.mode = IF save.mine THEN "view" ELSE @]
    /\ UNCHANGED <<cacheVars, xfer, side, dels, rowAt, filesAt, hist, left>>

\* The setters, the new snapshot, and setMode("view") with the location of the
\* click: who has left the page is taken back to it.
Finish ==
    /\ \/ save.pc = "acked" /\ ~save.changed
       \/ save.pc = "refetching" /\ (save.awaits => fetch[Detail].state = "idle")
    /\ save' = NoSave
    /\ \/ /\ save.mine
          /\ page' = [page EXCEPT !.mode = "view", !.row = save.row, !.steps = save.steps,
                                  !.sig = IF save.changed THEN save.steps ELSE @,
                                  !.snap = [row |-> save.row, steps |-> save.steps,
                                            files |-> save.files]]
          /\ hist' = [hist EXCEPT !.kept = save.files, !.whole = TRUE]
          /\ UNCHANGED cacheVars
       \/ /\ ~save.mine /\ page.mode # "away"
          /\ page' = [page EXCEPT !.mode = "view"]
          /\ UNCHANGED <<cacheVars, hist>>
       \/ ~save.mine /\ OpenPage("view")
    /\ UNCHANGED <<xfer, side, dels, rowAt, filesAt, left>>

\* A request is refused, or its answer is lost after it has been carried out.
SaveFails ==
    /\ save.pc \in {"patch", "patched", "put", "stored"}
    /\ Spend("faults")
    /\ save' = NoSave
    /\ hist' = [hist EXCEPT !.alone = @ /\ save.pc = "patch"]
    /\ UNCHANGED <<cacheVars, page, xfer, side, dels, rowAt, filesAt>>

-----------------------------------------------------------------------------
(* Attachments: the lists are kept in local state, no query is invalidated. *)
Upload(f) ==
    /\ Ready /\ page.mode = "edit" /\ xfer.pc = "idle"
    /\ \A i \in DOMAIN filesAt : f \notin filesAt[i]
    /\ Spend("xfers")
    /\ xfer' = [NoXfer EXCEPT !.pc = "sent", !.file = {f}, !.mine = TRUE]
    /\ UNCHANGED <<cacheVars, page, save, side, dels, rowAt, filesAt, hist>>

Erase(f) ==
    /\ Ready /\ page.mode = "edit" /\ xfer.pc = "idle" /\ f \in page.files
    /\ Spend("xfers")
    /\ xfer' = [NoXfer EXCEPT !.pc = "sent", !.erase = TRUE, !.file = {f}, !.mine = TRUE]
    /\ UNCHANGED <<cacheVars, page, save, side, dels, rowAt, filesAt, hist>>

StoreFiles(F) == Write("files") /\ filesAt' = Append(filesAt, F)

ServeXfer ==
    /\ xfer.pc = "sent"
    /\ \/ /\ ~xfer.erase
          /\ StoreFiles(Stored \cup xfer.file)
          /\ xfer' = [xfer EXCEPT !.pc = "done"]
       \/ /\ xfer.erase /\ xfer.file \subseteq Stored
          /\ StoreFiles(Stored \ xfer.file)
          /\ xfer' = [xfer EXCEPT !.pc = "done"]
       \/ /\ xfer.erase /\ ~(xfer.file \subseteq Stored)
          /\ xfer' = NoXfer
          /\ UNCHANGED <<cacheVars, filesAt>>
    /\ UNCHANGED <<page, save, side, dels, rowAt, hist, left>>

XferAnswered ==
    /\ xfer.pc = "done"
    /\ xfer' = NoXfer
    /\ page' = IF ~xfer.mine THEN page
               ELSE [page EXCEPT !.files = IF xfer.erase THEN @ \ xfer.file ELSE @ \cup xfer.file]
    /\ UNCHANGED <<cacheVars, save, side, dels, rowAt, filesAt, hist, left>>

XferFails ==
    /\ xfer.pc # "idle"
    /\ Spend("faults")
    /\ xfer' = NoXfer
    /\ UNCHANGED <<cacheVars, page, save, side, dels, rowAt, filesAt, hist>>

\* A DELETE of Cancel; nobody waits for it.
ServeDelete(f) ==
    /\ f \in dels
    /\ dels' = dels \ {f}
    /\ IF f \in Stored THEN StoreFiles(Stored \ {f}) ELSE UNCHANGED <<cacheVars, filesAt>>
    /\ UNCHANGED <<page, save, xfer, side, rowAt, hist, left>>

DeleteFails(f) ==
    /\ f \in dels
    /\ Spend("faults")
    /\ dels' = dels \ {f}
    /\ UNCHANGED <<cacheVars, page, save, xfer, side, rowAt, filesAt, hist>>

-----------------------------------------------------------------------------
(* Other mutations: handleArchive from the menu of the view mode, linking   *)
(* an issue or binding a dataset in both modes.  All invalidate detailFull. *)
ClickSide(archive) ==
    /\ Ready /\ side.pc = "idle" /\ (archive => page.mode = "view")
    /\ Spend(IF archive THEN "archives" ELSE "links")
    /\ side' = [NoSide EXCEPT !.pc = "sent", !.archive = archive, !.mine = TRUE]
    /\ hist' = [hist EXCEPT !.alone = @ /\ save.pc = "idle"]
    /\ UNCHANGED <<cacheVars, page, save, xfer, dels, rowAt, filesAt>>

ServeSide ==
    /\ side.pc = "sent"
    /\ LET row == IF side.archive THEN Row + 1 ELSE Row
       IN  /\ WriteCase(row)
           /\ side' = [side EXCEPT !.pc = "done", !.row = row, !.ver = server["case"] + 1]
    /\ UNCHANGED <<page, save, xfer, dels, filesAt, hist, left>>

SideAnswered ==
    /\ side.pc = "done"
    /\ Invalidate(Detail, "case", side.ver)
    /\ side' = [side EXCEPT !.pc = "refetching", !.awaits = active[Detail]]
    /\ save' = [save EXCEPT !.awaits = FALSE]
    /\ UNCHANGED <<page, xfer, dels, rowAt, filesAt, hist, left>>

\* Only the status is set: a field or a snapshot that was one row behind is so
\* no longer, any other stays what it is.
SideEnds ==
    /\ side.pc = "refetching" /\ (side.awaits => fetch[Detail].state = "idle")
    /\ side' = NoSide
    /\ page' = IF side.archive /\ side.mine
               THEN [page EXCEPT !.row = IF @ = side.row - 1 THEN side.row ELSE @,
                                 !.snap.row = IF @ = side.row - 1 THEN side.row ELSE @]
               ELSE page
    /\ UNCHANGED <<cacheVars, save, xfer, dels, rowAt, filesAt, hist, left>>

SideFails ==
    /\ side.pc \in {"sent", "done"}
    /\ Spend("faults")
    /\ side' = NoSide
    /\ hist' = [hist EXCEPT !.alone = @ /\ side.pc = "sent"]
    /\ UNCHANGED <<cacheVars, page, save, xfer, dels, rowAt, filesAt>>

\* Another user saves the row or the steps.
Foreign ==
    /\ Spend("foreign")
    /\ \/ WriteCase(Row + 1)
       \/ Write("steps") /\ UNCHANGED rowAt
    /\ hist' = [hist EXCEPT !.alone = FALSE]
    /\ UNCHANGED <<page, save, xfer, side, dels, filesAt>>

-----------------------------------------------------------------------------
Quietly == UNCHANGED <<save, xfer, side, dels, rowAt, filesAt, hist>>

NetworkStep(p) == (Serve(p) \/ Arrive(p) \/ ArriveFailed(p)) /\ Rerender /\ Quietly /\ UNCHANGED left
LoseGet(p) == Lose(p) /\ Rerender /\ Quietly /\ Spend("faults")
WakeUp == Wake(Detail) /\ Rerender /\ Quietly /\ UNCHANGED left
Forget == Collect(Detail) /\ Rerender /\ Quietly /\ UNCHANGED left

SaveStep ==
    \/ ServePatch \/ PatchAnswered \/ SendPut \/ ServePut \/ PutAnswered \/ Finish

EditorNext ==
    \/ \E m \in {"view", "edit"} : Open(m)
    \/ Leave \/ Sync \/ Retry \/ EditStart \/ TypeRow \/ TypeSteps \/ CancelEdit
    \/ ClickSave \/ SaveStep \/ SaveFails
    \/ \E f \in Files : Upload(f) \/ Erase(f) \/ ServeDelete(f) \/ DeleteFails(f)
    \/ ServeXfer \/ XferAnswered \/ XferFails
    \/ \E archive \in BOOLEAN : ClickSide(archive)
    \/ ServeSide \/ SideAnswered \/ SideEnds \/ SideFails
    \/ Foreign
    \/ \E p \in Paths : NetworkStep(p) \/ LoseGet(p)
    \/ WakeUp \/ Forget

\* The network answers, the event loop runs what is due, a retry's delay ends.
EditorFairness ==
    /\ \A p \in Paths : WF_vars(NetworkStep(p))
    /\ WF_vars(WakeUp) /\ WF_vars(Sync) /\ WF_vars(SaveStep)

EditorSpec == EditorInit /\ [][EditorNext]_vars /\ EditorFairness

-----------------------------------------------------------------------------
\* After a save that succeeded as a whole on this page, with nothing under way, no
\* write by somebody else and no two mutations at a time, the page shows in view
\* mode the row and the steps that the server has - whatever was typed meanwhile,
\* and in whichever order the answers, the setters and the copying effect ran.
\* Excepted are a Cancel before the first save, which blanks the fields, and a save
\* without new steps on a page that may show old ones: it makes these the snapshot,
\* and a later Cancel puts them back although the right ones have been shown since.
SavedViewShowsServer ==
    /\ page.mode = "view" /\ ~page.pending /\ save.pc = "idle" /\ side.pc = "idle"
    /\ fetch[Detail].state = "idle" /\ ~failed[Detail] /\ clean[Detail]
    /\ hist.whole /\ hist.alone /\ ~hist.blanked
    => page.row = Row /\ page.steps = server["steps"]

\* Cancelling the edit gives up what was edited, not what the case had: an attachment
\* that the case had before it was first opened, or that was on the page when the last
\* save was clicked, is not deleted by a Cancel.
CancelSparesSavedFiles == [][(dels' \ dels) \cap hist.kept = {}]_vars

\* handleSave always comes to its end (isSaving is reset and the buttons work
\* again): no request it waits for, and no refetch, waits for something else.
SaveEnds == save.pc # "idle" ~> save.pc = "idle"
=============================================================================
