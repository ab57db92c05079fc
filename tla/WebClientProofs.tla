-------------------------- MODULE WebClientProofs ---------------------------
(***************************************************************************)
(* The two pages of the web interface, one after the other, and then side   *)
(* by side.                                                                 *)
(*                                                                         *)
(* The page of a test case is a client of the query cache like any other:   *)
(* it implements the cache's specification, and so shows what it has itself  *)
(* saved.  What has to be known of the page is that a mutation announces to  *)
(* the cache a version that the server has.                                  *)
(* What it shows after a save follows from an invariant that says where each *)
(* of its fields comes from: the snapshot, the query's data, or the keyboard. *)
(*                                                                         *)
(* Filing of issues: run cases filed under one key have one issue; an issue  *)
(* without a link, and a second issue for the same cases, have a reason.     *)
(* For any number of clicks and run cases.  A transaction that is about to   *)
(* end has, for each case of its key, a row of its own or has found one, and *)
(* nobody else has a row that clashes.  So what is committed under a key is  *)
(* committed for all of its cases, and a second issue would clash with the   *)
(* first in each of them.  And two filings of one key that are under way     *)
(* together are known to be rivals: one that has none finds the links of     *)
(* whoever was before it.                                                    *)
(***************************************************************************)
EXTENDS WebClient, QueryCacheProofs

-----------------------------------------------------------------------------
(* THE PAGE OF A TEST CASE                                                  *)
SaveFields == {"pc", "row", "ver", "changed", "steps", "files", "mine", "awaits"}
SideFields == {"pc", "archive", "row", "ver", "mine", "awaits"}

\* An answer that has still to reach the cache carries a version the server has.
Answers ==
    /\ server \in [Paths -> Nat]
    /\ save = [f \in SaveFields |-> save[f]]
    /\ side = [f \in SideFields |-> side[f]]
    /\ save.pc = "patched" => save.ver \in 0..server["case"]
    /\ save.pc = "stored"  => save.ver \in 0..server["steps"]
    /\ side.pc = "done"    => side.ver \in 0..server["case"]

LEMMA OneQuery == Paths = {"case", "files", "steps"} /\ Queries = {Detail} /\ Detail \in Queries
                  /\ "case" \in Gets(Detail) /\ "steps" \in Gets(Detail)
BY EditorAssumption DEF Gets

\* What a step may do to the save and to the other mutation without announcing more.
SaveMoves ==
    \/ save' = save
    \/ save' = NoSave
    \/ save' = [save EXCEPT !.pc = "acked"]
    \/ save' = [save EXCEPT !.pc = "put"]
    \/ \E s, w : save' = [save EXCEPT !.pc = "refetching", !.steps = s, !.awaits = w]
    \/ \E b : save' = [save EXCEPT !.mine = b]
    \/ \E b : save' = [save EXCEPT !.awaits = b]
    \/ \E c, s, F : save' = [NoSave EXCEPT !.pc = "patch", !.changed = c, !.steps = s,
                                           !.files = F, !.mine = TRUE]

SideMoves ==
    \/ side' = side
    \/ side' = NoSide
    \/ \E b : side' = [side EXCEPT !.pc = "refetching", !.awaits = b]
    \/ \E b : side' = [side EXCEPT !.mine = b]
    \/ \E b : side' = [side EXCEPT !.awaits = b]
    \/ \E b : side' = [NoSide EXCEPT !.pc = "sent", !.archive = b, !.mine = TRUE]

SaveKept ==
    /\ save' = [f \in SaveFields |-> save'[f]]
    /\ save'.pc \in {"patched", "stored"} => save'.pc = save.pc /\ save'.ver = save.ver

SideKept ==
    /\ side' = [f \in SideFields |-> side'[f]]
    /\ side'.pc = "done" => side'.pc = side.pc /\ side'.ver = side.ver

LEMMA SaveMovesKeep ==
    ASSUME save = [f \in SaveFields |-> save[f]], SaveMoves
    PROVE  SaveKept
<1>1. CASE save' = save
  BY <1>1 DEF SaveKept
<1>2. CASE save' = NoSave
  BY <1>2 DEF SaveKept, NoSave, SaveFields
<1>3. CASE save' = [save EXCEPT !.pc = "acked"]
  BY <1>3 DEF SaveKept, SaveFields
<1>4. CASE save' = [save EXCEPT !.pc = "put"]
  BY <1>4 DEF SaveKept, SaveFields
<1>5. ASSUME NEW s, NEW w, save' = [save EXCEPT !.pc = "refetching", !.steps = s, !.awaits = w]
      PROVE  SaveKept
  BY <1>5 DEF SaveKept, SaveFields
<1>6. ASSUME NEW b, save' = [save EXCEPT !.mine = b] PROVE SaveKept
  BY <1>6 DEF SaveKept, SaveFields
<1>7. ASSUME NEW b, save' = [save EXCEPT !.awaits = b] PROVE SaveKept
  BY <1>7 DEF SaveKept, SaveFields
<1>8. ASSUME NEW c, NEW s, NEW F,
             save' = [NoSave EXCEPT !.pc = "patch", !.changed = c, !.steps = s,
                                    !.files = F, !.mine = TRUE]
      PROVE  SaveKept
  BY <1>8 DEF SaveKept, SaveFields, NoSave
<1> QED BY <1>1, <1>2, <1>3, <1>4, <1>5, <1>6, <1>7, <1>8 DEF SaveMoves

LEMMA SideMovesKeep ==
    ASSUME side = [f \in SideFields |-> side[f]], SideMoves
    PROVE  SideKept
<1>1. CASE side' = side
  BY <1>1 DEF SideKept
<1>2. CASE side' = NoSide
  BY <1>2 DEF SideKept, NoSide, SideFields
<1>3. ASSUME NEW b, side' = [side EXCEPT !.pc = "refetching", !.awaits = b] PROVE SideKept
  BY <1>3 DEF SideKept, SideFields
<1>4. ASSUME NEW b, side' = [side EXCEPT !.mine = b] PROVE SideKept
  BY <1>4 DEF SideKept, SideFields
<1>5. ASSUME NEW b, side' = [side EXCEPT !.awaits = b] PROVE SideKept
  BY <1>5 DEF SideKept, SideFields
<1>6. ASSUME NEW b, side' = [NoSide EXCEPT !.pc = "sent", !.archive = b, !.mine = TRUE]
      PROVE  SideKept
  BY <1>6 DEF SideKept, SideFields, NoSide
<1> QED BY <1>1, <1>2, <1>3, <1>4, <1>5, <1>6 DEF SideMoves

LEMMA ServerGrows ==
    ASSUME Answers, server' = server \/ \E p \in Paths : Write(p)
    PROVE  /\ server' \in [Paths -> Nat]
           /\ \A p \in Paths : server[p] \in Nat /\ server'[p] \in Nat /\ server'[p] >= server[p]
<1>1. CASE server' = server
  BY <1>1 DEF Answers
<1>2. ASSUME NEW p \in Paths, Write(p)
      PROVE  /\ server' \in [Paths -> Nat]
             /\ \A x \in Paths : server[x] \in Nat /\ server'[x] \in Nat /\ server'[x] >= server[x]
  BY <1>2 DEF Answers, Write
<1> QED BY <1>1, <1>2

\* A step that announces nothing new keeps the invariant.
LEMMA Unannounced ==
    ASSUME Answers, SaveMoves, SideMoves, server' = server \/ \E p \in Paths : Write(p)
    PROVE  Answers'
<1>1. SaveKept /\ SideKept
  BY SaveMovesKeep, SideMovesKeep DEF Answers
<1>2. /\ server' \in [Paths -> Nat]
      /\ server["case"] \in Nat /\ server'["case"] \in Nat /\ server'["case"] >= server["case"]
      /\ server["steps"] \in Nat /\ server'["steps"] \in Nat /\ server'["steps"] >= server["steps"]
  BY ServerGrows, OneQuery
<1>3. save'.pc = "patched" => save'.ver \in 0..server'["case"]
  BY <1>1, <1>2 DEF SaveKept, Answers
<1>4. save'.pc = "stored" => save'.ver \in 0..server'["steps"]
  BY <1>1, <1>2 DEF SaveKept, Answers
<1>5. side'.pc = "done" => side'.ver \in 0..server'["case"]
  BY <1>1, <1>2 DEF SideKept, Answers
<1> QED BY <1>1, <1>2, <1>3, <1>4, <1>5 DEF Answers, SaveKept, SideKept

LEMMA CacheSteps ==
    /\ Mount(Detail) \/ Unmount(Detail) \/ Collect(Detail) \/ Refetch(Detail) \/ Wake(Detail)
           => CacheNext
    /\ \A p \in Paths : Write(p) \/ Network(p) => CacheNext
    /\ \A p \in Gets(Detail) : \A v \in 0..server[p] :
           Invalidate(Detail, p, v) \/ SetData(Detail, p, v) => CacheNext
BY OneQuery DEF CacheNext

Silent == SaveMoves /\ SideMoves /\ (server' = server \/ \E p \in Paths : Write(p))

\* One step per action.
LEMMA EditorStep ==
    ASSUME Answers, [EditorNext]_vars
    PROVE  Answers' /\ [CacheNext]_cacheVars
<1> USE OneQuery
<1> SUFFICES [CacheNext]_cacheVars /\ (Silent \/ Answers')
  BY Unannounced DEF Silent
<1>1. ASSUME NEW m \in {"view", "edit"}, Open(m) PROVE CacheNext /\ Silent
  BY <1>1, CacheSteps DEF Open, OpenPage, Mount, Silent, SaveMoves, SideMoves
<1>2. CASE Leave
  BY <1>2, CacheSteps DEF Leave, Unmount, Silent, SaveMoves, SideMoves
<1>3. CASE Sync \/ EditStart \/ TypeRow \/ TypeSteps \/ CancelEdit
  BY <1>3 DEF Sync, EditStart, TypeRow, TypeSteps, CancelEdit, cacheVars, Silent, SaveMoves, SideMoves
<1>4. CASE Retry
  BY <1>4, CacheSteps DEF Retry, Refetch, Silent, SaveMoves, SideMoves
<1>5. CASE ClickSave
  <2>1. PICK c : c = (page.steps # page.sig)
    OBVIOUS
  <2>2. save' = [NoSave EXCEPT !.pc = "patch", !.changed = c, !.steps = page.steps,
                               !.files = page.files, !.mine = TRUE]
    BY <1>5, <2>1 DEF ClickSave
  <2>3. SaveMoves
    BY <2>2 DEF SaveMoves
  <2> QED BY <1>5, <2>3 DEF ClickSave, cacheVars, Silent, SideMoves
<1>25. CASE SaveFails
  BY <1>25 DEF SaveFails, cacheVars, Silent, SaveMoves, SideMoves
<1>6. CASE ServePatch
  <2>1. Write("case") /\ side' = side
        /\ save' = [save EXCEPT !.pc = "patched", !.row = Row + 1, !.ver = server["case"] + 1]
    BY <1>6 DEF ServePatch, WriteCase
  <2>2. server' = [server EXCEPT !["case"] = @ + 1]
    BY <2>1 DEF Write
  <2>3. save' = [f \in SaveFields |-> save'[f]] /\ save'.pc = "patched"
        /\ save'.ver = server["case"] + 1
    BY <2>1 DEF Answers, SaveFields
  <2>4. Answers'
    <3>1. server' \in [Paths -> Nat]
          /\ \A p \in Paths : server[p] \in Nat /\ server'[p] \in Nat /\ server'[p] >= server[p]
      BY <2>1, ServerGrows
    <3>2. server'["case"] = server["case"] + 1
      BY <2>2 DEF Answers
    <3>3. save'.ver \in 0..server'["case"]
      BY <2>3, <3>1, <3>2
    <3>4. side' = [f \in SideFields |-> side'[f]]
      BY <2>1 DEF Answers
    <3>5. server'["case"] >= server["case"] /\ server'["steps"] >= server["steps"]
          /\ {server["case"], server'["case"], server["steps"], server'["steps"]} \subseteq Nat
      BY <3>1
    <3>6. side'.pc = "done" => side'.ver \in 0..server'["case"]
      BY <2>1, <3>5 DEF Answers
    <3> QED BY <2>3, <3>1, <3>3, <3>4, <3>6 DEF Answers
  <2> QED BY <2>1, <2>4, CacheSteps
<1>7. CASE PatchAnswered
  <2>1. SetData(Detail, "case", save.ver) /\ save.ver \in 0..server["case"]
    BY <1>7 DEF PatchAnswered, Answers
  <2>2. CacheNext
    BY <2>1, CacheSteps
  <2>3. Silent
    BY <1>7, <2>1 DEF PatchAnswered, SetData, Silent, SaveMoves, SideMoves
  <2> QED BY <2>2, <2>3
<1>8. CASE SendPut
  BY <1>8 DEF SendPut, cacheVars, Silent, SaveMoves, SideMoves
<1>9. CASE ServePut
  <2>1. Write("steps") /\ side' = side
        /\ save' = [save EXCEPT !.pc = "stored", !.ver = server["steps"] + 1]
    BY <1>9 DEF ServePut
  <2>2. server' = [server EXCEPT !["steps"] = @ + 1]
    BY <2>1 DEF Write
  <2>3. save' = [f \in SaveFields |-> save'[f]] /\ save'.pc = "stored"
        /\ save'.ver = server["steps"] + 1
    BY <2>1 DEF Answers, SaveFields
  <2>4. Answers'
    <3>1. server' \in [Paths -> Nat]
          /\ \A p \in Paths : server[p] \in Nat /\ server'[p] \in Nat /\ server'[p] >= server[p]
      BY <2>1, ServerGrows
    <3>2. server'["steps"] = server["steps"] + 1
      BY <2>2 DEF Answers
    <3>3. save'.ver \in 0..server'["steps"]
      BY <2>3, <3>1, <3>2
    <3>4. side' = [f \in SideFields |-> side'[f]]
      BY <2>1 DEF Answers
    <3>5. server'["case"] >= server["case"] /\ server'["steps"] >= server["steps"]
          /\ {server["case"], server'["case"], server["steps"], server'["steps"]} \subseteq Nat
      BY <3>1
    <3>6. side'.pc = "done" => side'.ver \in 0..server'["case"]
      BY <2>1, <3>5 DEF Answers
    <3> QED BY <2>3, <3>1, <3>3, <3>4, <3>6 DEF Answers
  <2> QED BY <2>1, <2>4, CacheSteps
<1>10. CASE PutAnswered
  <2>1. Invalidate(Detail, "steps", save.ver) /\ save.ver \in 0..server["steps"]
    BY <1>10 DEF PutAnswered, Answers
  <2>2. CacheNext
    BY <2>1, CacheSteps
  <2>3. Silent
    BY <1>10, <2>1 DEF PutAnswered, Invalidate, Silent, SaveMoves, SideMoves
  <2> QED BY <2>2, <2>3
<1>11. CASE Finish
  <2>1. save' = NoSave /\ side' = side
    BY <1>11 DEF Finish
  <2>2. UNCHANGED cacheVars \/ Mount(Detail)
    BY <1>11 DEF Finish, OpenPage
  <2>3. server' = server
    BY <2>2 DEF cacheVars, Mount
  <2> QED BY <2>1, <2>2, <2>3, CacheSteps DEF Silent, SaveMoves, SideMoves
<1>12. ASSUME NEW f \in Files, Upload(f) \/ Erase(f) \/ DeleteFails(f)
       PROVE  UNCHANGED cacheVars /\ Silent
  BY <1>12 DEF Upload, Erase, DeleteFails, cacheVars, Silent, SaveMoves, SideMoves
<1>13. ASSUME NEW f \in Files, ServeDelete(f) PROVE [CacheNext]_cacheVars /\ Silent
  <2>1. save' = save /\ side' = side /\ (Write("files") \/ UNCHANGED cacheVars)
    BY <1>13 DEF ServeDelete, StoreFiles
  <2> QED BY <2>1, CacheSteps DEF cacheVars, Silent, SaveMoves, SideMoves
<1>14. CASE ServeXfer
  <2>1. save' = save /\ side' = side /\ (Write("files") \/ UNCHANGED cacheVars)
    BY <1>14 DEF ServeXfer, StoreFiles
  <2> QED BY <2>1, CacheSteps DEF cacheVars, Silent, SaveMoves, SideMoves
<1>15. CASE XferAnswered \/ XferFails
  BY <1>15 DEF XferAnswered, XferFails, cacheVars, Silent, SaveMoves, SideMoves
<1>16. ASSUME NEW archive \in BOOLEAN, ClickSide(archive) PROVE UNCHANGED cacheVars /\ Silent
  BY <1>16 DEF ClickSide, cacheVars, Silent, SaveMoves, SideMoves
<1>17. CASE ServeSide
  <2>1. Write("case") /\ save' = save
        /\ \E row : side' = [side EXCEPT !.pc = "done", !.row = row, !.ver = server["case"] + 1]
    BY <1>17 DEF ServeSide, WriteCase
  <2>2. server' = [server EXCEPT !["case"] = @ + 1]
    BY <2>1 DEF Write
  <2>3. side' = [f \in SideFields |-> side'[f]] /\ side'.pc = "done"
        /\ side'.ver = server["case"] + 1
    BY <2>1 DEF Answers, SideFields
  <2>4. Answers'
    <3>1. server' \in [Paths -> Nat]
          /\ \A p \in Paths : server[p] \in Nat /\ server'[p] \in Nat /\ server'[p] >= server[p]
      BY <2>1, ServerGrows
    <3>2. server'["case"] = server["case"] + 1
      BY <2>2 DEF Answers
    <3>3. side'.ver \in 0..server'["case"]
      BY <2>3, <3>1, <3>2
    <3>4. save' = [f \in SaveFields |-> save'[f]]
      BY <2>1 DEF Answers
    <3>5. server'["case"] >= server["case"] /\ server'["steps"] >= server["steps"]
          /\ {server["case"], server'["case"], server["steps"], server'["steps"]} \subseteq Nat
      BY <3>1
    <3>6. save'.pc = "patched" => save'.ver \in 0..server'["case"]
      BY <2>1, <3>5 DEF Answers
    <3>7. save'.pc = "stored" => save'.ver \in 0..server'["steps"]
      BY <2>1, <3>5 DEF Answers
    <3> QED BY <2>3, <3>1, <3>3, <3>4, <3>6, <3>7 DEF Answers
  <2> QED BY <2>1, <2>4, CacheSteps
<1>18. CASE SideAnswered
  <2>1. Invalidate(Detail, "case", side.ver) /\ side.ver \in 0..server["case"]
    BY <1>18 DEF SideAnswered, Answers
  <2>2. CacheNext
    BY <2>1, CacheSteps
  <2>3. Silent
    BY <1>18, <2>1 DEF SideAnswered, Invalidate, Silent, SaveMoves, SideMoves
  <2> QED BY <2>2, <2>3
<1>19. CASE SideEnds \/ SideFails
  BY <1>19 DEF SideEnds, SideFails, cacheVars, Silent, SaveMoves, SideMoves
<1>20. CASE Foreign
  <2>1. save' = save /\ side' = side /\ (Write("case") \/ Write("steps"))
    BY <1>20 DEF Foreign, WriteCase
  <2> QED BY <2>1, CacheSteps DEF Silent, SaveMoves, SideMoves
<1>21. ASSUME NEW p \in Paths, NetworkStep(p) \/ LoseGet(p) PROVE CacheNext /\ Silent
  <2>1. Network(p) /\ save' = save /\ side' = side
    BY <1>21 DEF NetworkStep, LoseGet, Network, Quietly
  <2>2. server' = server
    BY <2>1 DEF Network, Serve, Lose, Arrive, ArriveFailed
  <2> QED BY <2>1, <2>2, CacheSteps DEF Silent, SaveMoves, SideMoves
<1>22. CASE WakeUp
  BY <1>22, CacheSteps DEF WakeUp, Quietly, Wake, Silent, SaveMoves, SideMoves
<1>23. CASE Forget
  BY <1>23, CacheSteps DEF Forget, Quietly, Collect, Silent, SaveMoves, SideMoves
<1>24. CASE UNCHANGED vars
  BY <1>24 DEF vars, cacheVars, editorVars, Silent, SaveMoves, SideMoves
<1> QED
  BY <1>1, <1>2, <1>3, <1>4, <1>5, <1>6, <1>7, <1>8, <1>9, <1>10, <1>11, <1>12, <1>13, <1>14,
     <1>15, <1>16, <1>17, <1>18, <1>19, <1>20, <1>21, <1>22, <1>23, <1>24, <1>25
  DEF EditorNext, SaveStep

LEMMA EditorStarts == EditorInit => CacheInit /\ Answers
<1> SUFFICES ASSUME EditorInit PROVE CacheInit /\ Answers
  OBVIOUS
<1>1. save = NoSave /\ side = NoSide /\ server = [p \in Paths |-> 0] /\ CacheInit
  BY DEF EditorInit, CacheInit
<1>2. save = [f \in SaveFields |-> save[f]] /\ save.pc = "idle"
  BY <1>1 DEF NoSave, SaveFields
<1>3. side = [f \in SideFields |-> side[f]] /\ side.pc = "idle"
  BY <1>1 DEF NoSide, SideFields
<1> QED BY <1>1, <1>2, <1>3 DEF Answers

\* Whatever the page of a test case does to its queries is one of the cache's own steps.
LEMMA EditorUsesTheCache == EditorSpec => CacheSpec
<1>1. Answers /\ [EditorNext]_vars => Answers' /\ [CacheNext]_cacheVars
  BY EditorStep
<1> QED BY <1>1, EditorStarts, PTL DEF EditorSpec, CacheSpec

\* The page of a test case shows what it has saved, once nothing is fetched and
\* unless a GET was on its way when the cache was told.
THEOREM EditorReadsOwnWrites == EditorSpec => []ReadsOwnWrites
BY EditorUsesTheCache, PageReadsOwnWrites

-----------------------------------------------------------------------------
(* What the page and the history are made of                                *)
PageFields == {"mode", "row", "steps", "sig", "files", "snap", "pending"}
SnapFields == {"row", "steps", "files"}
HistFields == {"kept", "whole", "alone", "blanked"}

Shaped ==
    /\ page = [f \in PageFields |-> page[f]]
    /\ page.snap = [f \in SnapFields |-> page.snap[f]]
    /\ hist = [f \in HistFields |-> hist[f]]

\* What most steps may do to the page and the history.
PageMoves ==
    \/ page' = page
    \/ \E b : page' = [page EXCEPT !.pending = b]
    \/ \E m : page' = [page EXCEPT !.mode = m]
    \/ \E r : page' = [page EXCEPT !.row = r]
    \/ \E s : page' = [page EXCEPT !.steps = s]
    \/ \E F : page' = [page EXCEPT !.files = F]
    \/ \E r, s, g, F : page' = [page EXCEPT !.pending = FALSE, !.row = r, !.steps = s,
                                            !.sig = g, !.files = F]
    \/ \E r, s, g, F : page' = [page EXCEPT !.mode = "view", !.row = r,
                                                        !.steps = s, !.sig = g, !.files = F]
    \/ \E r, q : page' = [page EXCEPT !.row = r, !.snap.row = q]

HistMoves ==
    \/ hist' = hist
    \/ \E b : hist' = [hist EXCEPT !.alone = b]
    \/ \E b : hist' = [hist EXCEPT !.blanked = b]

PageShaped ==
    /\ page' = [f \in PageFields |-> page'[f]]
    /\ page'.snap = [f \in SnapFields |-> page'.snap[f]]

LEMMA PageMovesKeep ==
    ASSUME Shaped, PageMoves
    PROVE  PageShaped
<1> USE DEF Shaped
<1>1. CASE page' = page
  BY <1>1 DEF PageShaped
<1>2. ASSUME NEW b, page' = [page EXCEPT !.pending = b] PROVE PageShaped
  BY <1>2 DEF PageShaped, PageFields
<1>3. ASSUME NEW m, page' = [page EXCEPT !.mode = m] PROVE PageShaped
  BY <1>3 DEF PageShaped, PageFields
<1>4. ASSUME NEW r, page' = [page EXCEPT !.row = r] PROVE PageShaped
  BY <1>4 DEF PageShaped, PageFields
<1>5. ASSUME NEW s, page' = [page EXCEPT !.steps = s] PROVE PageShaped
  BY <1>5 DEF PageShaped, PageFields
<1>6. ASSUME NEW F, page' = [page EXCEPT !.files = F] PROVE PageShaped
  BY <1>6 DEF PageShaped, PageFields
<1>7. ASSUME NEW r, NEW s, NEW g, NEW F,
             page' = [page EXCEPT !.pending = FALSE, !.row = r, !.steps = s, !.sig = g, !.files = F]
      PROVE  PageShaped
  BY <1>7 DEF PageShaped, PageFields
<1>8. ASSUME NEW r, NEW s, NEW g, NEW F,
             page' = [page EXCEPT !.mode = "view", !.row = r, !.steps = s, !.sig = g, !.files = F]
      PROVE  PageShaped
  BY <1>8 DEF PageShaped, PageFields
<1>9. ASSUME NEW r, NEW q, page' = [page EXCEPT !.row = r, !.snap.row = q] PROVE PageShaped
  <2>1. PICK s : s = [page.snap EXCEPT !.row = q]
    OBVIOUS
  <2>2. s = [f \in SnapFields |-> s[f]]
    BY <2>1 DEF SnapFields
  <2>3. page' = [page EXCEPT !.row = r, !.snap = s]
    BY <1>9, <2>1 DEF PageFields
  <2>4. page' = [f \in PageFields |-> page'[f]] /\ page'.snap = s
    BY <2>3 DEF PageFields
  <2> QED BY <2>2, <2>4 DEF PageShaped
<1>10. CASE \/ \E b : page' = [page EXCEPT !.pending = b]
            \/ \E m : page' = [page EXCEPT !.mode = m]
            \/ \E r : page' = [page EXCEPT !.row = r]
            \/ \E s : page' = [page EXCEPT !.steps = s]
            \/ \E F : page' = [page EXCEPT !.files = F]
  BY <1>2, <1>3, <1>4, <1>5, <1>6, <1>10, Zenon
<1>11. CASE \E r, s, g, F : page' = [page EXCEPT !.pending = FALSE, !.row = r, !.steps = s,
                                                 !.sig = g, !.files = F]
  BY <1>7, <1>11, Zenon
<1>12. CASE \E r, s, g, F :
               page' = [page EXCEPT !.mode = "view", !.row = r, !.steps = s, !.sig = g, !.files = F]
  <2>1. PICK r, s, g, F : page' = [page EXCEPT !.mode = "view", !.row = r, !.steps = s,
                                              !.sig = g, !.files = F]
    BY <1>12, Zenon
  <2> QED BY <1>8, <1>12, <2>1
<1>13. CASE \E r, q : page' = [page EXCEPT !.row = r, !.snap.row = q]
  BY <1>9, <1>13, Zenon
<1> QED BY <1>1, <1>10, <1>11, <1>12, <1>13, Zenon DEF PageMoves

LEMMA HistMovesKeep ==
    ASSUME Shaped, HistMoves
    PROVE  hist' = [f \in HistFields |-> hist'[f]]
BY DEF Shaped, HistMoves, HistFields

LEMMA MovesKeepShape ==
    ASSUME Shaped, PageMoves, HistMoves
    PROVE  Shaped'
<1>1. PageShaped /\ hist' = [f \in HistFields |-> hist'[f]]
  BY PageMovesKeep, HistMovesKeep
<1> QED BY <1>1 DEF Shaped, PageShaped

LEMMA RerenderMoves == Rerender => PageMoves
<1> SUFFICES ASSUME Rerender PROVE PageMoves
  OBVIOUS
<1>1. PICK b : b = (page.pending \/ (page.mode # "away" /\ data'[Detail] # data[Detail]))
  OBVIOUS
<1>2. page' = [page EXCEPT !.pending = b]
  BY <1>1 DEF Rerender
<1> QED BY <1>2 DEF PageMoves

LEMMA OpeningStep ==
    ASSUME Shaped, NEW m, OpenPage(m)
    PROVE  Shaped'
<1>1. PICK b : b = HasData(Detail)
  OBVIOUS
<1>2. page' = [Closed EXCEPT !.mode = m, !.pending = b]
  BY <1>1 DEF OpenPage
<1>3. page' = [f \in PageFields |-> page'[f]] /\ page'.snap = [f \in SnapFields |-> page'.snap[f]]
  BY <1>2 DEF Closed, BlankSnapshot, PageFields, SnapFields
<1>4. hist' = [f \in HistFields |-> hist'[f]]
  BY DEF OpenPage, Shaped, HistFields
<1> QED BY <1>3, <1>4 DEF Shaped

LEMMA CancelStep ==
    ASSUME Shaped, CancelEdit
    PROVE  Shaped'
<1>1. PageMoves
  <2>1. \E r, s, g, F :
            page' = [page EXCEPT !.mode = "view", !.row = r, !.steps = s, !.sig = g, !.files = F]
    BY DEF CancelEdit
  <2> QED BY <2>1 DEF PageMoves
<1>2. HistMoves
  <2>1. PICK b : b = (hist.blanked \/ page.snap = BlankSnapshot)
    OBVIOUS
  <2>2. hist' = [hist EXCEPT !.blanked = b]
    BY <2>1 DEF CancelEdit
  <2> QED BY <2>2 DEF HistMoves
<1> QED BY <1>1, <1>2, MovesKeepShape

LEMMA FinishStep ==
    ASSUME Shaped, Finish
    PROVE  Shaped'
<1>2. CASE save.mine
  <2>1. PICK x : x = [row |-> save.row, steps |-> save.steps, files |-> save.files]
    OBVIOUS
  <2>6. x = [f \in SnapFields |-> x[f]]
    BY <2>1 DEF SnapFields
  <2>2. PICK g : g = IF save.changed THEN save.steps ELSE page.sig
    OBVIOUS
  <2>3. page' = [page EXCEPT !.mode = "view", !.row = save.row, !.steps = save.steps,
                             !.sig = g, !.snap = x]
    BY <1>2, <2>1, <2>2 DEF Finish, Shaped, PageFields
  <2>4. page' = [f \in PageFields |-> page'[f]] /\ page'.snap = x
    BY <2>3 DEF Shaped, PageFields
  <2>5. hist' = [f \in HistFields |-> hist'[f]]
    BY <1>2 DEF Finish, Shaped, HistFields
  <2> QED BY <2>4, <2>5, <2>6 DEF Shaped
<1>3. CASE page' = [page EXCEPT !.mode = "view"] /\ hist' = hist
  BY <1>3, MovesKeepShape DEF PageMoves, HistMoves
<1>4. CASE OpenPage("view")
  BY <1>4, OpeningStep
<1> QED BY <1>2, <1>3, <1>4 DEF Finish

\* One step per action.
LEMMA ShapeStep ==
    ASSUME Shaped, [EditorNext]_vars
    PROVE  Shaped'
<1> USE DEF PageMoves, HistMoves
<1>1. ASSUME NEW m \in {"view", "edit"}, Open(m) PROVE Shaped'
  BY <1>1, OpeningStep DEF Open
<1>2. CASE Leave
  <2>1. page' = Closed /\ hist' = hist
    BY <1>2 DEF Leave
  <2>2. page' = [f \in PageFields |-> page'[f]] /\ page'.snap = [f \in SnapFields |-> page'.snap[f]]
    BY <2>1 DEF Closed, BlankSnapshot, PageFields, SnapFields
  <2> QED BY <2>1, <2>2 DEF Shaped
<1>3. CASE Sync
  <2>1. /\ hist' = hist
        /\ \E r, s, g, F : page' = [page EXCEPT !.pending = FALSE, !.row = r, !.steps = s,
                                                !.sig = g, !.files = F]
    BY <1>3 DEF Sync
  <2>2. PageMoves /\ HistMoves
    BY <2>1
  <2> QED BY <2>2, MovesKeepShape
<1>23. CASE Retry \/ TypeRow \/ TypeSteps
  BY <1>23, MovesKeepShape DEF Retry, TypeRow, TypeSteps
<1>4. CASE EditStart
  BY <1>4, MovesKeepShape DEF EditStart, Ready
<1>5. CASE CancelEdit
  BY <1>5, CancelStep
<1>6. CASE ClickSave
  <2>1. PICK b : b = (hist.alone /\ side.pc = "idle" /\ fetch[Detail].state = "idle"
                      /\ (clean[Detail] \/ page.steps # page.sig))
    OBVIOUS
  <2>2. hist' = [hist EXCEPT !.alone = b] /\ page' = page
    BY <1>6, <2>1 DEF ClickSave
  <2> QED BY <2>2, MovesKeepShape
<1>7. CASE ServePatch \/ SendPut \/ ServePut \/ PutAnswered
  BY <1>7, MovesKeepShape DEF ServePatch, SendPut, ServePut, PutAnswered
<1>8. CASE PatchAnswered
  <2>1. Rerender /\ hist' = hist
    BY <1>8 DEF PatchAnswered
  <2>2. PageMoves
    BY <2>1, RerenderMoves
  <2> QED BY <2>1, <2>2, MovesKeepShape
<1>9. CASE Finish
  BY <1>9, FinishStep
<1>10. CASE SaveFails
  <2>1. PICK b : b = (hist.alone /\ save.pc = "patch")
    OBVIOUS
  <2>2. hist' = [hist EXCEPT !.alone = b] /\ page' = page
    BY <1>10, <2>1 DEF SaveFails
  <2> QED BY <2>2, MovesKeepShape
<1>11. ASSUME NEW f \in Files, Upload(f) \/ Erase(f) \/ ServeDelete(f) \/ DeleteFails(f) PROVE Shaped'
  BY <1>11, MovesKeepShape DEF Upload, Erase, ServeDelete, DeleteFails
<1>12. CASE ServeXfer \/ XferFails
  BY <1>12, MovesKeepShape DEF ServeXfer, XferFails
<1>13. CASE XferAnswered
  <2>1. PICK F : F = IF xfer.erase THEN page.files \ xfer.file ELSE page.files \cup xfer.file
    OBVIOUS
  <2>2. page' = page \/ page' = [page EXCEPT !.files = F]
    BY <1>13, <2>1 DEF XferAnswered, Shaped, PageFields
  <2> QED BY <1>13, <2>2, MovesKeepShape DEF XferAnswered
<1>14. ASSUME NEW archive \in BOOLEAN, ClickSide(archive) PROVE Shaped'
  <2>1. PICK b : b = (hist.alone /\ save.pc = "idle")
    OBVIOUS
  <2>2. hist' = [hist EXCEPT !.alone = b] /\ page' = page
    BY <1>14, <2>1 DEF ClickSide
  <2> QED BY <2>2, MovesKeepShape
<1>15. CASE ServeSide \/ SideAnswered
  BY <1>15, MovesKeepShape DEF ServeSide, SideAnswered
<1>16. CASE SideEnds
  <2>1. PICK r : r = IF page.row = side.row - 1 THEN side.row ELSE page.row
    OBVIOUS
  <2>2. PICK q : q = IF page.snap.row = side.row - 1 THEN side.row ELSE page.snap.row
    OBVIOUS
  <2>3. page' = page \/ page' = [page EXCEPT !.row = r, !.snap.row = q]
    BY <1>16, <2>1, <2>2 DEF SideEnds, Shaped, PageFields, SnapFields
  <2> QED BY <1>16, <2>3, MovesKeepShape DEF SideEnds
<1>17. CASE SideFails
  <2>1. PICK b : b = (hist.alone /\ side.pc = "sent")
    OBVIOUS
  <2>2. hist' = [hist EXCEPT !.alone = b] /\ page' = page
    BY <1>17, <2>1 DEF SideFails
  <2> QED BY <2>2, MovesKeepShape
<1>18. CASE Foreign
  BY <1>18, MovesKeepShape DEF Foreign
<1>19. ASSUME Rerender, Quietly PROVE Shaped'
  <2>1. PageMoves
    BY <1>19, RerenderMoves
  <2> QED BY <1>19, <2>1, MovesKeepShape DEF Quietly
<1>20. CASE UNCHANGED vars
  BY <1>20, MovesKeepShape DEF vars, editorVars
<1>21. ASSUME NEW p \in Paths, NetworkStep(p) \/ LoseGet(p) PROVE Shaped'
  BY <1>19, <1>21 DEF NetworkStep, LoseGet
<1>22. CASE WakeUp \/ Forget
  BY <1>19, <1>22 DEF WakeUp, Forget
<1> QED
  BY <1>1, <1>2, <1>3, <1>4, <1>5, <1>6, <1>7, <1>8, <1>9, <1>10, <1>11, <1>12, <1>13, <1>14,
     <1>15, <1>16, <1>17, <1>18, <1>20, <1>21, <1>22, <1>23
  DEF EditorNext, SaveStep

LEMMA ShapeStarts == EditorInit => Shaped
<1> SUFFICES ASSUME EditorInit PROVE Shaped
  OBVIOUS
<1>1. page = Closed /\ hist = [kept |-> Attached, whole |-> FALSE, alone |-> TRUE, blanked |-> FALSE]
  BY DEF EditorInit
<1>2. page = [f \in PageFields |-> page[f]] /\ page.snap = BlankSnapshot /\ page.mode = "away"
  BY <1>1 DEF Closed, PageFields
<1>3. BlankSnapshot = [f \in SnapFields |-> BlankSnapshot[f]]
  BY DEF BlankSnapshot, SnapFields
<1>4. hist = [f \in HistFields |-> hist[f]]
  BY <1>1 DEF HistFields
<1> QED BY <1>2, <1>3, <1>4 DEF Shaped

-----------------------------------------------------------------------------
(* What the page shows after a save                                         *)
RowOf(v) == rowAt[v + 1]

\* What is true of the page however it is used: whose the save is, what the page
\* has to show, and where the row of an archived case comes from.
Owned ==
    /\ rowAt \in Seq(Nat) /\ Len(rowAt) = server["case"] + 1
    /\ page.mode \in {"away", "view", "edit"} /\ page.pending \in BOOLEAN
    /\ hist.whole \in BOOLEAN /\ hist.alone \in BOOLEAN /\ hist.blanked \in BOOLEAN
    /\ save.mine \in BOOLEAN /\ save.changed \in BOOLEAN
    /\ side.mine \in BOOLEAN /\ side.archive \in BOOLEAN
    /\ active[Detail] = (page.mode # "away")
    /\ save.mine => save.pc # "idle" /\ page.mode # "away" /\ HasData(Detail)
    /\ save.pc \in {"put", "stored", "refetching"} => save.changed
    /\ side.pc \in {"done", "refetching"} /\ side.archive => side.row \in Nat \ {0}
    /\ page.mode # "away" =>
          IF hist.whole THEN HasData(Detail) /\ (save.pc # "idle" => save.mine)
                        ELSE page.snap = BlankSnapshot

\* While the mutations come one at a time and nobody else writes, what is under way
\* accounts for every difference between the server and what the cache was told.
Alone ==
    hist.alone =>
        /\ save.pc = "idle" \/ side.pc = "idle"
        /\ save.pc # "patched" /\ side.pc # "done" => told[Detail]["case"] = server["case"]
        /\ save.pc = "patched" => save.ver = server["case"]
        /\ side.pc = "done" => side.ver = server["case"]
        /\ save.pc # "stored" => told[Detail]["steps"] = server["steps"]
        /\ save.pc = "stored" => save.ver = server["steps"]
        /\ save.pc \in {"patched", "acked", "put", "stored", "refetching"} => save.row = Row
        /\ save.pc = "refetching" => save.steps = server["steps"]
        /\ side.pc \in {"done", "refetching"} /\ side.archive => side.row = Row
        /\ hist.whole /\ page.mode # "away" /\ side.pc # "idle" => side.mine

Archived == side.archive /\ side.pc \in {"done", "refetching"}

\* The snapshot is what the server has, but for what the save or the archiving under
\* way has still to put into it.
Snapped ==
    hist.alone /\ ~hist.blanked /\ page.mode # "away" =>
        /\ save.mine /\ ~save.changed => save.steps = server["steps"]
        /\ hist.whole /\ save.pc \in {"idle", "patch"} =>
              page.snap.row = IF Archived THEN Row - 1 ELSE Row
        /\ hist.whole /\ save.pc \notin {"stored", "refetching"} => page.snap.steps = server["steps"]

\* What nobody has typed is either in the snapshot or in the query's data.
Untyped ==
    hist.alone /\ ~hist.blanked /\ page.mode # "away" /\ ~page.pending /\ HasData(Detail) =>
        /\ page.sig = data[Detail]["steps"] \/ (hist.whole /\ page.sig = page.snap.steps)
        /\ hist.whole /\ save.pc \in {"idle", "patch"} =>
              /\ \/ page.row = page.snap.row
                 \/ page.row = RowOf(data[Detail]["case"])
                 \/ page.row = Typed /\ page.mode = "edit"
              /\ \/ page.steps = page.snap.steps
                 \/ page.steps = data[Detail]["steps"]
                 \/ page.steps = Typed /\ page.mode = "edit"

SaveIInv == Owned /\ Alone /\ Snapped /\ Untyped
Context  == Answers /\ Shaped /\ ReadInv

-----------------------------------------------------------------------------
LEMMA DetailFacts ==
    ASSUME ReadInv
    PROVE  /\ server["case"] \in Nat /\ server["steps"] \in Nat
           /\ told[Detail]["case"] \in Nat /\ told[Detail]["steps"] \in Nat
           /\ data[Detail]["case"] <= server["case"] /\ data[Detail]["steps"] <= server["steps"]
           /\ HasData(Detail) => data[Detail]["case"] \in Nat /\ data[Detail]["steps"] \in Nat
<1>1. CacheTypeOK /\ Known
  BY DEF ReadInv, CacheIInv
<1> QED BY <1>1, OneQuery DEF CacheTypeOK, Known, Versions, HasData

\* Settled and clean, the query holds what the server has.
LEMMA ShownIsServer ==
    ASSUME Context, Owned, Alone, hist.alone, page.mode # "away",
           save.pc \notin {"patched", "stored"}, side.pc # "done",
           fetch[Detail].state = "idle", HasData(Detail), clean[Detail]
    PROVE  data[Detail]["case"] = server["case"] /\ data[Detail]["steps"] = server["steps"]
<1>1. \A p \in Gets(Detail) : data[Detail][p] >= told[Detail][p]
  BY OneQuery DEF Context, ReadInv, CacheIInv, Fresh, Owned
<1>2. told[Detail]["case"] = server["case"] /\ told[Detail]["steps"] = server["steps"]
  BY DEF Alone
<1> QED BY <1>1, <1>2, OneQuery, DetailFacts DEF Context

\* What the invariant says of what every step but a few leaves as it is.
SamePage ==
    /\ page'.mode = page.mode /\ page'.row = page.row /\ page'.steps = page.steps
    /\ page'.sig = page.sig /\ page'.snap = page.snap /\ page'.pending = page.pending
SameSave ==
    /\ save'.pc = save.pc /\ save'.row = save.row /\ save'.ver = save.ver
    /\ save'.changed = save.changed /\ save'.steps = save.steps /\ save'.mine = save.mine
SameSide ==
    /\ side'.pc = side.pc /\ side'.archive = side.archive /\ side'.row = side.row
    /\ side'.ver = side.ver /\ side'.mine = side.mine
SameServer ==
    /\ server'["case"] = server["case"] /\ server'["steps"] = server["steps"] /\ rowAt' = rowAt
    /\ told'[Detail] = told[Detail]
SameQuery == data'[Detail] = data[Detail] /\ active'[Detail] = active[Detail]

LEMMA SameKeeps ==
    ASSUME SaveIInv, SamePage, SameSave, SameSide, SameServer, SameQuery, hist' = hist
    PROVE  SaveIInv'
<1> USE DEF SamePage, SameSave, SameSide, SameServer, SameQuery, SaveIInv
<1>1. HasData(Detail)' <=> HasData(Detail)
  BY DEF HasData, Gets
<1>2. Row' = Row /\ Archived' = Archived /\ RowOf(data[Detail]["case"])' = RowOf(data[Detail]["case"])
  BY DEF Row, Archived, RowOf
<1>3. Owned'
  BY <1>1 DEF Owned
<1>4. Alone'
  BY <1>2 DEF Alone
<1>5. Snapped'
  BY <1>2 DEF Snapped
<1>6. Untyped'
  BY <1>1, <1>2 DEF Untyped
<1> QED BY <1>3, <1>4, <1>5, <1>6

-----------------------------------------------------------------------------
(* The page alone                                                           *)
LEMMA OpeningKeeps ==
    ASSUME Context, SaveIInv, NEW m \in {"view", "edit"}, OpenPage(m),
           SameSave \/ (save' = NoSave /\ ~save.mine /\ save.pc \notin {"patched", "stored"}),
           SameSide, UNCHANGED rowAt
    PROVE  SaveIInv'
<1>1. /\ page.mode = "away" /\ active'[Detail] = TRUE
      /\ UNCHANGED <<server, data, told>>
  BY OneQuery DEF OpenPage, Mount, Context, ReadInv, CacheIInv, CacheTypeOK
<1>2. HasData(Detail)' <=> HasData(Detail)
  BY <1>1 DEF HasData, Gets
<1>3. PICK b \in BOOLEAN : b = HasData(Detail)
  BY DEF HasData
<1>4. page' = [Closed EXCEPT !.mode = m, !.pending = b]
  BY <1>3 DEF OpenPage
<1>5. page'.mode = m /\ page'.pending = b /\ page'.snap = BlankSnapshot
  BY <1>4 DEF Closed
<1>6. ~hist'.whole /\ hist'.whole \in BOOLEAN /\ ~hist'.blanked /\ hist'.blanked \in BOOLEAN
      /\ hist'.alone = hist.alone
  BY DEF OpenPage, Context, Shaped, HistFields
<1>7. /\ ~save.mine /\ ~save'.mine /\ save'.mine \in BOOLEAN /\ save'.changed \in BOOLEAN
      /\ SameSave \/ (save'.pc = "idle" /\ save.pc \notin {"patched", "stored"})
  <2>1. ~save.mine /\ save.mine \in BOOLEAN /\ save.changed \in BOOLEAN
    BY <1>1 DEF SaveIInv, Owned
  <2>2. CASE SameSave
    BY <2>1, <2>2 DEF SameSave
  <2>3. CASE save' = NoSave /\ save.pc \notin {"patched", "stored"}
    BY <2>1, <2>3 DEF NoSave
  <2> QED BY <2>2, <2>3
<1>8. Row' = Row
  BY DEF Row
<1>9. Owned'
  BY <1>1, <1>2, <1>5, <1>6, <1>7 DEF SaveIInv, Owned, SameSave, SameSide
<1>10. Alone'
  <2>1. CASE SameSave
    BY <1>1, <1>6, <1>8, <2>1 DEF SaveIInv, Alone, SameSave, SameSide
  <2>2. CASE save'.pc = "idle" /\ save.pc \notin {"patched", "stored"}
    BY <1>1, <1>6, <1>8, <2>2 DEF SaveIInv, Alone, SameSide
  <2> QED BY <1>7, <2>1, <2>2
<1>11. Snapped'
  BY <1>6, <1>7 DEF Snapped
<1>12. Untyped'
  BY <1>2, <1>3, <1>5 DEF Untyped
<1> QED BY <1>9, <1>10, <1>11, <1>12 DEF SaveIInv

LEMMA LeaveKeeps == ASSUME Context, SaveIInv, Leave PROVE SaveIInv'
<1>1. /\ page'.mode = "away" /\ page'.pending \in BOOLEAN
      /\ active'[Detail] = FALSE /\ UNCHANGED <<server, told, rowAt, hist>>
  BY OneQuery DEF Leave, Unmount, Closed, Context, ReadInv, CacheIInv, CacheTypeOK
<1>2. /\ save'.pc = save.pc /\ save'.row = save.row /\ save'.ver = save.ver
      /\ save'.changed = save.changed /\ save'.steps = save.steps /\ save'.mine = FALSE
  BY DEF Leave, Context, Answers, SaveFields
<1>3. /\ side'.pc = side.pc /\ side'.archive = side.archive /\ side'.row = side.row
      /\ side'.ver = side.ver /\ side'.mine = FALSE
  BY DEF Leave, Context, Answers, SideFields
<1>4. Row' = Row
  BY <1>1 DEF Row
<1>5. Owned'
  BY <1>1, <1>2, <1>3 DEF SaveIInv, Owned
<1>6. Alone'
  BY <1>1, <1>2, <1>3, <1>4 DEF SaveIInv, Alone
<1> QED BY <1>1, <1>5, <1>6 DEF SaveIInv, Snapped, Untyped

\* What the user and the copying effect do to the fields.
LEMMA FieldsKeep ==
    ASSUME Context, SaveIInv, Sync \/ EditStart \/ TypeRow \/ TypeSteps
    PROVE  SaveIInv'
<1>1. UNCHANGED <<server, told, data, active, rowAt, hist, save, side>>
  BY DEF Sync, EditStart, TypeRow, TypeSteps, cacheVars
<1>2. HasData(Detail)' <=> HasData(Detail)
  BY <1>1 DEF HasData, Gets
<1>3. Row' = Row /\ Archived' = Archived /\ RowOf(data[Detail]["case"])' = RowOf(data[Detail]["case"])
  BY <1>1 DEF Row, Archived, RowOf
<1>4. /\ page'.snap = page.snap /\ page.mode # "away" /\ page'.pending \in BOOLEAN
      /\ page'.mode # "away" /\ page'.mode \in {"view", "edit"}
  BY DEF Sync, EditStart, TypeRow, TypeSteps, Ready, Context, Shaped, PageFields, SaveIInv, Owned
<1>5. Owned'
  BY <1>1, <1>2, <1>4 DEF SaveIInv, Owned
<1>6. Alone'
  BY <1>1, <1>3, <1>4 DEF SaveIInv, Alone
<1>7. Snapped'
  BY <1>1, <1>3, <1>4 DEF SaveIInv, Snapped
<1>8. Untyped'
  <2>1. CASE Sync
    <3>1. page'.row = RowOf(data[Detail]["case"]) /\ page'.steps = data[Detail]["steps"]
          /\ page'.sig = data[Detail]["steps"]
      BY <2>1 DEF Sync, RowOf, Context, Shaped, PageFields
    <3> QED BY <1>1, <1>3, <3>1 DEF Untyped
  <2>2. CASE EditStart \/ TypeRow \/ TypeSteps
    <3>1. /\ page'.mode = "edit" /\ page'.sig = page.sig /\ ~page.pending
          /\ page'.row \in {page.row, Typed} /\ page'.steps \in {page.steps, Typed}
      BY <2>2 DEF EditStart, TypeRow, TypeSteps, Ready, Context, Shaped, PageFields
    <3> QED BY <1>1, <1>2, <1>3, <1>4, <3>1 DEF SaveIInv, Untyped
  <2> QED BY <2>1, <2>2
<1> QED BY <1>5, <1>6, <1>7, <1>8 DEF SaveIInv

LEMMA CancelKeeps == ASSUME Context, SaveIInv, CancelEdit PROVE SaveIInv'
<1>1. UNCHANGED <<server, told, data, active, rowAt, save, side>>
  BY DEF CancelEdit, cacheVars
<1>2. HasData(Detail)' <=> HasData(Detail)
  BY <1>1 DEF HasData, Gets
<1>3. Row' = Row /\ Archived' = Archived /\ RowOf(data[Detail]["case"])' = RowOf(data[Detail]["case"])
  BY <1>1 DEF Row, Archived, RowOf
<1>4. /\ page'.snap = page.snap /\ page'.pending = page.pending /\ page'.mode = "view"
      /\ page'.row = page.snap.row /\ page'.steps = page.snap.steps /\ page'.sig = page.snap.steps
  BY DEF CancelEdit, Context, Shaped, PageFields
<1>5. PICK b \in BOOLEAN : b = (hist.blanked \/ page.snap = BlankSnapshot)
  BY DEF SaveIInv, Owned
<1>6. hist' = [hist EXCEPT !.blanked = b]
  BY <1>5 DEF CancelEdit
<1>7. hist'.whole = hist.whole /\ hist'.alone = hist.alone /\ hist'.blanked = b
  BY <1>6 DEF Context, Shaped, HistFields
<1>8. page.mode = "edit" /\ (~b => ~hist.blanked /\ hist.whole /\ save.pc = "idle")
  BY <1>5 DEF CancelEdit, IsSaving, SaveIInv, Owned
<1>9. Owned'
  BY <1>1, <1>2, <1>4, <1>7, <1>8 DEF SaveIInv, Owned
<1>10. Alone'
  BY <1>1, <1>3, <1>4, <1>7, <1>8 DEF SaveIInv, Alone
<1>11. Snapped'
  BY <1>1, <1>3, <1>4, <1>7, <1>8 DEF SaveIInv, Snapped
<1>12. Untyped'
  BY <1>1, <1>3, <1>4, <1>7, <1>8 DEF Untyped
<1> QED BY <1>9, <1>10, <1>11, <1>12 DEF SaveIInv

-----------------------------------------------------------------------------
(* handleSave                                                               *)
LEMMA RerenderFacts ==
    ASSUME Context, Owned, Rerender
    PROVE  /\ page'.mode = page.mode /\ page'.row = page.row /\ page'.steps = page.steps
           /\ page'.sig = page.sig /\ page'.snap = page.snap /\ page'.pending \in BOOLEAN
           /\ ~page'.pending =>
                 ~page.pending /\ (page.mode # "away" => data'[Detail] = data[Detail])
<1>1. PICK b \in BOOLEAN : b = (page.pending \/ (page.mode # "away" /\ data'[Detail] # data[Detail]))
  BY DEF Owned
<1>2. page' = [page EXCEPT !.pending = b]
  BY <1>1 DEF Rerender
<1> QED BY <1>1, <1>2 DEF Context, Shaped, PageFields

LEMMA RerenderKeeps ==
    ASSUME Context, SaveIInv, Rerender, SameSave, SameSide, SameServer, hist' = hist,
           active'[Detail] = active[Detail], KeepsData(Detail)
    PROVE  SaveIInv'
<1> USE DEF SameSave, SameSide, SameServer, SaveIInv
<1>1. Row' = Row /\ Archived' = Archived
  BY DEF Row, Archived
<1>2. page.mode # "away" /\ HasData(Detail) => HasData(Detail)'
  BY DEF KeepsData, Owned
<1>3. Owned'
  BY <1>2, RerenderFacts DEF Owned
<1>4. Alone'
  BY <1>1, RerenderFacts DEF Alone
<1>5. Snapped'
  BY <1>1, RerenderFacts DEF Snapped
<1>6. Untyped'
  <2> SUFFICES ASSUME page'.mode # "away", ~page'.pending, HasData(Detail)'
               PROVE  Untyped'
    BY DEF Untyped
  <2>1. ~page.pending /\ page.mode # "away" /\ data'[Detail] = data[Detail]
    BY RerenderFacts
  <2>2. HasData(Detail) /\ RowOf(data[Detail]["case"])' = RowOf(data[Detail]["case"])
    BY <2>1 DEF HasData, Gets, RowOf
  <2> QED BY <2>1, <2>2, RerenderFacts DEF Untyped
<1> QED BY <1>3, <1>4, <1>5, <1>6

LEMMA ClickSaveKeeps == ASSUME Context, SaveIInv, ClickSave PROVE SaveIInv'
<1>1. UNCHANGED <<server, told, data, active, rowAt, page, side>>
  BY DEF ClickSave, cacheVars
<1>2. /\ page.mode = "edit" /\ save.pc = "idle" /\ HasData(Detail) /\ ~page.pending
      /\ ~failed[Detail]
  BY DEF ClickSave, OneSave, Ready
<1>3. HasData(Detail)' <=> HasData(Detail)
  BY <1>1 DEF HasData, Gets
<1>4. Row' = Row /\ Archived' = Archived /\ RowOf(data[Detail]["case"])' = RowOf(data[Detail]["case"])
  BY <1>1 DEF Row, Archived, RowOf
<1>5. PICK c \in BOOLEAN : c = (page.steps # page.sig)
  OBVIOUS
<1>6. save' = [NoSave EXCEPT !.pc = "patch", !.changed = c, !.steps = page.steps,
                             !.files = page.files, !.mine = TRUE]
  BY <1>5 DEF ClickSave
<1>7. save'.pc = "patch" /\ save'.changed = c /\ save'.steps = page.steps /\ save'.mine = TRUE
  BY <1>6 DEF NoSave
<1>8. PICK b \in BOOLEAN : b = (hist.alone /\ side.pc = "idle" /\ fetch[Detail].state = "idle"
                                 /\ (clean[Detail] \/ page.steps # page.sig))
  BY DEF SaveIInv, Owned
<1>9. hist' = [hist EXCEPT !.alone = b]
  BY <1>8 DEF ClickSave
<1>10. hist'.whole = hist.whole /\ hist'.blanked = hist.blanked /\ hist'.alone = b
  BY <1>9 DEF Context, Shaped, HistFields
<1>11. b => hist.alone /\ side.pc = "idle" /\ fetch[Detail].state = "idle" /\ (clean[Detail] \/ c)
  BY <1>5, <1>8
<1>12. Owned'
  BY <1>1, <1>2, <1>3, <1>7, <1>10 DEF SaveIInv, Owned
<1>13. Alone'
  BY <1>1, <1>2, <1>4, <1>7, <1>10, <1>11 DEF SaveIInv, Alone
<1>14. Snapped'
  <2>1. ASSUME b, ~hist.blanked, ~c PROVE page.steps = server["steps"]
    <3>1. data[Detail]["steps"] = server["steps"]
      BY <1>2, <1>11, <2>1, ShownIsServer DEF SaveIInv
    <3>2. page.steps = page.sig
      BY <1>5, <2>1
    <3> QED BY <1>2, <1>11, <2>1, <3>1, <3>2 DEF SaveIInv, Untyped, Snapped
  <2> QED BY <1>1, <1>2, <1>4, <1>7, <1>10, <1>11, <2>1 DEF SaveIInv, Snapped
<1>15. Untyped'
  BY <1>1, <1>2, <1>3, <1>4, <1>7, <1>10, <1>11 DEF SaveIInv, Untyped
<1> QED BY <1>12, <1>13, <1>14, <1>15 DEF SaveIInv

\* Somebody writes the row.
LEMMA WriteCaseFacts ==
    ASSUME Context, Owned, NEW r \in Nat, WriteCase(r)
    PROVE  /\ server'["case"] = server["case"] + 1 /\ server'["steps"] = server["steps"]
           /\ UNCHANGED <<data, active, told>>
           /\ rowAt' \in Seq(Nat) /\ Len(rowAt') = server'["case"] + 1
           /\ Row' = r /\ Row \in Nat
           /\ HasData(Detail) => RowOf(data[Detail]["case"])' = RowOf(data[Detail]["case"])
           /\ HasData(Detail)' <=> HasData(Detail)
<1>1. /\ server'["case"] = server["case"] + 1 /\ server'["steps"] = server["steps"]
      /\ UNCHANGED <<data, active, told>> /\ rowAt' = Append(rowAt, r)
      /\ rowAt \in Seq(Nat) /\ Len(rowAt) = server["case"] + 1 /\ server["case"] \in Nat
  BY OneQuery DEF WriteCase, Write, Context, ReadInv, CacheIInv, CacheTypeOK, Owned
<1>2. /\ rowAt' \in Seq(Nat) /\ Len(rowAt') = Len(rowAt) + 1 /\ rowAt'[Len(rowAt) + 1] = r
      /\ \A i \in 1..Len(rowAt) : rowAt'[i] = rowAt[i] /\ rowAt[i] \in Nat
  BY <1>1
<1>3. Row' = r /\ Row \in Nat
  BY <1>1, <1>2 DEF Row
<1>4. HasData(Detail) => data[Detail]["case"] + 1 \in 1..Len(rowAt)
  BY <1>1, DetailFacts DEF Context
<1>5. HasData(Detail) => RowOf(data[Detail]["case"])' = RowOf(data[Detail]["case"])
  BY <1>1, <1>2, <1>4 DEF RowOf
<1> QED BY <1>1, <1>2, <1>3, <1>5 DEF HasData, Gets

LEMMA RowIsNat == ASSUME Context, Owned PROVE Row \in Nat
BY DetailFacts DEF Context, Owned, Row

LEMMA ServePatchKeeps == ASSUME Context, SaveIInv, ServePatch PROVE SaveIInv'
<1>1. Row + 1 \in Nat /\ WriteCase(Row + 1) /\ UNCHANGED <<page, side, hist>>
  BY RowIsNat DEF SaveIInv, ServePatch
<1>2. /\ save.pc = "patch"
      /\ save' = [save EXCEPT !.pc = "patched", !.row = Row + 1, !.ver = server["case"] + 1]
  BY DEF ServePatch
<1>3. /\ save'.pc = "patched" /\ save'.row = Row + 1 /\ save'.ver = server["case"] + 1
      /\ save'.changed = save.changed /\ save'.steps = save.steps /\ save'.mine = save.mine
  BY <1>2 DEF Context, Answers, SaveFields
<1>4. /\ server'["case"] = server["case"] + 1 /\ server'["steps"] = server["steps"]
      /\ UNCHANGED <<data, active, told>> /\ rowAt' \in Seq(Nat) /\ Len(rowAt') = server'["case"] + 1
      /\ Row' = Row + 1 /\ (HasData(Detail)' <=> HasData(Detail))
  BY <1>1, WriteCaseFacts DEF SaveIInv
<1>5. Owned'
  BY <1>1, <1>2, <1>3, <1>4 DEF SaveIInv, Owned
<1>6. Alone'
  BY <1>1, <1>2, <1>3, <1>4 DEF SaveIInv, Alone
<1>7. Snapped'
  BY <1>1, <1>2, <1>3, <1>4 DEF SaveIInv, Snapped
<1>8. Untyped'
  BY <1>1, <1>2, <1>3, <1>4 DEF SaveIInv, Untyped
<1> QED BY <1>5, <1>6, <1>7, <1>8 DEF SaveIInv

LEMMA PatchAnsweredKeeps ==
    ASSUME Context, SaveIInv, PatchAnswered, KeepsData(Detail)
    PROVE  SaveIInv'
<1>1. /\ save.pc = "patched" /\ SetData(Detail, "case", save.ver) /\ Rerender
      /\ UNCHANGED <<side, rowAt, hist>>
  BY DEF PatchAnswered
<1>2. /\ save'.pc = "acked" /\ save'.row = save.row /\ save'.ver = save.ver
      /\ save'.changed = save.changed /\ save'.steps = save.steps /\ save'.mine = save.mine
  BY DEF PatchAnswered, Context, Answers, SaveFields
<1>3. /\ UNCHANGED <<server, active>>
      /\ told'[Detail]["case"] = save.ver /\ told'[Detail]["steps"] = told[Detail]["steps"]
  BY <1>1, OneQuery DEF SetData, Context, ReadInv, CacheIInv, CacheTypeOK
<1>4. Row' = Row
  BY <1>1 DEF Row
<1>5. page.mode # "away" /\ HasData(Detail) => HasData(Detail)'
  BY DEF KeepsData, SaveIInv, Owned
<1>6. Owned'
  BY <1>1, <1>2, <1>3, <1>5, RerenderFacts DEF SaveIInv, Owned
<1>7. Alone'
  BY <1>1, <1>2, <1>3, <1>4, RerenderFacts DEF SaveIInv, Alone
<1>8. Snapped'
  BY <1>1, <1>2, <1>3, <1>4, RerenderFacts DEF SaveIInv, Snapped
<1>9. Untyped'
  <2> SUFFICES ASSUME page'.mode # "away", ~page'.pending, HasData(Detail)'
               PROVE  Untyped'
    BY DEF Untyped
  <2>1. ~page.pending /\ page.mode # "away" /\ data'[Detail] = data[Detail]
    BY <1>1, RerenderFacts DEF SaveIInv
  <2>2. HasData(Detail)
    BY <2>1 DEF HasData, Gets
  <2> QED BY <1>1, <1>2, <2>1, <2>2, RerenderFacts DEF SaveIInv, Untyped
<1> QED BY <1>6, <1>7, <1>8, <1>9 DEF SaveIInv

LEMMA SendPutKeeps == ASSUME Context, SaveIInv, SendPut PROVE SaveIInv'
<1>1. UNCHANGED <<server, told, data, active, rowAt, page, side, hist>>
  BY DEF SendPut, cacheVars
<1>2. save.pc = "acked" /\ save.changed
  BY DEF SendPut
<1>3. /\ save'.pc = "put" /\ save'.row = save.row /\ save'.ver = save.ver
      /\ save'.changed = save.changed /\ save'.steps = save.steps /\ save'.mine = save.mine
  BY DEF SendPut, Context, Answers, SaveFields
<1>4. HasData(Detail)' <=> HasData(Detail)
  BY <1>1 DEF HasData, Gets
<1>5. Row' = Row
  BY <1>1 DEF Row
<1>6. Owned'
  BY <1>1, <1>2, <1>3, <1>4 DEF SaveIInv, Owned
<1>7. Alone'
  BY <1>1, <1>2, <1>3, <1>5 DEF SaveIInv, Alone
<1>8. Snapped'
  BY <1>1, <1>2, <1>3, <1>5 DEF SaveIInv, Snapped
<1>9. Untyped'
  BY <1>1, <1>2, <1>3, <1>4 DEF SaveIInv, Untyped
<1> QED BY <1>6, <1>7, <1>8, <1>9 DEF SaveIInv

LEMMA ServePutKeeps == ASSUME Context, SaveIInv, ServePut PROVE SaveIInv'
<1>1. /\ server'["case"] = server["case"] /\ server'["steps"] = server["steps"] + 1
      /\ UNCHANGED <<told, data, active, rowAt, page, side, hist>>
  BY OneQuery DEF ServePut, Write, Context, ReadInv, CacheIInv, CacheTypeOK
<1>2. save.pc = "put" /\ save' = [save EXCEPT !.pc = "stored", !.ver = server["steps"] + 1]
  BY DEF ServePut
<1>3. /\ save'.pc = "stored" /\ save'.row = save.row /\ save'.ver = server["steps"] + 1
      /\ save'.changed = save.changed /\ save'.steps = save.steps /\ save'.mine = save.mine
  BY <1>2 DEF Context, Answers, SaveFields
<1>4. HasData(Detail)' <=> HasData(Detail)
  BY <1>1 DEF HasData, Gets
<1>5. Row' = Row
  BY <1>1 DEF Row
<1>6. Owned'
  BY <1>1, <1>2, <1>3, <1>4 DEF SaveIInv, Owned
<1>7. Alone'
  BY <1>1, <1>2, <1>3, <1>5 DEF SaveIInv, Alone
<1>8. Snapped'
  BY <1>1, <1>2, <1>3 DEF SaveIInv, Snapped, Owned
<1>9. Untyped'
  BY <1>1, <1>2, <1>3, <1>4 DEF SaveIInv, Untyped
<1> QED BY <1>6, <1>7, <1>8, <1>9 DEF SaveIInv

LEMMA PutAnsweredKeeps == ASSUME Context, SaveIInv, PutAnswered PROVE SaveIInv'
<1>1. save.pc = "stored" /\ Invalidate(Detail, "steps", save.ver)
      /\ UNCHANGED <<page, rowAt, hist>>
  BY DEF PutAnswered
<1>2. /\ UNCHANGED <<server, data, active>>
      /\ told'[Detail]["steps"] = save.ver /\ told'[Detail]["case"] = told[Detail]["case"]
  BY <1>1, OneQuery DEF Invalidate, Context, ReadInv, CacheIInv, CacheTypeOK
<1>3. /\ save'.pc = "refetching" /\ save'.row = save.row /\ save'.ver = save.ver
      /\ save'.changed = save.changed /\ save'.steps = save.ver /\ save'.mine = save.mine
  BY DEF PutAnswered, Context, Answers, SaveFields
<1>4. SameSide
  BY DEF PutAnswered, SameSide, Context, Answers, SideFields
<1>5. HasData(Detail)' <=> HasData(Detail)
  BY <1>2 DEF HasData, Gets
<1>6. Row' = Row
  BY <1>1 DEF Row
<1>7. Owned'
  BY <1>1, <1>2, <1>3, <1>4, <1>5 DEF SaveIInv, Owned, SameSide
<1>8. Alone'
  BY <1>1, <1>2, <1>3, <1>4, <1>6 DEF SaveIInv, Alone, SameSide
<1>9. Snapped'
  BY <1>1, <1>2, <1>3 DEF SaveIInv, Snapped, Owned
<1>10. Untyped'
  BY <1>1, <1>2, <1>3, <1>5 DEF SaveIInv, Untyped
<1> QED BY <1>7, <1>8, <1>9, <1>10 DEF SaveIInv

\* The setters and the new snapshot.
LEMMA OwnFinishKeeps == ASSUME Context, SaveIInv, Finish, save.mine PROVE SaveIInv'
<1>1. /\ UNCHANGED <<server, told, data, active, rowAt, side>> /\ save' = NoSave
      /\ \/ save.pc = "acked" /\ ~save.changed
         \/ save.pc = "refetching"
  BY DEF Finish, cacheVars
<1>2. HasData(Detail)' <=> HasData(Detail)
  BY <1>1 DEF HasData, Gets
<1>3. Row' = Row
  BY <1>1 DEF Row
<1>4. PICK x : x = [row |-> save.row, steps |-> save.steps, files |-> save.files]
  OBVIOUS
<1>5. PICK g : g = IF save.changed THEN save.steps ELSE page.sig
  OBVIOUS
<1>6. page' = [page EXCEPT !.mode = "view", !.row = save.row, !.steps = save.steps,
                           !.sig = g, !.snap = x]
  BY <1>4, <1>5 DEF Finish, Context, Shaped, PageFields
<1>7. /\ page'.mode = "view" /\ page'.row = save.row /\ page'.steps = save.steps
      /\ page'.sig = g /\ page'.snap = x /\ page'.pending = page.pending
  BY <1>6 DEF Context, Shaped, PageFields
<1>8. x.row = save.row /\ x.steps = save.steps
  BY <1>4
<1>9. hist'.whole = TRUE /\ hist'.alone = hist.alone /\ hist'.blanked = hist.blanked
  BY DEF Finish, Context, Shaped, HistFields
<1>10. save'.pc = "idle" /\ save'.mine = FALSE /\ save'.changed = FALSE
  BY <1>1 DEF NoSave
<1>11. page.mode # "away" /\ HasData(Detail)
  BY DEF SaveIInv, Owned
<1>12. ASSUME hist.alone
       PROVE  side.pc = "idle" /\ save.row = Row
  BY <1>1, <1>12 DEF SaveIInv, Alone
<1>13. ASSUME hist.alone, ~hist.blanked
       PROVE  save.steps = server["steps"]
  BY <1>1, <1>11, <1>13 DEF SaveIInv, Alone, Snapped
<1>14. Owned'
  BY <1>1, <1>2, <1>7, <1>9, <1>10, <1>11 DEF SaveIInv, Owned
<1>15. Alone'
  BY <1>1, <1>3, <1>7, <1>9, <1>10, <1>12 DEF SaveIInv, Alone
<1>16. Snapped'
  BY <1>1, <1>3, <1>7, <1>8, <1>9, <1>10, <1>12, <1>13 DEF Snapped, Archived
<1>17. Untyped'
  <2> SUFFICES ASSUME hist.alone, ~hist.blanked, ~page.pending
               PROVE  g = data[Detail]["steps"] \/ g = save.steps
    BY <1>1, <1>7, <1>8, <1>9 DEF Untyped
  <2>1. CASE save.changed
    BY <1>5, <2>1
  <2>2. CASE ~save.changed
    <3>1. save.pc = "acked" /\ g = page.sig
      BY <1>1, <1>5, <2>2 DEF SaveIInv, Owned
    <3> QED BY <1>11, <1>13, <3>1 DEF SaveIInv, Untyped, Snapped
  <2> QED BY <2>1, <2>2
<1> QED BY <1>14, <1>15, <1>16, <1>17 DEF SaveIInv

LEMMA FinishKeeps == ASSUME Context, SaveIInv, Finish PROVE SaveIInv'
<1>1. CASE save.mine
  BY <1>1, OwnFinishKeeps
<1>2. save' = NoSave /\ save.pc \in {"acked", "refetching"} /\ UNCHANGED <<rowAt, side>>
  BY DEF Finish
<1>3. CASE OpenPage("view") /\ ~save.mine
  BY <1>2, <1>3, OpeningKeeps DEF SameSide
<1>4. CASE ~save.mine /\ page.mode # "away" /\ page' = [page EXCEPT !.mode = "view"]
           /\ UNCHANGED <<cacheVars, hist>>
  <2>1. UNCHANGED <<server, told, data, active>>
    BY <1>4 DEF cacheVars
  <2>2. /\ page'.mode = "view" /\ page'.pending = page.pending /\ page'.snap = page.snap
        /\ page'.sig = page.sig
    BY <1>4 DEF Context, Shaped, PageFields
  <2>3. save'.pc = "idle" /\ save'.mine = FALSE /\ save'.changed = FALSE
    BY <1>2 DEF NoSave
  <2>4. ~hist.whole
    BY <1>2, <1>4 DEF SaveIInv, Owned
  <2>5. HasData(Detail)' <=> HasData(Detail)
    BY <2>1 DEF HasData, Gets
  <2>6. Row' = Row
    BY <1>2 DEF Row
  <2>7. Owned'
    BY <1>2, <1>4, <2>1, <2>2, <2>3, <2>4, <2>5 DEF SaveIInv, Owned
  <2>8. Alone'
    BY <1>2, <1>4, <2>1, <2>3, <2>4, <2>6 DEF SaveIInv, Alone
  <2>9. Snapped'
    BY <1>4, <2>3, <2>4 DEF Snapped
  <2>10. Untyped'
    BY <1>4, <2>1, <2>2, <2>4, <2>5 DEF SaveIInv, Untyped
  <2> QED BY <2>7, <2>8, <2>9, <2>10 DEF SaveIInv
<1> QED BY <1>1, <1>3, <1>4 DEF Finish

LEMMA SaveFailsKeeps == ASSUME Context, SaveIInv, SaveFails PROVE SaveIInv'
<1>1. UNCHANGED <<server, told, data, active, rowAt, page, side>> /\ save' = NoSave
      /\ save.pc \in {"patch", "patched", "put", "stored"}
  BY DEF SaveFails, cacheVars
<1>2. PICK b \in BOOLEAN : b = (hist.alone /\ save.pc = "patch")
  BY DEF SaveIInv, Owned
<1>3. hist' = [hist EXCEPT !.alone = b]
  BY <1>2 DEF SaveFails
<1>4. hist'.whole = hist.whole /\ hist'.blanked = hist.blanked /\ hist'.alone = b
  BY <1>3 DEF Context, Shaped, HistFields
<1>5. b => hist.alone /\ save.pc = "patch"
  BY <1>2
<1>6. save'.pc = "idle" /\ save'.mine = FALSE /\ save'.changed = FALSE
  BY <1>1 DEF NoSave
<1>7. HasData(Detail)' <=> HasData(Detail)
  BY <1>1 DEF HasData, Gets
<1>8. Row' = Row /\ Archived' = Archived /\ RowOf(data[Detail]["case"])' = RowOf(data[Detail]["case"])
  BY <1>1 DEF Row, Archived, RowOf
<1>9. Owned'
  BY <1>1, <1>4, <1>6, <1>7 DEF SaveIInv, Owned
<1>10. Alone'
  BY <1>1, <1>4, <1>5, <1>6, <1>8 DEF SaveIInv, Alone
<1>11. Snapped'
  BY <1>1, <1>4, <1>5, <1>6, <1>8 DEF SaveIInv, Snapped
<1>12. Untyped'
  BY <1>1, <1>4, <1>5, <1>6, <1>7, <1>8 DEF SaveIInv, Untyped
<1> QED BY <1>9, <1>10, <1>11, <1>12 DEF SaveIInv

-----------------------------------------------------------------------------
(* Other mutations, and other users                                         *)
LEMMA ClickSideKeeps ==
    ASSUME Context, SaveIInv, NEW archive \in BOOLEAN, ClickSide(archive)
    PROVE  SaveIInv'
<1>1. UNCHANGED <<server, told, data, active, rowAt, page, save>> /\ side.pc = "idle"
  BY DEF ClickSide, cacheVars
<1>2. /\ side'.pc = "sent" /\ side'.archive = archive /\ side'.mine = TRUE
  BY DEF ClickSide, NoSide
<1>3. PICK b \in BOOLEAN : b = (hist.alone /\ save.pc = "idle")
  BY DEF SaveIInv, Owned
<1>4. hist' = [hist EXCEPT !.alone = b]
  BY <1>3 DEF ClickSide
<1>5. hist'.whole = hist.whole /\ hist'.blanked = hist.blanked /\ hist'.alone = b
  BY <1>4 DEF Context, Shaped, HistFields
<1>6. b => hist.alone /\ save.pc = "idle"
  BY <1>3
<1>7. HasData(Detail)' <=> HasData(Detail)
  BY <1>1 DEF HasData, Gets
<1>8. Row' = Row /\ ~Archived /\ ~Archived'
      /\ RowOf(data[Detail]["case"])' = RowOf(data[Detail]["case"])
  BY <1>1, <1>2 DEF Row, Archived, RowOf
<1>9. Owned'
  BY <1>1, <1>2, <1>5, <1>7 DEF SaveIInv, Owned
<1>10. Alone'
  BY <1>1, <1>2, <1>5, <1>6, <1>8 DEF SaveIInv, Alone
<1>11. Snapped'
  BY <1>1, <1>5, <1>6, <1>8 DEF SaveIInv, Snapped
<1>12. Untyped'
  BY <1>1, <1>5, <1>6, <1>7, <1>8 DEF SaveIInv, Untyped
<1> QED BY <1>9, <1>10, <1>11, <1>12 DEF SaveIInv

LEMMA ServeSideKeeps == ASSUME Context, SaveIInv, ServeSide PROVE SaveIInv'
<1>1. PICK r : r = IF side.archive THEN Row + 1 ELSE Row
  OBVIOUS
<1>2. Row \in Nat /\ r \in Nat
  BY <1>1, RowIsNat DEF SaveIInv
<1>3. /\ WriteCase(r) /\ UNCHANGED <<page, save, hist>> /\ side.pc = "sent"
      /\ side' = [side EXCEPT !.pc = "done", !.row = r, !.ver = server["case"] + 1]
  BY <1>1 DEF ServeSide
<1>4. /\ side'.pc = "done" /\ side'.row = r /\ side'.ver = server["case"] + 1
      /\ side'.archive = side.archive /\ side'.mine = side.mine
  BY <1>3 DEF Context, Answers, SideFields
<1>5. /\ server'["case"] = server["case"] + 1 /\ server'["steps"] = server["steps"]
      /\ UNCHANGED <<data, active, told>> /\ rowAt' \in Seq(Nat) /\ Len(rowAt') = server'["case"] + 1
      /\ Row' = r /\ (HasData(Detail)' <=> HasData(Detail))
      /\ (HasData(Detail) => RowOf(data[Detail]["case"])' = RowOf(data[Detail]["case"]))
  BY <1>2, <1>3, WriteCaseFacts DEF SaveIInv
<1>6. ~Archived /\ (Archived' <=> side.archive)
  BY <1>3, <1>4 DEF Archived, SaveIInv, Owned
<1>7. Owned'
  BY <1>1, <1>2, <1>3, <1>4, <1>5 DEF SaveIInv, Owned
<1>8. Alone'
  BY <1>3, <1>4, <1>5 DEF SaveIInv, Alone
<1>9. Snapped'
  BY <1>1, <1>2, <1>3, <1>4, <1>5, <1>6 DEF SaveIInv, Snapped
<1>10. Untyped'
  BY <1>3, <1>4, <1>5 DEF SaveIInv, Untyped
<1> QED BY <1>7, <1>8, <1>9, <1>10 DEF SaveIInv

LEMMA SideAnsweredKeeps == ASSUME Context, SaveIInv, SideAnswered PROVE SaveIInv'
<1>1. side.pc = "done" /\ Invalidate(Detail, "case", side.ver) /\ UNCHANGED <<page, rowAt, hist>>
  BY DEF SideAnswered
<1>2. /\ UNCHANGED <<server, data, active>>
      /\ told'[Detail]["case"] = side.ver /\ told'[Detail]["steps"] = told[Detail]["steps"]
  BY <1>1, OneQuery DEF Invalidate, Context, ReadInv, CacheIInv, CacheTypeOK
<1>3. /\ side'.pc = "refetching" /\ side'.row = side.row /\ side'.ver = side.ver
      /\ side'.archive = side.archive /\ side'.mine = side.mine
  BY DEF SideAnswered, Context, Answers, SideFields
<1>4. SameSave
  BY DEF SideAnswered, SameSave, Context, Answers, SaveFields
<1>5. HasData(Detail)' <=> HasData(Detail)
  BY <1>2 DEF HasData, Gets
<1>6. Row' = Row /\ Archived' = Archived /\ RowOf(data[Detail]["case"])' = RowOf(data[Detail]["case"])
  BY <1>1, <1>2, <1>3 DEF Row, Archived, RowOf
<1>7. Owned'
  BY <1>1, <1>2, <1>3, <1>4, <1>5 DEF SaveIInv, Owned, SameSave
<1>8. Alone'
  BY <1>1, <1>2, <1>3, <1>4, <1>6 DEF SaveIInv, Alone, SameSave
<1>9. Snapped'
  BY <1>1, <1>2, <1>4, <1>6 DEF SaveIInv, Snapped, SameSave
<1>10. Untyped'
  BY <1>1, <1>2, <1>4, <1>5, <1>6 DEF SaveIInv, Untyped, SameSave
<1> QED BY <1>7, <1>8, <1>9, <1>10 DEF SaveIInv

\* The status of an archived case is set in the fields and in the snapshot.
LEMMA SideEndsKeeps == ASSUME Context, SaveIInv, SideEnds PROVE SaveIInv'
<1>1. /\ UNCHANGED <<server, told, data, active, rowAt, save, hist>> /\ side' = NoSide
      /\ side.pc = "refetching"
  BY DEF SideEnds, cacheVars
<1>2. /\ side'.pc = "idle" /\ side'.mine = FALSE /\ side'.archive = FALSE
  BY <1>1 DEF NoSide
<1>3. HasData(Detail)' <=> HasData(Detail)
  BY <1>1 DEF HasData, Gets
<1>4. Row' = Row /\ ~Archived' /\ (Archived <=> side.archive)
      /\ RowOf(data[Detail]["case"])' = RowOf(data[Detail]["case"])
  BY <1>1, <1>2 DEF Row, Archived, RowOf, SaveIInv, Owned
<1>5. CASE side.archive /\ side.mine
  <2>1. PICK r : r = IF page.row = side.row - 1 THEN side.row ELSE page.row
    OBVIOUS
  <2>2. PICK q : q = IF page.snap.row = side.row - 1 THEN side.row ELSE page.snap.row
    OBVIOUS
  <2>3. PICK x : x = [page.snap EXCEPT !.row = q]
    OBVIOUS
  <2>4. x.row = q /\ x.steps = page.snap.steps
    BY <2>3 DEF Context, Shaped, SnapFields
  <2>5. page' = [page EXCEPT !.row = r, !.snap = x]
    BY <1>5, <2>1, <2>2, <2>3 DEF SideEnds, Context, Shaped, PageFields, SnapFields
  <2>6. /\ page'.mode = page.mode /\ page'.row = r /\ page'.steps = page.steps
        /\ page'.sig = page.sig /\ page'.snap = x /\ page'.pending = page.pending
    BY <2>5 DEF Context, Shaped, PageFields
  <2>7. side.row \in Nat \ {0}
    BY <1>1, <1>5 DEF SaveIInv, Owned
  <2>8. page.mode # "away" /\ ~hist.whole => x = BlankSnapshot
    <3> SUFFICES ASSUME page.mode # "away", ~hist.whole PROVE x = BlankSnapshot
      OBVIOUS
    <3>1. page.snap = BlankSnapshot
      BY DEF SaveIInv, Owned
    <3>2. q = page.snap.row
      BY <2>2, <2>7, <3>1 DEF BlankSnapshot, Blank
    <3> QED BY <2>3, <3>1, <3>2 DEF BlankSnapshot
  <2>9. Owned'
    BY <1>1, <1>2, <1>3, <2>6, <2>8 DEF SaveIInv, Owned
  <2>10. Alone'
    BY <1>1, <1>2, <1>4, <2>6 DEF SaveIInv, Alone
  <2>11. hist.alone => side.row = Row /\ Row \in Nat
    BY <1>1, <1>5, RowIsNat DEF SaveIInv, Alone
  <2>12. Snapped'
    BY <1>1, <1>4, <1>5, <2>2, <2>4, <2>6, <2>11 DEF SaveIInv, Snapped
  <2>13. Untyped'
    <3> SUFFICES ASSUME hist.alone, ~hist.blanked, page.mode # "away", ~page.pending,
                        HasData(Detail)
                 PROVE  Untyped'
      BY <1>1, <1>3, <2>6 DEF Untyped
    <3>1. ASSUME hist.whole, save.pc \in {"idle", "patch"}
          PROVE  \/ r = q \/ r = RowOf(data[Detail]["case"])
                 \/ r = Typed /\ page.mode = "edit"
      <4>1. page.snap.row = Row - 1 /\ q = Row
        BY <1>4, <1>5, <2>2, <2>11, <3>1 DEF SaveIInv, Snapped
      <4> QED BY <2>1, <2>11, <3>1, <4>1 DEF SaveIInv, Untyped
    <3> QED BY <1>1, <1>4, <2>4, <2>6, <3>1 DEF SaveIInv, Untyped
  <2> QED BY <2>9, <2>10, <2>12, <2>13 DEF SaveIInv
<1>6. CASE ~(side.archive /\ side.mine)
  <2>1. page' = page
    BY <1>6 DEF SideEnds
  <2>2. Owned'
    BY <1>1, <1>2, <1>3, <2>1 DEF SaveIInv, Owned
  <2>3. Alone'
    BY <1>1, <1>2, <1>4, <2>1 DEF SaveIInv, Alone
  <2>4. hist.alone /\ hist.whole /\ page.mode # "away" => ~Archived
    BY <1>1, <1>4, <1>6 DEF SaveIInv, Alone
  <2>5. Snapped'
    BY <1>1, <1>4, <2>1, <2>4 DEF SaveIInv, Snapped
  <2>6. Untyped'
    BY <1>1, <1>3, <1>4, <2>1 DEF SaveIInv, Untyped
  <2> QED BY <2>2, <2>3, <2>5, <2>6 DEF SaveIInv
<1> QED BY <1>5, <1>6

LEMMA SideFailsKeeps == ASSUME Context, SaveIInv, SideFails PROVE SaveIInv'
<1>1. /\ UNCHANGED <<server, told, data, active, rowAt, page, save>> /\ side' = NoSide
      /\ side.pc \in {"sent", "done"}
  BY DEF SideFails, cacheVars
<1>2. side'.pc = "idle" /\ side'.mine = FALSE /\ side'.archive = FALSE
  BY <1>1 DEF NoSide
<1>3. PICK b \in BOOLEAN : b = (hist.alone /\ side.pc = "sent")
  BY DEF SaveIInv, Owned
<1>4. hist' = [hist EXCEPT !.alone = b]
  BY <1>3 DEF SideFails
<1>5. hist'.whole = hist.whole /\ hist'.blanked = hist.blanked /\ hist'.alone = b
  BY <1>4 DEF Context, Shaped, HistFields
<1>6. b => hist.alone /\ side.pc = "sent"
  BY <1>3
<1>7. HasData(Detail)' <=> HasData(Detail)
  BY <1>1 DEF HasData, Gets
<1>8. /\ Row' = Row /\ ~Archived' /\ (b => ~Archived)
      /\ RowOf(data[Detail]["case"])' = RowOf(data[Detail]["case"])
  BY <1>1, <1>2, <1>6 DEF Row, Archived, RowOf
<1>9. Owned'
  BY <1>1, <1>2, <1>5, <1>7 DEF SaveIInv, Owned
<1>10. Alone'
  BY <1>1, <1>2, <1>5, <1>6, <1>8 DEF SaveIInv, Alone
<1>11. Snapped'
  BY <1>1, <1>5, <1>6, <1>8 DEF SaveIInv, Snapped
<1>12. Untyped'
  BY <1>1, <1>5, <1>6, <1>7, <1>8 DEF SaveIInv, Untyped
<1> QED BY <1>9, <1>10, <1>11, <1>12 DEF SaveIInv

LEMMA ForeignKeeps == ASSUME Context, SaveIInv, Foreign PROVE SaveIInv'
<1>1. UNCHANGED <<page, save, side>> /\ Row + 1 \in Nat
  BY RowIsNat DEF Foreign, SaveIInv
<1>2. hist'.whole = hist.whole /\ hist'.blanked = hist.blanked /\ hist'.alone = FALSE
  BY DEF Foreign, Context, Shaped, HistFields
<1>3. CASE WriteCase(Row + 1)
  <2>1. /\ rowAt' \in Seq(Nat) /\ Len(rowAt') = server'["case"] + 1 /\ active' = active
        /\ (HasData(Detail)' <=> HasData(Detail))
    BY <1>1, <1>3, WriteCaseFacts DEF SaveIInv
  <2>2. Owned'
    BY <1>1, <1>2, <2>1 DEF SaveIInv, Owned
  <2> QED BY <1>2, <2>2 DEF SaveIInv, Alone, Snapped, Untyped
<1>4. CASE Write("steps") /\ rowAt' = rowAt
  <2>1. server'["case"] = server["case"] /\ UNCHANGED <<active, data>>
    BY <1>4, OneQuery DEF Write, Context, ReadInv, CacheIInv, CacheTypeOK
  <2>2. HasData(Detail)' <=> HasData(Detail)
    BY <2>1 DEF HasData, Gets
  <2>3. Owned'
    BY <1>1, <1>2, <1>4, <2>1, <2>2 DEF SaveIInv, Owned
  <2> QED BY <1>2, <2>3 DEF SaveIInv, Alone, Snapped, Untyped
<1> QED BY <1>3, <1>4 DEF Foreign

-----------------------------------------------------------------------------
(* The rest, and the whole                                                  *)
LEMMA FilesKeep ==
    ASSUME Context, SaveIInv,
           \/ \E f \in Files : Upload(f) \/ Erase(f) \/ ServeDelete(f) \/ DeleteFails(f)
           \/ ServeXfer \/ XferAnswered \/ XferFails
    PROVE  SaveIInv'
<1>1. save' = save /\ side' = side /\ hist' = hist /\ rowAt' = rowAt
  BY DEF Upload, Erase, ServeDelete, DeleteFails, ServeXfer, XferAnswered, XferFails
<1>2. UNCHANGED cacheVars \/ Write("files")
  BY DEF Upload, Erase, ServeDelete, DeleteFails, ServeXfer, XferAnswered, XferFails, StoreFiles
<1>3. SameServer /\ SameQuery
  <2>1. CASE UNCHANGED cacheVars
    BY <1>1, <2>1 DEF cacheVars, SameServer, SameQuery
  <2>2. CASE Write("files")
    BY <1>1, <2>2, OneQuery DEF Write, SameServer, SameQuery, Context, ReadInv, CacheIInv, CacheTypeOK
  <2> QED BY <1>2, <2>1, <2>2
<1>4. SamePage
  <2>1. page' = page \/ XferAnswered
    BY DEF Upload, Erase, ServeDelete, DeleteFails, ServeXfer, XferFails
  <2>2. CASE page' = page
    BY <2>2 DEF SamePage
  <2>3. CASE XferAnswered
    <3>1. PICK F : F = IF xfer.erase THEN page.files \ xfer.file ELSE page.files \cup xfer.file
      OBVIOUS
    <3>2. page' = page \/ page' = [page EXCEPT !.files = F]
      BY <2>3, <3>1 DEF XferAnswered, Context, Shaped, PageFields
    <3> QED BY <2>2, <3>2 DEF SamePage, Context, Shaped, PageFields
  <2> QED BY <2>1, <2>2, <2>3
<1> QED BY <1>1, <1>3, <1>4, SameKeeps DEF SameSave, SameSide

LEMMA SaveStepKeeps ==
    ASSUME Context, SaveIInv, [EditorNext]_vars
    PROVE  SaveIInv'
<1>1. KeepsData(Detail)
  BY EditorStep, ReadStep, OneQuery DEF Context, Reads
<1>2. ASSUME NEW m \in {"view", "edit"}, Open(m) PROVE SaveIInv'
  BY <1>2, OpeningKeeps DEF Open, SameSave, SameSide
<1>3. CASE Retry
  <2>1. /\ SamePage /\ SameServer /\ SameQuery /\ hist' = hist
    BY <1>3 DEF Retry, Refetch, SamePage, SameServer, SameQuery
  <2>2. SameSave /\ SameSide
    BY <1>3 DEF Retry, SameSave, SameSide, Context, Answers, SaveFields, SideFields
  <2> QED BY <2>1, <2>2, SameKeeps
<1>4. CASE Leave \/ Sync \/ EditStart \/ TypeRow \/ TypeSteps \/ CancelEdit
  BY <1>4, LeaveKeeps, FieldsKeep, CancelKeeps
<1>5. CASE ClickSave \/ SaveStep \/ SaveFails
  BY <1>1, <1>5, ClickSaveKeeps, ServePatchKeeps, PatchAnsweredKeeps, SendPutKeeps, ServePutKeeps,
     PutAnsweredKeeps, FinishKeeps, SaveFailsKeeps DEF SaveStep
<1>6. CASE \/ \E archive \in BOOLEAN : ClickSide(archive)
           \/ ServeSide \/ SideAnswered \/ SideEnds \/ SideFails \/ Foreign
  BY <1>6, ClickSideKeeps, ServeSideKeeps, SideAnsweredKeeps, SideEndsKeeps, SideFailsKeeps, ForeignKeeps
<1>7. CASE \/ \E f \in Files : Upload(f) \/ Erase(f) \/ ServeDelete(f) \/ DeleteFails(f)
           \/ ServeXfer \/ XferAnswered \/ XferFails
  BY <1>7, FilesKeep
<1>8. ASSUME Rerender, Quietly, UNCHANGED <<server, told>>,
             active'[Detail] = active[Detail]
      PROVE  SaveIInv'
  BY <1>1, <1>8, RerenderKeeps DEF Quietly, SameSave, SameSide, SameServer
<1>9. ASSUME NEW p \in Paths, NetworkStep(p) \/ LoseGet(p) PROVE SaveIInv'
  BY <1>8, <1>9 DEF NetworkStep, LoseGet, Serve, Arrive, ArriveFailed, Lose
<1>10. CASE WakeUp \/ Forget
  BY <1>8, <1>10 DEF WakeUp, Forget, Wake, Collect
<1>11. CASE UNCHANGED vars
  BY <1>11, SameKeeps DEF vars, cacheVars, editorVars, SamePage, SameSave, SameSide, SameServer, SameQuery
<1> QED
  BY <1>2, <1>3, <1>4, <1>5, <1>6, <1>7, <1>9, <1>10, <1>11 DEF EditorNext

LEMMA SaveStarts == EditorInit => SaveIInv
<1> SUFFICES ASSUME EditorInit PROVE SaveIInv
  OBVIOUS
<1>1. /\ page = Closed /\ save = NoSave /\ side = NoSide /\ rowAt = <<0>>
      /\ hist = [kept |-> Attached, whole |-> FALSE, alone |-> TRUE, blanked |-> FALSE]
      /\ server["case"] = 0 /\ server["steps"] = 0
      /\ told[Detail]["case"] = 0 /\ told[Detail]["steps"] = 0 /\ active[Detail] = FALSE
  BY OneQuery DEF EditorInit, CacheInit
<1>2. page.mode = "away" /\ page.pending = FALSE
  BY <1>1 DEF Closed
<1>3. save.pc = "idle" /\ save.mine = FALSE /\ save.changed = FALSE
  BY <1>1 DEF NoSave
<1>4. side.pc = "idle" /\ side.mine = FALSE /\ side.archive = FALSE
  BY <1>1 DEF NoSide
<1>5. hist.whole = FALSE /\ hist.alone = TRUE /\ hist.blanked = FALSE
  BY <1>1
<1>6. rowAt \in Seq(Nat) /\ Len(rowAt) = 1
  BY <1>1
<1>7. Owned
  <2>1. Len(rowAt) = server["case"] + 1
    BY <1>1, <1>6
  <2>2. active[Detail] = (page.mode # "away")
    BY <1>1, <1>2
  <2>3. page.mode \in {"away", "view", "edit"} /\ page.pending \in BOOLEAN
    BY <1>2
  <2>4. hist.whole \in BOOLEAN /\ hist.alone \in BOOLEAN /\ hist.blanked \in BOOLEAN
    BY <1>5
  <2>5. save.mine \in BOOLEAN /\ save.changed \in BOOLEAN
    BY <1>3
  <2>6. side.mine \in BOOLEAN /\ side.archive \in BOOLEAN
    BY <1>4
  <2> QED BY <1>2, <1>3, <1>4, <1>6, <2>1, <2>2, <2>3, <2>4, <2>5, <2>6 DEF Owned
<1>8. Alone
  BY <1>1, <1>2, <1>3, <1>4, <1>5 DEF Alone
<1> QED BY <1>2, <1>7, <1>8 DEF SaveIInv, Snapped, Untyped

\* After a save that succeeded as a whole, with nothing under way, no write by
\* somebody else and no two mutations at a time, the page shows what the server has.
THEOREM EditorShowsWhatItSaved == EditorSpec => []SavedViewShowsServer
<1>1. EditorInit => Context /\ SaveIInv
  BY EditorStarts, ShapeStarts, ReadStarts, SaveStarts DEF Context
<1>2. Context /\ SaveIInv /\ [EditorNext]_vars => Context' /\ SaveIInv'
  BY EditorStep, ShapeStep, ReadStep, SaveStepKeeps DEF Context
<1>3. Context /\ SaveIInv => SavedViewShowsServer
  <2> SUFFICES ASSUME Context, SaveIInv,
                      page.mode = "view", ~page.pending, save.pc = "idle", side.pc = "idle",
                      fetch[Detail].state = "idle", ~failed[Detail], clean[Detail],
                      hist.whole, hist.alone, ~hist.blanked
               PROVE  page.row = Row /\ page.steps = server["steps"]
    BY DEF SavedViewShowsServer
  <2>1. HasData(Detail)
    BY DEF SaveIInv, Owned
  <2>2. data[Detail]["case"] = server["case"] /\ data[Detail]["steps"] = server["steps"]
    BY <2>1, ShownIsServer DEF SaveIInv
  <2>3. RowOf(server["case"]) = Row
    BY DEF SaveIInv, Owned, RowOf, Row
  <2>4. page.snap.row = Row /\ page.snap.steps = server["steps"]
    BY DEF SaveIInv, Snapped, Archived
  <2> QED BY <2>1, <2>2, <2>3, <2>4 DEF SaveIInv, Untyped
<1> QED BY <1>1, <1>2, <1>3, PTL DEF EditorSpec

-----------------------------------------------------------------------------
(* FILING ISSUES FOR FAILED RESULTS                                         *)
Issue == [key : Keys, state : {"open", "ok", "failed", "repeated"}]

\* Links made under a key name an issue that was filed under it.
Made(l) ==
    IF l.key = ByHand THEN l.case \in touched
    ELSE l.issue \in DOMAIN issues /\ issues[l.issue].key = l.key /\ l.case \in l.key.cases

Whole(l) ==
    l.key # ByHand /\ l.case \notin touched =>
        \A c \in l.key.cases \ touched : [case |-> c, key |-> l.key, issue |-> l.issue] \in links

Covered(t, c) ==
    \/ LinkOf(t, c) \in sub[t].rows
    \/ c \in touched
    \/ \E l \in links : l.case = c /\ (l.key = KeyOf(t) \/ l.issue = sub[t].issue)

Transaction(t) ==
    /\ sub[t].pc \in {"asked", "creating", "linking"} => sub[t].done # {}
    /\ sub[t].pc # "linking" => sub[t].rows = {}
    /\ sub[t].pc = "linking" =>
          /\ sub[t].todo \subseteq sub[t].done
          /\ sub[t].issue \in DOMAIN issues /\ issues[sub[t].issue].key = KeyOf(t)
          /\ sub[t].rows \subseteq {LinkOf(t, c) : c \in sub[t].done \ sub[t].todo}
          /\ \A c \in sub[t].done \ sub[t].todo : Covered(t, c)
          /\ \A l \in links : \A r \in sub[t].rows : ~Clash(l, r)

Apart(t, u) == \A r \in sub[t].rows : \A k \in sub[u].rows : ~Clash(r, k)

FilingIInv ==
    /\ FilingTypeOK
    /\ \A l \in links : Made(l) /\ Whole(l)
    /\ \A l, k \in links : Clash(l, k) => l = k
    /\ \A t \in Clicks : Transaction(t)
    /\ \A t, u \in Clicks : t # u => Apart(t, u)

SubType == [pc : {"idle", "patching", "asked", "creating", "linking"},
            bulk : BOOLEAN, todo : SUBSET Cases, done : SUBSET Cases,
            posts : Nat, issue : Nat, at : SUBSET Cases, rows : SUBSET Links]

-----------------------------------------------------------------------------
LEMMA NoSubType == NoSub \in SubType /\ NoSub.pc = "idle" /\ NoSub.rows = {}
BY DEF NoSub, SubType

LEMMA KeyFacts ==
    ASSUME FilingTypeOK, NEW t \in Clicks
    PROVE  /\ sub[t] \in SubType
           /\ KeyOf(t) \in Keys /\ KeyOf(t).cases = sub[t].done /\ KeyOf(t).bulk = sub[t].bulk
           /\ sub[t].done # {} => KeyOf(t) # ByHand
BY DEF FilingTypeOK, SubType, KeyOf, Keys, ByHand

LEMMA LinkFacts ==
    ASSUME NEW t \in Clicks, NEW c
    PROVE  LinkOf(t, c).case = c /\ LinkOf(t, c).key = KeyOf(t) /\ LinkOf(t, c).issue = sub[t].issue
BY DEF LinkOf

LEMMA ClashIsMutual == \A l, k : Clash(l, k) => Clash(k, l)
BY DEF Clash

\* The issues that exist keep their key; how a filing went may change, and one more
\* may be made.
IssuesKeepKeys ==
    /\ issues' \in Seq(Issue) /\ Len(issues') >= Len(issues)
    /\ \A i \in DOMAIN issues : i \in DOMAIN issues' /\ issues'[i].key = issues[i].key

LEMMA UnchangedIssues == ASSUME FilingTypeOK, issues' = issues PROVE IssuesKeepKeys
BY DEF FilingTypeOK, IssuesKeepKeys, Issue

LEMMA NewIssueKeeps ==
    ASSUME FilingTypeOK, NEW t \in Clicks, NEW how \in {"open", "failed", "repeated"}, NewIssue(t, how)
    PROVE  /\ IssuesKeepKeys
           /\ Len(issues) + 1 \in DOMAIN issues' /\ issues'[Len(issues) + 1].key = KeyOf(t)
<1>1. issues \in Seq(Issue) /\ Len(issues) \in Nat /\ DOMAIN issues = 1..Len(issues)
  BY DEF FilingTypeOK, Issue
<1>2. PICK i \in Issue : i = [key |-> KeyOf(t), state |-> how]
  BY KeyFacts DEF Issue
<1>3. issues' = Append(issues, i) /\ i.key = KeyOf(t)
  BY <1>2 DEF NewIssue
<1>4. /\ issues' \in Seq(Issue) /\ Len(issues') = Len(issues) + 1
      /\ issues'[Len(issues) + 1] = i
      /\ \A n \in 1..Len(issues) : issues'[n] = issues[n]
      /\ DOMAIN issues' = 1..(Len(issues) + 1)
  BY <1>1, <1>3
<1> QED BY <1>1, <1>3, <1>4 DEF IssuesKeepKeys

LEMMA ReplyKeeps ==
    ASSUME FilingTypeOK, NEW t \in Clicks, NEW how \in {"ok", "failed"}, Reply(t, how),
           sub[t].pc = "linking" => sub[t].issue \in DOMAIN issues
    PROVE  /\ IssuesKeepKeys
           /\ sub' \in [Clicks -> SubType] /\ sub'[t] = NoSub
           /\ \A u \in Clicks \ {t} : sub'[u] = sub[u]
<1>1. sub' \in [Clicks -> SubType] /\ sub'[t] = NoSub /\ \A u \in Clicks \ {t} : sub'[u] = sub[u]
  BY NoSubType DEF Reply, FilingTypeOK, SubType
<1>2. issues \in Seq(Issue) /\ Len(issues) \in Nat /\ DOMAIN issues = 1..Len(issues)
  BY DEF FilingTypeOK, Issue
<1>3. CASE sub[t].pc = "linking"
  <2>1. PICK n \in 1..Len(issues) : n = sub[t].issue
    BY <1>2, <1>3
  <2>2. issues[n] \in Issue
    BY <1>2, <2>1
  <2>3. PICK s \in {"open", "ok", "failed", "repeated"} : s = IF issues[n].state = "open" THEN how ELSE issues[n].state
    BY <2>2 DEF Issue
  <2>4. PICK i \in Issue : i = [issues[n] EXCEPT !.state = s] /\ i.key = issues[n].key
    <3>1. PICK x \in Issue : x = issues[n]
      BY <2>2
    <3>2. [x EXCEPT !.state = s] \in Issue /\ [x EXCEPT !.state = s].key = x.key
      BY <2>3 DEF Issue
    <3> QED BY <3>1, <3>2
  <2>5. issues' = [issues EXCEPT ![n] = i]
    BY <1>3, <2>1, <2>3, <2>4 DEF Reply
  <2>6. /\ issues' \in Seq(Issue) /\ Len(issues') = Len(issues) /\ DOMAIN issues' = DOMAIN issues
        /\ \A m \in 1..Len(issues) : issues'[m] = IF m = n THEN i ELSE issues[m]
    BY <1>2, <2>1, <2>5
  <2>7. \A m \in 1..Len(issues) : issues'[m].key = issues[m].key
    BY <2>4, <2>6
  <2> QED BY <1>1, <1>2, <2>6, <2>7 DEF IssuesKeepKeys
<1>4. CASE sub[t].pc # "linking"
  BY <1>1, <1>4, UnchangedIssues DEF Reply
<1> QED BY <1>3, <1>4

-----------------------------------------------------------------------------
\* What one submission does, and leaves alone.
Others(t) == \A u \in Clicks \ {t} : sub'[u] = sub[u]

LEMMA SubUpdate ==
    ASSUME FilingTypeOK, NEW t \in Clicks, NEW r \in SubType, sub' = [sub EXCEPT ![t] = r]
    PROVE  sub' \in [Clicks -> SubType] /\ sub'[t] = r /\ Others(t)
BY DEF FilingTypeOK, SubType, Others

LEMMA TakeType ==
    ASSUME FilingTypeOK, NEW k \in {"submits", "errors", "hands", "passes"}, Take(k)
    PROVE  chances' \in [{"submits", "errors", "hands", "passes"} -> Nat]
BY DEF FilingTypeOK, Take

LEMMA SameKey ==
    ASSUME NEW u \in Clicks, sub'[u] = sub[u]
    PROVE  KeyOf(u)' = KeyOf(u) /\ \A c : LinkOf(u, c)' = LinkOf(u, c)
BY DEF KeyOf, LinkOf

\* A step of one submission that changes no committed link: the others notice
\* nothing of it, as long as its new rows do not clash with theirs.
LEMMA SubmissionStep ==
    ASSUME FilingIInv, NEW t \in Clicks, FilingTypeOK',
           links' = links, touched' = touched, IssuesKeepKeys, Others(t), Transaction(t)',
           \A u \in Clicks \ {t} : \A r \in sub'[t].rows :
               r \in sub[t].rows \/ \A k \in sub[u].rows : ~Clash(r, k)
    PROVE  FilingIInv'
<1>1. \A l \in links' : Made(l)' /\ Whole(l)'
  BY DEF FilingIInv, Made, Whole, IssuesKeepKeys
<1>2. \A l, k \in links' : Clash(l, k) => l = k
  BY DEF FilingIInv
<1>3. ASSUME NEW u \in Clicks \ {t} PROVE Transaction(u)'
  <2>1. sub'[u] = sub[u] /\ KeyOf(u)' = KeyOf(u) /\ \A c : LinkOf(u, c)' = LinkOf(u, c)
    BY SameKey DEF Others
  <2>2. \A c : Covered(u, c)' <=> Covered(u, c)
    BY <2>1 DEF Covered
  <2>3. Transaction(u)
    BY DEF FilingIInv
  <2> QED BY <2>1, <2>2, <2>3 DEF Transaction, IssuesKeepKeys
<1>4. ASSUME NEW u \in Clicks, NEW v \in Clicks, u # v PROVE Apart(u, v)'
  <2>1. Apart(u, v)
    BY <1>4 DEF FilingIInv
  <2>2. CASE u = t
    BY <1>4, <2>1, <2>2 DEF Apart, Others
  <2>3. CASE v = t
    <3>1. \A r \in sub'[t].rows : \A k \in sub[u].rows : ~Clash(r, k)
      BY <1>4, <2>1, <2>3, ClashIsMutual DEF Apart
    <3>2. sub'[u].rows = sub[u].rows
      BY <1>4, <2>3 DEF Others
    <3> QED BY <2>3, <3>1, <3>2, ClashIsMutual DEF Apart
  <2>4. CASE u # t /\ v # t
    BY <2>1, <2>4 DEF Apart, Others
  <2> QED BY <2>2, <2>3, <2>4
<1> QED BY <1>1, <1>2, <1>3, <1>4 DEF FilingIInv

\* As long as it has not got an issue, a submission has no rows.
LEMMA NotLinking ==
    ASSUME FilingIInv, NEW t \in Clicks, FilingTypeOK',
           links' = links, touched' = touched, IssuesKeepKeys, Others(t),
           sub'[t].pc # "linking", sub'[t].rows = {},
           sub'[t].pc \in {"asked", "creating"} => sub'[t].done # {}
    PROVE  FilingIInv'
<1>1. Transaction(t)'
  BY DEF Transaction
<1> QED BY <1>1, SubmissionStep

-----------------------------------------------------------------------------
(* The browser's steps                                                      *)
LEMMA SubmitStep ==
    ASSUME FilingIInv, NEW t \in Clicks, NEW f \in Forms, Submit(t, f)
    PROVE  FilingIInv'
<1>1. FilingTypeOK /\ f.cases \subseteq Cases /\ f.bulk \in BOOLEAN
  BY FilingAssumption DEF FilingIInv
<1>2. PICK r \in SubType : r = [NoSub EXCEPT !.pc = "patching", !.bulk = f.bulk, !.todo = f.cases]
                          /\ r.pc = "patching" /\ r.rows = {}
  <2>1. PICK x \in SubType : x = NoSub
    BY NoSubType
  <2>2. /\ [x EXCEPT !.pc = "patching", !.bulk = f.bulk, !.todo = f.cases] \in SubType
        /\ [x EXCEPT !.pc = "patching", !.bulk = f.bulk, !.todo = f.cases].pc = "patching"
        /\ [x EXCEPT !.pc = "patching", !.bulk = f.bulk, !.todo = f.cases].rows = x.rows
    BY <1>1 DEF SubType
  <2> QED BY <2>1, <2>2, NoSubType
<1>3. sub' \in [Clicks -> SubType] /\ sub'[t] = r /\ Others(t)
  BY <1>1, <1>2, SubUpdate DEF Submit
<1>4. IssuesKeepKeys
  BY <1>1, UnchangedIssues DEF Submit
<1>5. FilingTypeOK'
  BY <1>1, <1>3, TakeType DEF Submit, FilingTypeOK, SubType
<1> QED BY <1>2, <1>3, <1>4, <1>5, NotLinking DEF Submit

LEMMA PatchCaseStep ==
    ASSUME FilingIInv, NEW t \in Clicks, NEW c \in Cases, PatchCase(t, c)
    PROVE  FilingIInv'
<1>1. FilingTypeOK /\ Transaction(t) /\ sub[t] \in SubType
  BY KeyFacts DEF FilingIInv
<1>2. PICK r \in SubType : r = [sub[t] EXCEPT !.todo = @ \ {c}, !.done = @ \cup {c}]
                          /\ r.pc = sub[t].pc /\ r.rows = sub[t].rows
  <2>1. PICK x \in SubType : x = sub[t]
    BY <1>1
  <2>2. /\ [x EXCEPT !.todo = x.todo \ {c}, !.done = x.done \cup {c}] \in SubType
        /\ [x EXCEPT !.todo = x.todo \ {c}, !.done = x.done \cup {c}].pc = x.pc
        /\ [x EXCEPT !.todo = x.todo \ {c}, !.done = x.done \cup {c}].rows = x.rows
    BY DEF SubType
  <2> QED BY <2>1, <2>2
<1>3. sub' \in [Clicks -> SubType] /\ sub'[t] = r /\ Others(t)
  <2>1. sub' = [sub EXCEPT ![t] = r]
    BY <1>1, <1>2 DEF PatchCase, FilingTypeOK, SubType
  <2> QED BY <1>1, <2>1, SubUpdate
<1>4. IssuesKeepKeys
  BY <1>1, UnchangedIssues DEF PatchCase
<1>5. FilingTypeOK'
  BY <1>1, <1>3 DEF PatchCase, FilingTypeOK, SubType
<1>6. r.pc = "patching" /\ r.rows = {}
  BY <1>1, <1>2 DEF PatchCase, Transaction
<1> QED BY <1>3, <1>4, <1>5, <1>6, NotLinking DEF PatchCase

LEMMA PatchCaseFailsStep ==
    ASSUME FilingIInv, NEW t \in Clicks, NEW c \in Cases, PatchCaseFails(t, c)
    PROVE  FilingIInv'
<1>1. FilingTypeOK /\ Transaction(t) /\ sub[t] \in SubType
  BY KeyFacts DEF FilingIInv
<1>2. PICK r \in SubType : r = [sub[t] EXCEPT !.todo = @ \ {c}]
                          /\ r.pc = sub[t].pc /\ r.rows = sub[t].rows
  <2>1. PICK x \in SubType : x = sub[t]
    BY <1>1
  <2>2. /\ [x EXCEPT !.todo = x.todo \ {c}] \in SubType
        /\ [x EXCEPT !.todo = x.todo \ {c}].pc = x.pc
        /\ [x EXCEPT !.todo = x.todo \ {c}].rows = x.rows
    BY DEF SubType
  <2> QED BY <2>1, <2>2
<1>3. sub' \in [Clicks -> SubType] /\ sub'[t] = r /\ Others(t)
  <2>1. sub' = [sub EXCEPT ![t] = r]
    BY <1>1, <1>2 DEF PatchCaseFails, FilingTypeOK, SubType
  <2> QED BY <1>1, <2>1, SubUpdate
<1>4. IssuesKeepKeys
  BY <1>1, UnchangedIssues DEF PatchCaseFails
<1>5. FilingTypeOK'
  <2>1. outcome' \in [Cases -> {"untested", "passed", "failure"}]
    BY <1>1 DEF PatchCaseFails, FilingTypeOK
  <2> QED BY <1>1, <1>3, <2>1, TakeType DEF PatchCaseFails, FilingTypeOK, SubType
<1>6. r.pc = "patching" /\ r.rows = {}
  BY <1>1, <1>2 DEF PatchCaseFails, Transaction
<1> QED BY <1>3, <1>4, <1>5, <1>6, NotLinking DEF PatchCaseFails

LEMMA AskJiraStep ==
    ASSUME FilingIInv, NEW t \in Clicks, AskJira(t)
    PROVE  FilingIInv'
<1>1. FilingTypeOK /\ Transaction(t) /\ sub[t] \in SubType /\ KeyOf(t) \in Keys
  BY KeyFacts DEF FilingIInv
<1>2. IssuesKeepKeys
  BY <1>1, UnchangedIssues DEF AskJira
<1>3. CASE sub[t].done = {}
  <2>1. sub' \in [Clicks -> SubType] /\ sub'[t] = NoSub /\ Others(t)
    BY <1>1, <1>3, NoSubType, SubUpdate DEF AskJira
  <2>2. FilingTypeOK'
    BY <1>1, <1>3, <2>1 DEF AskJira, FilingTypeOK, SubType
  <2> QED BY <1>2, <2>1, <2>2, NoSubType, NotLinking DEF AskJira
<1>4. CASE sub[t].done # {}
  <2>1. PICK r \in SubType : r = [sub[t] EXCEPT !.pc = "asked"] /\ r.pc = "asked"
                            /\ r.done = sub[t].done /\ r.rows = sub[t].rows
    <3>1. PICK x \in SubType : x = sub[t]
      BY <1>1
    <3>2. /\ [x EXCEPT !.pc = "asked"] \in SubType /\ [x EXCEPT !.pc = "asked"].pc = "asked"
          /\ [x EXCEPT !.pc = "asked"].done = x.done /\ [x EXCEPT !.pc = "asked"].rows = x.rows
      BY DEF SubType
    <3> QED BY <3>1, <3>2
  <2>2. sub' \in [Clicks -> SubType] /\ sub'[t] = r /\ Others(t)
    <3>1. sub' = [sub EXCEPT ![t] = r]
      BY <1>1, <1>4, <2>1 DEF AskJira, FilingTypeOK, SubType
    <3> QED BY <1>1, <3>1, SubUpdate
  <2>3. rivals' \subseteq Keys
    BY <1>1, <1>4 DEF AskJira, FilingTypeOK
  <2>4. FilingTypeOK'
    BY <1>1, <1>4, <2>2, <2>3 DEF AskJira, FilingTypeOK, SubType
  <2>5. r.rows = {}
    BY <1>1, <2>1 DEF AskJira, Transaction
  <2> QED BY <1>2, <1>4, <2>1, <2>2, <2>4, <2>5, NotLinking DEF AskJira
<1> QED BY <1>3, <1>4

-----------------------------------------------------------------------------
(* The backend's steps                                                      *)
LEMMA ReplyStep ==
    ASSUME FilingIInv, NEW t \in Clicks, NEW how \in {"ok", "failed"}, Reply(t, how),
           UNCHANGED <<outcome, links, touched, rivals, linked>>,
           chances' \in [{"submits", "errors", "hands", "passes"} -> Nat]
    PROVE  FilingIInv'
<1>1. FilingTypeOK /\ Transaction(t)
  BY DEF FilingIInv
<1>2. /\ IssuesKeepKeys /\ sub' \in [Clicks -> SubType] /\ sub'[t] = NoSub
      /\ \A u \in Clicks \ {t} : sub'[u] = sub[u]
  BY <1>1, ReplyKeeps DEF Transaction
<1>3. FilingTypeOK'
  BY <1>1, <1>2 DEF FilingTypeOK, SubType, IssuesKeepKeys, Issue
<1> QED BY <1>2, <1>3, NoSubType, NotLinking DEF Others

\* The issue is known, and no case has been linked to it yet.
LEMMA LinkingStarts ==
    ASSUME FilingIInv, NEW t \in Clicks, NEW n \in Nat,
           sub' = [sub EXCEPT ![t].pc = "linking", ![t].issue = n, ![t].todo = sub[t].done],
           sub[t].pc \in {"asked", "creating"}, IssuesKeepKeys,
           n \in DOMAIN issues', issues'[n].key = KeyOf(t),
           UNCHANGED <<outcome, links, touched, rivals, linked, chances>>
    PROVE  FilingIInv'
<1>1. FilingTypeOK /\ Transaction(t) /\ sub[t] \in SubType
  BY KeyFacts DEF FilingIInv
<1>2. PICK r \in SubType : /\ r = [sub[t] EXCEPT !.pc = "linking", !.issue = n, !.todo = sub[t].done]
                           /\ r.pc = "linking" /\ r.issue = n /\ r.todo = sub[t].done
                           /\ r.done = sub[t].done /\ r.rows = sub[t].rows /\ r.bulk = sub[t].bulk
  <2>1. PICK x \in SubType : x = sub[t]
    BY <1>1
  <2>2. PICK r \in SubType : r = [x EXCEPT !.pc = "linking", !.issue = n, !.todo = x.done]
    BY DEF SubType
  <2>3. /\ r.pc = "linking" /\ r.issue = n /\ r.todo = x.done
        /\ r.done = x.done /\ r.rows = x.rows /\ r.bulk = x.bulk
    BY <2>2 DEF SubType
  <2> QED BY <2>1, <2>2, <2>3
<1>3. sub' \in [Clicks -> SubType] /\ sub'[t] = r /\ Others(t)
  <2>1. sub' = [sub EXCEPT ![t] = r]
    BY <1>1, <1>2 DEF FilingTypeOK, SubType
  <2> QED BY <1>1, <2>1, SubUpdate
<1>4. FilingTypeOK'
  BY <1>1, <1>3 DEF FilingTypeOK, SubType, IssuesKeepKeys, Issue
<1>5. r.rows = {} /\ r.done # {} /\ KeyOf(t)' = KeyOf(t)
  BY <1>1, <1>2, <1>3 DEF Transaction, KeyOf
<1>6. Transaction(t)'
  BY <1>2, <1>3, <1>5 DEF Transaction
<1> QED BY <1>3, <1>4, <1>5, <1>6, SubmissionStep

LEMMA CheckStep ==
    ASSUME FilingIInv, NEW t \in Clicks, Check(t)
    PROVE  FilingIInv'
<1>1. FilingTypeOK /\ Transaction(t) /\ sub[t] \in SubType /\ sub[t].rows = {} /\ sub[t].done # {}
  BY KeyFacts DEF FilingIInv, Check, Transaction
<1>2. CASE Reply(t, "failed")
  BY <1>1, <1>2, ReplyStep DEF Check, FilingTypeOK
<1>3. CASE issues' = issues /\ sub' = [sub EXCEPT ![t].pc = "creating"]
  <2>1. PICK r \in SubType : r = [sub[t] EXCEPT !.pc = "creating"] /\ r.pc = "creating"
                            /\ r.done = sub[t].done /\ r.rows = sub[t].rows
    <3>1. PICK x \in SubType : x = sub[t]
      BY <1>1
    <3>2. /\ [x EXCEPT !.pc = "creating"] \in SubType /\ [x EXCEPT !.pc = "creating"].pc = "creating"
          /\ [x EXCEPT !.pc = "creating"].done = x.done /\ [x EXCEPT !.pc = "creating"].rows = x.rows
      BY DEF SubType
    <3> QED BY <3>1, <3>2
  <2>2. sub' \in [Clicks -> SubType] /\ sub'[t] = r /\ Others(t)
    <3>1. sub' = [sub EXCEPT ![t] = r]
      BY <1>1, <1>3, <2>1 DEF FilingTypeOK, SubType
    <3> QED BY <1>1, <3>1, SubUpdate
  <2>3. FilingTypeOK' /\ IssuesKeepKeys
    BY <1>1, <1>3, <2>2, UnchangedIssues DEF Check, FilingTypeOK, SubType
  <2> QED BY <1>1, <2>1, <2>2, <2>3, NotLinking DEF Check
<1>4. CASE issues' = issues /\ sub' = [sub EXCEPT ![t] = NoSub]
  <2>1. sub' \in [Clicks -> SubType] /\ sub'[t] = NoSub /\ Others(t)
    BY <1>1, <1>4, NoSubType, SubUpdate
  <2>2. FilingTypeOK' /\ IssuesKeepKeys
    BY <1>1, <1>4, <2>1, UnchangedIssues DEF Check, FilingTypeOK, SubType
  <2> QED BY <2>1, <2>2, NoSubType, NotLinking DEF Check
<1>5. ASSUME issues' = issues, NEW l \in Keyed(t),
             sub' = [sub EXCEPT ![t].pc = "linking", ![t].issue = l.issue, ![t].todo = sub[t].done]
      PROVE  FilingIInv'
  <2>1. l \in links /\ l.key = KeyOf(t) /\ Made(l) /\ KeyOf(t) # ByHand
    BY <1>1, <1>5, KeyFacts DEF Keyed, FilingIInv
  <2>2. l.issue \in DOMAIN issues /\ issues[l.issue].key = KeyOf(t)
    BY <2>1 DEF Made
  <2>3. l.issue \in Nat
    BY <1>1, <2>1 DEF FilingTypeOK, Links
  <2> QED BY <1>1, <1>5, <2>2, <2>3, UnchangedIssues, LinkingStarts DEF Check
<1> QED BY <1>2, <1>3, <1>4, <1>5 DEF Check

LEMMA PostAgainStep ==
    ASSUME FilingIInv, NEW t \in Clicks, PostAgain(t)
    PROVE  FilingIInv'
<1>1. FilingTypeOK /\ Transaction(t) /\ sub[t] \in SubType /\ sub[t].pc = "creating"
  BY KeyFacts DEF FilingIInv, PostAgain
<1>2. PICK r \in SubType : r = [sub[t] EXCEPT !.posts = @ + 1] /\ r.pc = "creating"
                          /\ r.done = sub[t].done /\ r.rows = sub[t].rows
  <2>1. PICK x \in SubType : x = sub[t]
    BY <1>1
  <2>2. /\ [x EXCEPT !.posts = x.posts + 1] \in SubType
        /\ [x EXCEPT !.posts = x.posts + 1].pc = x.pc
        /\ [x EXCEPT !.posts = x.posts + 1].done = x.done
        /\ [x EXCEPT !.posts = x.posts + 1].rows = x.rows
    BY DEF SubType
  <2> QED BY <1>1, <2>1, <2>2
<1>3. sub' \in [Clicks -> SubType] /\ sub'[t] = r /\ Others(t)
  <2>1. sub' = [sub EXCEPT ![t] = r]
    BY <1>1, <1>2 DEF PostAgain, FilingTypeOK, SubType
  <2> QED BY <1>1, <2>1, SubUpdate
<1>4. IssuesKeepKeys
  BY <1>1, NewIssueKeeps, UnchangedIssues DEF PostAgain
<1>5. FilingTypeOK'
  BY <1>1, <1>3, <1>4, TakeType DEF PostAgain, FilingTypeOK, SubType, IssuesKeepKeys, Issue
<1>6. r.pc = "creating" /\ r.rows = {} /\ r.done # {}
  BY <1>1, <1>2 DEF Transaction
<1> QED BY <1>3, <1>4, <1>5, <1>6, NotLinking DEF PostAgain

LEMMA CreateIssueStep ==
    ASSUME FilingIInv, NEW t \in Clicks, CreateIssue(t)
    PROVE  FilingIInv'
<1>1. FilingTypeOK /\ Len(issues) + 1 \in Nat
  BY DEF FilingIInv, FilingTypeOK
<1>2. /\ IssuesKeepKeys
      /\ Len(issues) + 1 \in DOMAIN issues' /\ issues'[Len(issues) + 1].key = KeyOf(t)
  BY <1>1, NewIssueKeeps DEF CreateIssue
<1> QED BY <1>1, <1>2, LinkingStarts DEF CreateIssue

LEMMA CreateFailsStep ==
    ASSUME FilingIInv, NEW t \in Clicks, CreateFails(t)
    PROVE  FilingIInv'
<1>1. FilingTypeOK
  BY DEF FilingIInv
<1>2. IssuesKeepKeys
  BY <1>1, NewIssueKeeps, UnchangedIssues DEF CreateFails
<1>3. sub' \in [Clicks -> SubType] /\ sub'[t] = NoSub /\ Others(t)
  BY <1>1, NoSubType, SubUpdate DEF CreateFails
<1>4. FilingTypeOK'
  BY <1>1, <1>2, <1>3, TakeType DEF CreateFails, FilingTypeOK, SubType, IssuesKeepKeys, Issue
<1> QED BY <1>2, <1>3, <1>4, NoSubType, NotLinking DEF CreateFails

\* What an update of the submission t alone, in its lists, leaves it with.
LEMMA ListsUpdate ==
    ASSUME FilingTypeOK, NEW t \in Clicks,
           NEW T \in SUBSET Cases, NEW A \in SUBSET Cases, NEW R \in SUBSET Links,
           sub' = [sub EXCEPT ![t].todo = T, ![t].at = A, ![t].rows = R]
    PROVE  /\ sub' \in [Clicks -> SubType] /\ Others(t)
           /\ sub'[t].pc = sub[t].pc /\ sub'[t].issue = sub[t].issue
           /\ sub'[t].done = sub[t].done /\ sub'[t].todo = T /\ sub'[t].rows = R
           /\ KeyOf(t)' = KeyOf(t) /\ \A c : LinkOf(t, c)' = LinkOf(t, c)
<1>1. PICK x \in SubType : x = sub[t]
  BY KeyFacts
<1>2. PICK r \in SubType : r = [x EXCEPT !.todo = T, !.at = A, !.rows = R]
  BY DEF SubType
<1>3. /\ r.pc = x.pc /\ r.bulk = x.bulk /\ r.issue = x.issue
      /\ r.done = x.done /\ r.todo = T /\ r.rows = R
  BY <1>2 DEF SubType
<1>4. sub' = [sub EXCEPT ![t] = r]
  BY <1>1, <1>2 DEF FilingTypeOK, SubType
<1>5. sub' \in [Clicks -> SubType] /\ sub'[t] = r /\ Others(t)
  BY <1>4, SubUpdate
<1> QED BY <1>1, <1>3, <1>5 DEF KeyOf, LinkOf

\* A look-up writes nothing: the case has a link, or is about to be linked.
LEMMA LookUpStep ==
    ASSUME FilingIInv, NEW t \in Clicks, NEW c \in Cases, LookUp(t, c)
    PROVE  FilingIInv'
<1>1. /\ FilingTypeOK /\ Transaction(t) /\ sub[t] \in SubType
      /\ sub[t].pc = "linking" /\ c \in sub[t].todo
  BY KeyFacts DEF FilingIInv, LookUp
<1>2. PICK T \in SUBSET Cases, A \in SUBSET Cases :
        /\ sub' = [sub EXCEPT ![t].todo = T, ![t].at = A, ![t].rows = sub[t].rows]
        /\ T = sub[t].todo \/ (T = sub[t].todo \ {c} /\ Present(t, c))
  <2>1. CASE Present(t, c)
    <3>1. sub' = [sub EXCEPT ![t].todo = sub[t].todo \ {c}, ![t].at = sub[t].at, ![t].rows = sub[t].rows]
      BY <1>1, <2>1 DEF LookUp, FilingTypeOK, SubType
    <3>2. sub[t].todo \ {c} \in SUBSET Cases /\ sub[t].at \in SUBSET Cases
      BY <1>1 DEF SubType
    <3> QED BY <2>1, <3>1, <3>2
  <2>2. CASE ~Present(t, c)
    <3>1. PICK T \in SUBSET Cases, A \in SUBSET Cases : T = sub[t].todo /\ A = {c}
      BY <1>1 DEF SubType
    <3>2. sub' = [sub EXCEPT ![t].todo = sub[t].todo, ![t].at = {c}, ![t].rows = sub[t].rows]
      BY <1>1, <2>2 DEF LookUp, FilingTypeOK, SubType
    <3>3. sub' = [sub EXCEPT ![t].todo = T, ![t].at = A, ![t].rows = sub[t].rows]
      BY <3>1, <3>2
    <3> QED BY <3>1, <3>3
  <2> QED BY <2>1, <2>2
<1>3. sub[t].rows \in SUBSET Links
  BY <1>1 DEF SubType
<1>4. /\ sub' \in [Clicks -> SubType] /\ Others(t)
      /\ sub'[t].pc = sub[t].pc /\ sub'[t].issue = sub[t].issue
      /\ sub'[t].done = sub[t].done /\ sub'[t].todo = T /\ sub'[t].rows = sub[t].rows
      /\ KeyOf(t)' = KeyOf(t) /\ \A x : LinkOf(t, x)' = LinkOf(t, x)
  BY <1>1, <1>2, <1>3, ListsUpdate
<1>5. FilingTypeOK' /\ IssuesKeepKeys
  BY <1>1, <1>4, UnchangedIssues DEF LookUp, FilingTypeOK, SubType
<1>6. \A x : Covered(t, x) => Covered(t, x)'
  BY <1>1, <1>4 DEF Covered, LookUp
<1>7. Present(t, c) => Covered(t, c)'
  BY <1>4 DEF Covered, Present, LookUp
<1>8. Transaction(t)'
  BY <1>1, <1>2, <1>4, <1>6, <1>7 DEF Transaction, LookUp
<1> QED BY <1>4, <1>5, <1>8, SubmissionStep DEF LookUp

LEMMA LinkCaseStep ==
    ASSUME FilingIInv, NEW t \in Clicks, NEW c \in Cases, LinkCase(t, c)
    PROVE  FilingIInv'
<1>1. /\ FilingTypeOK /\ Transaction(t) /\ sub[t] \in SubType
      /\ sub[t].pc = "linking" /\ c \in sub[t].todo /\ c \in sub[t].at
  BY KeyFacts DEF FilingIInv, LinkCase
<1>2. CASE Refused(t, c) /\ Reply(t, "failed")
  BY <1>1, <1>2, ReplyStep DEF LinkCase, FilingTypeOK
<1>3. CASE /\ issues' = issues /\ ~Refused(t, c) /\ ~\E u \in Clicks : WaitsFor(t, c, u)
           /\ sub' = [sub EXCEPT ![t].todo = @ \ {c}, ![t].at = {}, ![t].rows = @ \cup {LinkOf(t, c)}]
  <2>1. LinkOf(t, c) \in Links
    BY <1>1, KeyFacts DEF Transaction, LinkOf, Links, FilingTypeOK
  <2>2. /\ sub' \in [Clicks -> SubType] /\ Others(t)
        /\ sub'[t].pc = sub[t].pc /\ sub'[t].issue = sub[t].issue
        /\ sub'[t].done = sub[t].done /\ sub'[t].todo = sub[t].todo \ {c}
        /\ sub'[t].rows = sub[t].rows \cup {LinkOf(t, c)}
        /\ KeyOf(t)' = KeyOf(t) /\ \A x : LinkOf(t, x)' = LinkOf(t, x)
    <3>1. PICK R \in SUBSET Links : R = sub[t].rows \cup {LinkOf(t, c)}
      BY <1>1, <2>1 DEF SubType
    <3>2. PICK T \in SUBSET Cases : T = sub[t].todo \ {c}
      BY <1>1 DEF SubType
    <3>3. sub' = [sub EXCEPT ![t].todo = T, ![t].at = {}, ![t].rows = R]
      BY <1>1, <1>3, <3>1, <3>2 DEF FilingTypeOK, SubType
    <3>4. /\ sub' \in [Clicks -> SubType] /\ Others(t)
          /\ sub'[t].pc = sub[t].pc /\ sub'[t].issue = sub[t].issue
          /\ sub'[t].done = sub[t].done /\ sub'[t].todo = T /\ sub'[t].rows = R
          /\ KeyOf(t)' = KeyOf(t) /\ \A x : LinkOf(t, x)' = LinkOf(t, x)
      BY <1>1, <3>3, ListsUpdate
    <3> QED BY <3>1, <3>2, <3>4
  <2>3. FilingTypeOK' /\ IssuesKeepKeys
    BY <1>1, <1>3, <2>2, UnchangedIssues DEF LinkCase, FilingTypeOK, SubType
  <2>4. \A x : Covered(t, x) => Covered(t, x)'
    BY <1>1, <2>2 DEF Covered, LinkCase
  <2>5. Covered(t, c)'
    BY <2>2 DEF Covered
  <2>6. \A l \in links : ~Clash(l, LinkOf(t, c))
    BY <1>3 DEF Refused
  <2>7. Transaction(t)'
    BY <1>1, <1>3, <2>2, <2>4, <2>5, <2>6 DEF Transaction, LinkCase
  <2>8. \A u \in Clicks \ {t} : \A k \in sub[u].rows : ~Clash(LinkOf(t, c), k)
    BY <1>1, <1>3, ClashIsMutual DEF WaitsFor
  <2> QED BY <2>2, <2>3, <2>7, <2>8, SubmissionStep DEF LinkCase
<1> QED BY <1>2, <1>3 DEF LinkCase

LEMMA DeadlockedStep ==
    ASSUME FilingIInv, NEW t \in Clicks, Deadlocked(t)
    PROVE  FilingIInv'
BY ReplyStep DEF Deadlocked, FilingIInv, FilingTypeOK

-----------------------------------------------------------------------------
(* The steps that change committed links                                    *)
\* The rows of a transaction with nothing left to do cover its key: a case without
\* a row of its own, and not touched, has the very link that the others get.
LEMMA RowsAreWhole ==
    ASSUME FilingIInv, NEW t \in Clicks, sub[t].pc = "linking", sub[t].todo = {},
           NEW r \in sub[t].rows, r.case \notin touched,
           NEW c \in sub[t].done \ touched
    PROVE  LinkOf(t, c) \in links \cup sub[t].rows
<1>1. FilingTypeOK /\ Transaction(t) /\ sub[t] \in SubType /\ KeyOf(t) # ByHand
  BY KeyFacts DEF FilingIInv, Transaction
<1>2. PICK a \in sub[t].done : r = LinkOf(t, a)
  BY <1>1 DEF Transaction
<1>3. r.case = a /\ r.key = KeyOf(t) /\ r.issue = sub[t].issue
  BY <1>2, LinkFacts
<1>4. CASE LinkOf(t, c) \in sub[t].rows
  BY <1>4
<1>5. ASSUME NEW l \in links, l.case = c, l.key = KeyOf(t) \/ l.issue = sub[t].issue
      PROVE  LinkOf(t, c) \in links
  <2>1. Made(l) /\ Whole(l) /\ l \in Links
    BY <1>1 DEF FilingIInv, FilingTypeOK
  <2>2. l.key = KeyOf(t)
    <3>1. CASE l.issue = sub[t].issue
      BY <1>1, <1>5, <2>1, <3>1 DEF Made, Transaction
    <3> QED BY <1>5, <3>1
  <2>3. l.issue = sub[t].issue
    <3>1. a \in l.key.cases
      BY <1>1, <2>2, KeyFacts
    <3>2. [case |-> a, key |-> l.key, issue |-> l.issue] \in links
      BY <1>1, <1>3, <1>5, <2>1, <2>2, <3>1 DEF Whole
    <3>3. Clash([case |-> a, key |-> l.key, issue |-> l.issue], r)
      BY <1>1, <1>3, <2>2 DEF Clash
    <3> QED BY <1>1, <3>2, <3>3 DEF Transaction
  <2>4. l = LinkOf(t, c)
    BY <1>5, <2>1, <2>2, <2>3 DEF LinkOf, Links
  <2> QED BY <2>4
<1>6. Covered(t, c)
  BY <1>1 DEF Transaction
<1> QED BY <1>4, <1>5, <1>6 DEF Covered

LEMMA StoringStep ==
    ASSUME FilingIInv, NEW t \in Clicks, NEW how \in {"ok", "failed"},
           sub[t].pc = "linking", sub[t].todo = {}, StoreLinks(t), Reply(t, how),
           UNCHANGED <<outcome, touched, rivals>>,
           chances' \in [{"submits", "errors", "hands", "passes"} -> Nat]
    PROVE  FilingIInv'
<1>1. FilingTypeOK /\ Transaction(t) /\ sub[t] \in SubType /\ KeyOf(t) # ByHand
  BY KeyFacts DEF FilingIInv, Transaction
<1>2. /\ IssuesKeepKeys /\ sub' \in [Clicks -> SubType] /\ sub'[t] = NoSub
      /\ \A u \in Clicks \ {t} : sub'[u] = sub[u]
  BY <1>1, ReplyKeeps DEF Transaction
<1>3. links' = links \cup sub[t].rows /\ sub[t].rows \subseteq Links
  BY <1>1 DEF StoreLinks, SubType
<1>4. FilingTypeOK'
  <2>1. links' \subseteq Links
    BY <1>1, <1>3 DEF FilingTypeOK
  <2>2. linked' \subseteq Nat \ {0}
    BY <1>1, <1>3 DEF StoreLinks, FilingTypeOK, Links
  <2> QED BY <1>1, <1>2, <2>1, <2>2 DEF FilingTypeOK, SubType, IssuesKeepKeys, Issue
<1>5. \A r \in sub[t].rows : \E a \in sub[t].done :
          r = LinkOf(t, a) /\ r.case = a /\ r.key = KeyOf(t) /\ r.issue = sub[t].issue
  BY <1>1, LinkFacts DEF Transaction
<1>6. ASSUME NEW l \in links' PROVE Made(l)'
  <2>1. CASE l \in links
    BY <1>2, <2>1 DEF FilingIInv, Made, IssuesKeepKeys
  <2>2. CASE l \in sub[t].rows
    BY <1>1, <1>2, <1>5, <2>2, KeyFacts DEF Transaction, Made, IssuesKeepKeys
  <2> QED BY <1>3, <2>1, <2>2
<1>7. ASSUME NEW l \in links' PROVE Whole(l)'
  <2>1. CASE l \in links
    BY <1>3, <2>1 DEF FilingIInv, Whole
  <2>2. CASE l \in sub[t].rows
    <3> SUFFICES ASSUME l.case \notin touched, NEW c \in l.key.cases \ touched
                 PROVE  [case |-> c, key |-> l.key, issue |-> l.issue] \in links'
      BY DEF Whole
    <3>1. l.key = KeyOf(t) /\ l.issue = sub[t].issue
      BY <1>5, <2>2
    <3>2. c \in sub[t].done \ touched
      BY <1>1, <3>1, KeyFacts
    <3> QED BY <1>3, <2>2, <3>1, <3>2, RowsAreWhole DEF LinkOf
  <2> QED BY <1>3, <2>1, <2>2
<1>8. ASSUME NEW l \in links', NEW k \in links', Clash(l, k) PROVE l = k
  <2>1. CASE l \in links /\ k \in links
    BY <1>8, <2>1 DEF FilingIInv
  <2>2. CASE l \in sub[t].rows /\ k \in sub[t].rows
    BY <1>5, <1>8, <2>2 DEF Clash
  <2> QED BY <1>1, <1>3, <1>8, <2>1, <2>2, ClashIsMutual DEF Transaction
<1>9. ASSUME NEW u \in Clicks PROVE Transaction(u)'
  <2>1. CASE u = t
    BY <1>2, <2>1, NoSubType DEF Transaction
  <2>2. CASE u # t
    <3>1. sub'[u] = sub[u] /\ KeyOf(u)' = KeyOf(u) /\ \A c : LinkOf(u, c)' = LinkOf(u, c)
      BY <1>2, <2>2, SameKey
    <3>2. \A c : Covered(u, c) => Covered(u, c)'
      BY <1>3, <3>1 DEF Covered
    <3>3. Transaction(u) /\ Apart(t, u)
      BY <2>2 DEF FilingIInv
    <3> QED BY <1>2, <1>3, <3>1, <3>2, <3>3 DEF Transaction, Apart, IssuesKeepKeys
  <2> QED BY <2>1, <2>2
<1>10. ASSUME NEW u \in Clicks, NEW v \in Clicks, u # v PROVE Apart(u, v)'
  BY <1>2, <1>10, NoSubType DEF Apart, FilingIInv
<1> QED BY <1>4, <1>6, <1>7, <1>8, <1>9, <1>10 DEF FilingIInv

LEMMA CommitStep ==
    ASSUME FilingIInv, NEW t \in Clicks, Commit(t)
    PROVE  FilingIInv'
BY StoringStep DEF Commit, FilingIInv, FilingTypeOK

LEMMA CommitFailsStep ==
    ASSUME FilingIInv, NEW t \in Clicks, CommitFails(t)
    PROVE  FilingIInv'
<1>1. chances' \in [{"submits", "errors", "hands", "passes"} -> Nat]
  BY TakeType DEF CommitFails, FilingIInv
<1>2. CASE StoreLinks(t)
  BY <1>1, <1>2, StoringStep DEF CommitFails
<1>3. CASE UNCHANGED <<links, linked>>
  BY <1>1, <1>3, ReplyStep DEF CommitFails
<1> QED BY <1>2, <1>3 DEF CommitFails

LEMMA ByHandStep ==
    ASSUME FilingIInv, NEW c \in Cases, NEW i \in DOMAIN issues, LinkByHand(c, i)
    PROVE  FilingIInv'
<1>1. FilingTypeOK /\ issues' = issues /\ sub' = sub /\ touched' = touched \cup {c}
  BY DEF FilingIInv, LinkByHand
<1>2. PICK link : /\ link = [case |-> c, key |-> ByHand, issue |-> i]
                  /\ link.case = c /\ link.key = ByHand /\ link.issue = i
                  /\ links' = links \cup {link}
                  /\ \A l \in links \cup UNION {sub[t].rows : t \in Clicks} : ~Clash(l, link)
  BY DEF LinkByHand
<1>3. i \in Nat \ {0} /\ link \in Links
  <2>1. i \in Nat \ {0}
    BY <1>1 DEF FilingTypeOK
  <2> QED BY <1>2, <2>1 DEF Links, Keys, ByHand
<1>4. FilingTypeOK'
  BY <1>1, <1>2, <1>3, TakeType DEF FilingTypeOK, LinkByHand
<1>5. ASSUME NEW l \in links' PROVE Made(l)' /\ Whole(l)'
  <2>1. CASE l \in links
    BY <1>1, <1>2, <2>1 DEF FilingIInv, Made, Whole
  <2>2. CASE l = link
    BY <1>1, <1>2, <2>2 DEF Made, Whole
  <2> QED BY <1>2, <2>1, <2>2
<1>6. ASSUME NEW l \in links', NEW k \in links', Clash(l, k) PROVE l = k
  BY <1>2, <1>6, ClashIsMutual DEF FilingIInv
<1>7. ASSUME NEW t \in Clicks PROVE Transaction(t)'
  <2>1. KeyOf(t)' = KeyOf(t) /\ \A x : LinkOf(t, x)' = LinkOf(t, x)
    BY <1>1 DEF KeyOf, LinkOf
  <2>2. \A x : Covered(t, x) => Covered(t, x)'
    BY <1>1, <1>2, <2>1 DEF Covered
  <2>3. \A r \in sub[t].rows : ~Clash(link, r)
    BY <1>2, ClashIsMutual
  <2>4. Transaction(t)
    BY DEF FilingIInv
  <2> QED BY <1>1, <1>2, <2>1, <2>2, <2>3, <2>4 DEF Transaction
<1>8. \A t, u \in Clicks : t # u => Apart(t, u)'
  BY <1>1 DEF FilingIInv, Apart
<1> QED BY <1>4, <1>5, <1>6, <1>7, <1>8 DEF FilingIInv

LEMMA UnlinkStep ==
    ASSUME FilingIInv, NEW l \in links, Unlink(l)
    PROVE  FilingIInv'
<1>1. /\ FilingTypeOK /\ issues' = issues /\ sub' = sub
      /\ touched' = touched \cup {l.case} /\ links' = links \ {l}
  BY DEF FilingIInv, Unlink
<1>2. FilingTypeOK'
  BY <1>1, TakeType DEF FilingTypeOK, Unlink, Links
<1>3. ASSUME NEW k \in links' PROVE Made(k)' /\ Whole(k)'
  <2>1. Made(k) /\ Whole(k)
    BY <1>1, <1>3 DEF FilingIInv
  <2>2. Made(k)'
    BY <1>1, <2>1 DEF Made
  <2>3. ASSUME k.key # ByHand, k.case \notin touched', NEW c \in k.key.cases \ touched'
        PROVE  [case |-> c, key |-> k.key, issue |-> k.issue] \in links'
    BY <1>1, <2>1, <2>3 DEF Whole
  <2> QED BY <2>2, <2>3 DEF Whole
<1>4. \A k, j \in links' : Clash(k, j) => k = j
  BY <1>1 DEF FilingIInv
<1>5. ASSUME NEW t \in Clicks PROVE Transaction(t)'
  <2>1. KeyOf(t)' = KeyOf(t) /\ \A x : LinkOf(t, x)' = LinkOf(t, x)
    BY <1>1 DEF KeyOf, LinkOf
  <2>2. \A x : Covered(t, x) => Covered(t, x)'
    BY <1>1, <2>1 DEF Covered
  <2>3. Transaction(t)
    BY DEF FilingIInv
  <2> QED BY <1>1, <2>1, <2>2, <2>3 DEF Transaction
<1>6. \A t, u \in Clicks : t # u => Apart(t, u)'
  BY <1>1 DEF FilingIInv, Apart
<1> QED BY <1>2, <1>3, <1>4, <1>5, <1>6 DEF FilingIInv

\* Nothing that is filed changes.
LEMMA IdleStep ==
    ASSUME FilingIInv, FilingTypeOK', UNCHANGED <<links, issues, sub, touched>>
    PROVE  FilingIInv'
<1>1. \A l \in links' : Made(l)' /\ Whole(l)'
  BY DEF FilingIInv, Made, Whole
<1>2. ASSUME NEW t \in Clicks PROVE Transaction(t)'
  <2>1. KeyOf(t)' = KeyOf(t) /\ \A x : LinkOf(t, x)' = LinkOf(t, x)
    BY DEF KeyOf, LinkOf
  <2>2. \A x : Covered(t, x)' <=> Covered(t, x)
    BY <2>1 DEF Covered
  <2> QED BY <2>1, <2>2 DEF Transaction, FilingIInv
<1> QED BY <1>1, <1>2 DEF FilingIInv, Apart

-----------------------------------------------------------------------------
LEMMA FilingInitIInv == FilingInit => FilingIInv
<1> SUFFICES ASSUME FilingInit PROVE FilingIInv
  OBVIOUS
<1>1. FilingTypeOK
  <2>1. sub \in [Clicks -> SubType]
    BY NoSubType DEF FilingInit
  <2>2. chances \in [{"submits", "errors", "hands", "passes"} -> Nat]
    BY FilingAssumption DEF FilingInit
  <2>3. issues \in Seq([key : Keys, state : {"open", "ok", "failed", "repeated"}])
    BY DEF FilingInit
  <2> QED BY <2>1, <2>2, <2>3 DEF FilingInit, FilingTypeOK, SubType
<1>2. \A t \in Clicks : Transaction(t)
  BY NoSubType DEF FilingInit, Transaction
<1>3. \A t, u \in Clicks : Apart(t, u)
  BY NoSubType DEF FilingInit, Apart
<1> QED BY <1>1, <1>2, <1>3 DEF FilingIInv, FilingInit

LEMMA FilingNextIInv == FilingIInv /\ [FilingNext]_filingVars => FilingIInv'
<1> SUFFICES ASSUME FilingIInv, [FilingNext]_filingVars PROVE FilingIInv'
  OBVIOUS
<1>1. ASSUME NEW t \in Clicks, FilingStep(t) PROVE FilingIInv'
  <2>1. ASSUME NEW f \in Forms, Submit(t, f) PROVE FilingIInv'
    BY <2>1, SubmitStep
  <2>2. ASSUME NEW c \in Cases, PatchCase(t, c) \/ PatchCaseFails(t, c) \/ LookUp(t, c) \/ LinkCase(t, c)
        PROVE  FilingIInv'
    BY <2>2, PatchCaseStep, PatchCaseFailsStep, LookUpStep, LinkCaseStep
  <2>3. CASE AskJira(t) \/ Check(t) \/ PostAgain(t) \/ CreateIssue(t) \/ CreateFails(t)
    BY <2>3, AskJiraStep, CheckStep, PostAgainStep, CreateIssueStep, CreateFailsStep
  <2>4. CASE Deadlocked(t) \/ Commit(t) \/ CommitFails(t)
    BY <2>4, DeadlockedStep, CommitStep, CommitFailsStep
  <2> QED BY <1>1, <2>1, <2>2, <2>3, <2>4 DEF FilingStep
<1>2. ASSUME NEW c \in Cases, Pass(c) PROVE FilingIInv'
  <2>1. FilingTypeOK'
    BY <1>2, TakeType DEF Pass, FilingIInv, FilingTypeOK
  <2> QED BY <1>2, <2>1, IdleStep DEF Pass
<1>3. ASSUME NEW c \in Cases, NEW i \in DOMAIN issues, LinkByHand(c, i) PROVE FilingIInv'
  BY <1>3, ByHandStep
<1>4. ASSUME NEW l \in links, Unlink(l) PROVE FilingIInv'
  BY <1>4, UnlinkStep
<1>5. CASE UNCHANGED filingVars
  <2>1. FilingTypeOK'
    BY <1>5 DEF filingVars, FilingIInv, FilingTypeOK
  <2> QED BY <1>5, <2>1, IdleStep DEF filingVars
<1> QED BY <1>1, <1>2, <1>3, <1>4, <1>5 DEF FilingNext

\* The invariant: what is committed under a key is committed for all of its cases,
\* and no two rows, committed or not, break a unique constraint.
THEOREM FilingIInvHolds == FilingSpec => []FilingIInv
BY FilingInitIInv, FilingNextIInv, PTL DEF FilingSpec

\* Every variable of the filing has its type: an issue number that a link bears is
\* never 0, and a submission that is over has been cleared.
THEOREM FilingTypeCorrect == FilingSpec => []FilingTypeOK
<1>1. FilingIInv => FilingTypeOK
  BY DEF FilingIInv
<1> QED BY <1>1, FilingIInvHolds, PTL

\* Run cases filed under one key, and never linked by hand, have the same issue,
\* for any number of simultaneous submissions, run cases, errors and commits.
THEOREM FilingKeyNamesOneIssue == FilingSpec => []KeyNamesOneIssue
<1>1. FilingIInv => KeyNamesOneIssue
  <2> SUFFICES ASSUME FilingIInv, NEW l \in links, NEW k \in links,
                      l.key = k.key, l.key # ByHand, l.case \notin touched, k.case \notin touched
               PROVE  l.issue = k.issue
    BY DEF KeyNamesOneIssue
  <2>1. Whole(l) /\ Made(k)
    BY DEF FilingIInv
  <2>2. [case |-> k.case, key |-> l.key, issue |-> l.issue] \in links
    BY <2>1 DEF Whole, Made
  <2>3. Clash([case |-> k.case, key |-> l.key, issue |-> l.issue], k)
    BY DEF Clash
  <2>4. [case |-> k.case, key |-> l.key, issue |-> l.issue] = k
    BY <2>2, <2>3 DEF FilingIInv
  <2> QED BY <2>4
<1> QED BY <1>1, FilingIInvHolds, PTL

-----------------------------------------------------------------------------
(* How issues come about: an issue without a link, and a second issue for    *)
(* the same cases, have a reason.                                            *)
OneFiling(t) ==
    \A u \in Clicks \ {t} :
        Filing(t) /\ Filing(u) /\ KeyOf(u) = KeyOf(t) => KeyOf(t) \in rivals

\* Submission t is linking cases to the issue that it has created itself.
Opened(t) == sub[t].pc = "linking" /\ issues[sub[t].issue].state = "open"

FirstOfItsKey(t) ==
    sub[t].pc = "creating" /\ KeyOf(t) \notin rivals /\ sub[t].done \cap touched = {} =>
        \A i \in DOMAIN issues :
            issues[i].key = KeyOf(t) => issues[i].state \in {"failed", "repeated"}

NoLinkYet(t) ==
    (sub[t].pc = "creating" \/ Opened(t)) /\ KeyOf(t) \notin rivals => Keyed(t) = {}

RowsOrLinked(t) ==
    Opened(t) /\ KeyOf(t) \notin rivals =>
        \A c \in sub[t].done \ sub[t].todo :
            LinkOf(t, c) \in sub[t].rows \/ sub[t].issue \in linked

Undisputed(t) == FirstOfItsKey(t) /\ NoLinkYet(t) /\ RowsOrLinked(t)

OpenIsLinking(i) ==
    issues[i].state = "open" => \E t \in Clicks : sub[t].pc = "linking" /\ sub[t].issue = i

OkIsLinked(i) ==
    issues[i].state = "ok" /\ issues[i].key.cases \cap touched = {} =>
        \A c \in issues[i].key.cases : \E l \in links : l.case = c /\ l.key = issues[i].key

FilingHistory ==
    /\ \A t \in Clicks : OneFiling(t) /\ Undisputed(t)
    /\ \A i \in DOMAIN issues : OpenIsLinking(i) /\ OkIsLinked(i)
    /\ \A l \in links : l.issue \in linked
    /\ OrphanMeansFailureOrOverlap
    /\ SecondIssueNeedsAReason

Remembered == rivals \subseteq rivals' /\ touched \subseteq touched' /\ linked \subseteq linked'

\* What becomes of an issue once it is not open any more is final.
Settles ==
    \A i \in DOMAIN issues :
        \/ issues'[i].state = issues[i].state
        \/ issues[i].state = "open" /\ issues'[i].state # "open"

LEMMA NewIssueStates ==
    ASSUME FilingTypeOK, NEW t \in Clicks, NEW how \in {"open", "failed", "repeated"}, NewIssue(t, how)
    PROVE  /\ Len(issues) + 1 \notin DOMAIN issues
           /\ DOMAIN issues' = DOMAIN issues \cup {Len(issues) + 1}
           /\ issues'[Len(issues) + 1].key = KeyOf(t) /\ issues'[Len(issues) + 1].state = how
           /\ \A i \in DOMAIN issues : issues'[i] = issues[i]
           /\ \A i, j \in DOMAIN issues' : i < j => i \in DOMAIN issues
<1>1. issues \in Seq(Issue) /\ Len(issues) \in Nat /\ DOMAIN issues = 1..Len(issues)
  BY DEF FilingTypeOK, Issue
<1>2. PICK new \in Issue : new = [key |-> KeyOf(t), state |-> how] /\ new.key = KeyOf(t) /\ new.state = how
  <2>1. PICK k \in Keys : k = KeyOf(t)
    BY KeyFacts
  <2>2. PICK x \in Issue : x = [key |-> k, state |-> how]
    BY DEF Issue
  <2>3. x.key = k /\ x.state = how
    BY <2>2
  <2> QED BY <2>1, <2>2, <2>3
<1>3. issues' = Append(issues, new)
  BY <1>2 DEF NewIssue
<1>4. /\ issues'[Len(issues) + 1] = new
      /\ \A n \in 1..Len(issues) : issues'[n] = issues[n]
      /\ DOMAIN issues' = 1..(Len(issues) + 1)
  BY <1>1, <1>3
<1>5. /\ 1..(Len(issues) + 1) = (1..Len(issues)) \cup {Len(issues) + 1}
      /\ Len(issues) + 1 \notin 1..Len(issues)
      /\ \A i, j \in 1..(Len(issues) + 1) : i < j => i \in 1..Len(issues)
  BY <1>1
<1> QED BY <1>1, <1>2, <1>4, <1>5

LEMMA ReplyStates ==
    ASSUME FilingTypeOK, NEW t \in Clicks, NEW how \in {"ok", "failed"}, Reply(t, how),
           sub[t].pc = "linking" => sub[t].issue \in DOMAIN issues
    PROVE  /\ DOMAIN issues' = DOMAIN issues
           /\ \A i \in DOMAIN issues :
                 /\ issues'[i].key = issues[i].key
                 /\ issues'[i].state = IF Opened(t) /\ i = sub[t].issue THEN how ELSE issues[i].state
<1>1. issues \in Seq(Issue) /\ \A i \in DOMAIN issues : issues[i] \in Issue
  <2>1. issues \in Seq(Issue)
    BY DEF FilingTypeOK, Issue
  <2> QED BY <2>1
<1>2. CASE sub[t].pc = "linking"
  <2>1. PICK n \in DOMAIN issues : n = sub[t].issue
    BY <1>2
  <2>2. issues' = [issues EXCEPT ![n].state = IF @ = "open" THEN how ELSE @]
    BY <1>2, <2>1 DEF Reply
  <2>3. DOMAIN issues' = DOMAIN issues
        /\ \A i \in DOMAIN issues : i # n => issues'[i] = issues[i]
    BY <1>1, <2>2
  <2>4. PICK x \in Issue : x = issues[n]
    BY <1>1
  <2>5. issues'[n] = [x EXCEPT !.state = IF x.state = "open" THEN how ELSE x.state]
    BY <1>1, <2>2, <2>4
  <2>6. issues'[n].key = x.key /\ issues'[n].state = IF x.state = "open" THEN how ELSE x.state
    BY <2>5 DEF Issue
  <2> QED BY <1>2, <2>1, <2>3, <2>4, <2>6 DEF Opened
<1>3. CASE sub[t].pc # "linking"
  BY <1>3 DEF Reply, Opened
<1> QED BY <1>2, <1>3

\* A step of others leaves a filing undisputed, unless they share its key.
LEMMA StaysUndisputed ==
    ASSUME FilingIInv, FilingHistory, NEW u \in Clicks, sub'[u] = sub[u],
           Remembered, IssuesKeepKeys, Settles,
           \A i \in DOMAIN issues' \ DOMAIN issues :
               Filing(u) /\ issues'[i].key = KeyOf(u) => KeyOf(u) \in rivals,
           \A l \in links' \ links : Filing(u) /\ l.key = KeyOf(u) => KeyOf(u) \in rivals
    PROVE  Undisputed(u)'
<1>1. KeyOf(u)' = KeyOf(u) /\ \A c : LinkOf(u, c)' = LinkOf(u, c)
  BY SameKey
<1>2. Undisputed(u) /\ Transaction(u)
  BY DEF FilingHistory, FilingIInv
<1>3. Opened(u)' => Opened(u)
  BY <1>2 DEF Opened, Transaction, Settles
<1>4. FirstOfItsKey(u)'
  <2> SUFFICES ASSUME sub[u].pc = "creating", KeyOf(u) \notin rivals, sub[u].done \cap touched = {},
                      NEW i \in DOMAIN issues', issues'[i].key = KeyOf(u)
               PROVE  issues'[i].state \in {"failed", "repeated"}
    BY <1>1 DEF FirstOfItsKey, Remembered
  <2>1. i \in DOMAIN issues
    BY DEF Filing
  <2>2. issues[i].state \in {"failed", "repeated"}
    BY <1>2, <2>1 DEF Undisputed, FirstOfItsKey, IssuesKeepKeys
  <2> QED BY <2>1, <2>2 DEF Settles
<1>5. NoLinkYet(u)'
  <2> SUFFICES ASSUME sub[u].pc = "creating" \/ Opened(u), KeyOf(u) \notin rivals,
                      NEW l \in links', l.case \in sub[u].done, l.key = KeyOf(u)
               PROVE  FALSE
    BY <1>1, <1>3 DEF NoLinkYet, Keyed, Remembered
  <2>1. l \in links
    BY DEF Filing, Opened
  <2> QED BY <1>2, <2>1 DEF Undisputed, NoLinkYet, Keyed
<1>6. RowsOrLinked(u)'
  BY <1>1, <1>2, <1>3 DEF Undisputed, RowsOrLinked, Remembered
<1> QED BY <1>4, <1>5, <1>6 DEF Undisputed

LEMMA StaysOneFiling ==
    ASSUME FilingHistory, NEW t \in Clicks, Others(t), Remembered,
           Filing(t)' => Filing(t) /\ KeyOf(t)' = KeyOf(t)
    PROVE  \A u \in Clicks : OneFiling(u)'
<1> SUFFICES ASSUME NEW u \in Clicks, NEW v \in Clicks \ {u}, Filing(u)', Filing(v)',
                    KeyOf(v)' = KeyOf(u)'
             PROVE  KeyOf(u)' \in rivals'
  BY DEF OneFiling
<1>1. \A w \in Clicks : Filing(w)' => Filing(w) /\ KeyOf(w)' = KeyOf(w)
  BY SameKey DEF Others, Filing
<1> QED BY <1>1 DEF FilingHistory, OneFiling, Remembered

\* A step that touches no issue and no link, and keeps what t is linking.
LEMMA QuietHistory ==
    ASSUME FilingIInv, FilingHistory, NEW t \in Clicks, Others(t),
           UNCHANGED <<links, issues, touched, linked>>, rivals \subseteq rivals',
           sub[t].pc = "linking" => sub'[t].pc = "linking" /\ sub'[t].issue = sub[t].issue,
           \A u \in Clicks : OneFiling(u)', Undisputed(t)'
    PROVE  FilingHistory'
<1>1. Remembered /\ Settles /\ IssuesKeepKeys
  BY UnchangedIssues DEF Remembered, Settles, FilingIInv
<1>2. \A u \in Clicks \ {t} : Undisputed(u)'
  BY <1>1, StaysUndisputed DEF Others
<1>3. ASSUME NEW i \in DOMAIN issues' PROVE OpenIsLinking(i)' /\ OkIsLinked(i)'
  <2>1. OpenIsLinking(i) /\ OkIsLinked(i)
    BY DEF FilingHistory
  <2>2. OpenIsLinking(i)'
    BY <2>1 DEF OpenIsLinking, Others
  <2> QED BY <2>1, <2>2 DEF OkIsLinked
<1>4. (\A l \in links : l.issue \in linked)'
  BY DEF FilingHistory
<1>5. OrphanMeansFailureOrOverlap' /\ SecondIssueNeedsAReason'
  BY DEF FilingHistory, OrphanMeansFailureOrOverlap, SecondIssueNeedsAReason
<1> QED BY <1>2, <1>3, <1>4, <1>5 DEF FilingHistory

-----------------------------------------------------------------------------
\* A submission that is not being filed, or not any more, disputes nothing.
LEMMA IdleHistory ==
    ASSUME FilingIInv, FilingHistory, NEW t \in Clicks, Others(t),
           UNCHANGED <<links, issues, touched, rivals, linked>>,
           sub[t].pc # "linking", sub'[t].pc \in {"idle", "patching"}
    PROVE  FilingHistory'
<1>1. ~Filing(t)' /\ Undisputed(t)'
  BY DEF Filing, Undisputed, FirstOfItsKey, NoLinkYet, RowsOrLinked, Opened
<1>2. \A u \in Clicks : OneFiling(u)'
  BY <1>1, StaysOneFiling DEF Remembered
<1> QED BY <1>1, <1>2, QuietHistory

\* An issue of the key that is still open is being linked by another filing of it.
LEMMA OpenIsContested ==
    ASSUME FilingIInv, FilingHistory, NEW t \in Clicks, Filing(t), sub[t].pc # "linking",
           NEW i \in DOMAIN issues, issues[i].key = KeyOf(t), issues[i].state = "open"
    PROVE  KeyOf(t) \in rivals
<1>1. PICK u \in Clicks : sub[u].pc = "linking" /\ sub[u].issue = i
  BY DEF FilingHistory, OpenIsLinking
<1>2. u # t /\ Filing(u) /\ KeyOf(u) = KeyOf(t)
  BY <1>1 DEF Filing, FilingIInv, Transaction
<1> QED BY <1>2 DEF FilingHistory, OneFiling

LEMMA SubmitHistory ==
    ASSUME FilingIInv, FilingHistory, NEW t \in Clicks, NEW f \in Forms, Submit(t, f)
    PROVE  FilingHistory'
<1>1. sub'[t].pc = "patching" /\ Others(t)
  BY DEF Submit, NoSub, Others, FilingIInv, FilingTypeOK
<1> QED BY <1>1, IdleHistory DEF Submit

LEMMA PatchHistory ==
    ASSUME FilingIInv, FilingHistory, NEW t \in Clicks, NEW c \in Cases,
           PatchCase(t, c) \/ PatchCaseFails(t, c)
    PROVE  FilingHistory'
<1>1. sub[t] \in SubType /\ sub \in [Clicks -> SubType] /\ sub[t].pc = "patching"
  BY KeyFacts DEF FilingIInv, FilingTypeOK, SubType, PatchCase, PatchCaseFails
<1>2. PICK x \in SubType : x = sub[t]
  BY <1>1
<1>3. sub'[t].pc = "patching" /\ Others(t)
  <2>1. CASE PatchCase(t, c)
    <3>1. sub' = [sub EXCEPT ![t] = [x EXCEPT !.todo = x.todo \ {c}, !.done = x.done \cup {c}]]
      BY <1>1, <1>2, <2>1 DEF PatchCase
    <3> QED BY <1>1, <1>2, <3>1 DEF Others, SubType
  <2>2. CASE PatchCaseFails(t, c)
    <3>1. sub' = [sub EXCEPT ![t] = [x EXCEPT !.todo = x.todo \ {c}]]
      BY <1>1, <1>2, <2>2 DEF PatchCaseFails
    <3> QED BY <1>1, <1>2, <3>1 DEF Others, SubType
  <2> QED BY <2>1, <2>2
<1> QED BY <1>1, <1>3, IdleHistory DEF PatchCase, PatchCaseFails

\* Two filings of one key exist only after the second of them has been noticed.
LEMMA AskJiraHistory ==
    ASSUME FilingIInv, FilingHistory, NEW t \in Clicks, AskJira(t)
    PROVE  FilingHistory'
<1>1. sub[t] \in SubType /\ sub \in [Clicks -> SubType] /\ sub[t].pc = "patching"
  BY KeyFacts DEF FilingIInv, FilingTypeOK, SubType, AskJira
<1>2. CASE sub[t].done = {}
  <2>1. sub'[t] = NoSub /\ Others(t)
    BY <1>1, <1>2 DEF AskJira, Others
  <2> QED BY <1>1, <1>2, <2>1, NoSubType, IdleHistory DEF AskJira
<1>3. CASE sub[t].done # {}
  <2>1. PICK x \in SubType : x = sub[t]
    BY <1>1
  <2>2. sub' = [sub EXCEPT ![t] = [x EXCEPT !.pc = "asked"]]
    BY <1>1, <1>3, <2>1 DEF AskJira
  <2>3. sub'[t].pc = "asked" /\ KeyOf(t)' = KeyOf(t) /\ Others(t)
    BY <1>1, <2>1, <2>2 DEF Others, SubType, KeyOf
  <2>4. rivals \subseteq rivals'
        /\ ((\E u \in Clicks \ {t} : Filing(u) /\ KeyOf(u) = KeyOf(t)) => KeyOf(t) \in rivals')
    BY <1>3 DEF AskJira
  <2>5. ASSUME NEW u \in Clicks, NEW v \in Clicks \ {u}, Filing(u)', Filing(v)', KeyOf(v)' = KeyOf(u)'
        PROVE  KeyOf(u)' \in rivals'
    <3>1. \A w \in Clicks \ {t} : (Filing(w)' <=> Filing(w)) /\ KeyOf(w)' = KeyOf(w)
      BY <2>3, SameKey DEF Others, Filing
    <3>2. CASE u = t \/ v = t
      BY <2>3, <2>4, <2>5, <3>1, <3>2
    <3>3. CASE u # t /\ v # t
      BY <2>4, <2>5, <3>1, <3>3 DEF FilingHistory, OneFiling
    <3> QED BY <3>2, <3>3
  <2>6. Undisputed(t)'
    BY <2>3 DEF Undisputed, FirstOfItsKey, NoLinkYet, RowsOrLinked, Opened
  <2>7. \A u \in Clicks : OneFiling(u)'
    BY <2>5 DEF OneFiling
  <2> QED BY <1>1, <2>3, <2>4, <2>6, <2>7, QuietHistory DEF AskJira
<1> QED BY <1>2, <1>3

\* A filing that finds no link of its key may be the first; one that finds a link
\* has not created the issue of that link itself.
LEMMA CheckHistory ==
    ASSUME FilingIInv, FilingHistory, NEW t \in Clicks, Check(t)
    PROVE  FilingHistory'
<1>1. /\ FilingTypeOK /\ Transaction(t) /\ sub[t] \in SubType /\ sub \in [Clicks -> SubType]
      /\ sub[t].pc = "asked" /\ Filing(t) /\ sub[t].done # {}
      /\ KeyOf(t).cases = sub[t].done /\ KeyOf(t) # ByHand
  BY KeyFacts DEF FilingIInv, Transaction, FilingTypeOK, SubType, Check, Filing
<1>2. PICK x \in SubType : x = sub[t]
  BY <1>1
<1>3. CASE issues' = issues /\ sub' = [sub EXCEPT ![t] = NoSub]
  <2>1. sub'[t] = NoSub /\ Others(t)
    BY <1>1, <1>3 DEF Others
  <2> QED BY <1>1, <1>3, <2>1, NoSubType, IdleHistory DEF Check
<1>4. CASE issues' = issues /\ Keyed(t) = {} /\ sub' = [sub EXCEPT ![t].pc = "creating"]
  <2>1. sub' = [sub EXCEPT ![t] = [x EXCEPT !.pc = "creating"]]
    BY <1>1, <1>2, <1>4
  <2>2. sub'[t].pc = "creating" /\ sub'[t].done = sub[t].done /\ KeyOf(t)' = KeyOf(t) /\ Others(t)
    BY <1>1, <1>2, <2>1 DEF Others, SubType, KeyOf
  <2>3. ASSUME KeyOf(t) \notin rivals, sub[t].done \cap touched = {},
               NEW i \in DOMAIN issues, issues[i].key = KeyOf(t)
        PROVE  issues[i].state \in {"failed", "repeated"}
    <3>1. issues[i].state # "open"
      BY <1>1, <2>3, OpenIsContested
    <3>2. issues[i].state # "ok"
      BY <1>1, <1>4, <2>3 DEF FilingHistory, OkIsLinked, Keyed
    <3>3. issues \in Seq(Issue) /\ issues[i] \in Issue
      <4>1. issues \in Seq(Issue)
        BY <1>1 DEF FilingTypeOK, Issue
      <4> QED BY <4>1
    <3> QED BY <3>1, <3>2, <3>3 DEF Issue
  <2>4. FirstOfItsKey(t)'
    BY <1>4, <2>2, <2>3 DEF FirstOfItsKey, Check
  <2>5. NoLinkYet(t)' /\ RowsOrLinked(t)'
    BY <1>4, <2>2 DEF NoLinkYet, RowsOrLinked, Opened, Keyed, Check
  <2>6. \A u \in Clicks : OneFiling(u)'
    BY <1>1, <2>2, StaysOneFiling DEF Remembered, Check
  <2> QED BY <1>1, <1>4, <2>2, <2>4, <2>5, <2>6, QuietHistory DEF Undisputed, Check
<1>5. ASSUME issues' = issues, NEW l \in Keyed(t),
             sub' = [sub EXCEPT ![t].pc = "linking", ![t].issue = l.issue, ![t].todo = sub[t].done]
      PROVE  FilingHistory'
  <2>1. sub' = [sub EXCEPT ![t] = [x EXCEPT !.pc = "linking", !.issue = l.issue, !.todo = x.done]]
    BY <1>1, <1>2, <1>5
  <2>2. sub'[t].pc = "linking" /\ sub'[t].issue = l.issue /\ KeyOf(t)' = KeyOf(t) /\ Others(t)
    BY <1>1, <1>2, <2>1 DEF Others, SubType, KeyOf
  <2>3. l.issue \in DOMAIN issues /\ issues[l.issue].key = KeyOf(t)
    BY <1>1, <1>5 DEF Keyed, FilingIInv, Made
  <2>4. Opened(t)' => KeyOf(t)' \in rivals'
    <3>1. PICK i \in DOMAIN issues : i = l.issue
      BY <2>3
    <3>2. issues[i].state = "open" => KeyOf(t) \in rivals
      BY <1>1, <2>3, <3>1, OpenIsContested
    <3> QED BY <1>5, <2>2, <3>1, <3>2 DEF Opened, Check
  <2>5. Undisputed(t)'
    BY <2>2, <2>4 DEF Undisputed, FirstOfItsKey, NoLinkYet, RowsOrLinked
  <2>6. \A u \in Clicks : OneFiling(u)'
    BY <1>1, <2>2, StaysOneFiling DEF Remembered, Check
  <2> QED BY <1>1, <1>5, <2>2, <2>5, <2>6, QuietHistory DEF Check
<1> QED BY <1>1, <1>3, <1>4, <1>5 DEF Check, Reply

\* A new issue is the first of its key, or has a reason: an earlier filing of the key
\* in error, a repeated request, another filing at the same time, or a case that was
\* touched by hand.
LEMMA NewIssueHistory ==
    ASSUME FilingIInv, FilingHistory, NEW t \in Clicks, NEW how \in {"open", "failed", "repeated"},
           sub[t].pc = "creating", NewIssue(t, how), Others(t),
           UNCHANGED <<links, touched, rivals, linked>>,
           Filing(t)' => KeyOf(t)' = KeyOf(t), Undisputed(t)',
           how = "open" => sub'[t].pc = "linking" /\ sub'[t].issue = Len(issues) + 1
    PROVE  FilingHistory'
<1>1. /\ FilingTypeOK /\ Filing(t) /\ KeyOf(t).cases = sub[t].done
      /\ Undisputed(t) /\ OneFiling(t)
  BY KeyFacts DEF FilingIInv, Filing, FilingHistory
<1>2. IssuesKeepKeys
  BY <1>1, NewIssueKeeps
<1>3. PICK n : /\ n = Len(issues) + 1 /\ n \notin DOMAIN issues
               /\ DOMAIN issues' = DOMAIN issues \cup {n}
               /\ issues'[n].key = KeyOf(t) /\ issues'[n].state = how
               /\ \A i \in DOMAIN issues : issues'[i] = issues[i]
               /\ \A i, j \in DOMAIN issues' : i < j => i \in DOMAIN issues
  BY <1>1, NewIssueStates
<1>4. Settles /\ Remembered
  BY <1>3 DEF Settles, Remembered
<1>5. ASSUME NEW u \in Clicks \ {t} PROVE Undisputed(u)'
  <2>1. Filing(u) /\ KeyOf(u) = KeyOf(t) => KeyOf(u) \in rivals
    BY <1>1 DEF OneFiling
  <2>2. \A i \in DOMAIN issues' \ DOMAIN issues :
            Filing(u) /\ issues'[i].key = KeyOf(u) => KeyOf(u) \in rivals
    BY <1>3, <2>1
  <2> QED BY <1>2, <1>4, <2>2, StaysUndisputed DEF Others
<1>6. \A u \in Clicks : OneFiling(u)'
  BY <1>1, <1>4, StaysOneFiling
<1>7. ASSUME NEW i \in DOMAIN issues' PROVE OpenIsLinking(i)' /\ OkIsLinked(i)'
  <2>1. CASE i = n
    BY <1>3, <2>1 DEF OpenIsLinking, OkIsLinked
  <2>2. CASE i # n
    <3>1. i \in DOMAIN issues /\ OpenIsLinking(i) /\ OkIsLinked(i)
      BY <1>3, <2>2 DEF FilingHistory
    <3>2. OpenIsLinking(i)'
      BY <1>3, <3>1 DEF OpenIsLinking, Others
    <3> QED BY <1>3, <3>1, <3>2 DEF OkIsLinked
  <2> QED BY <2>1, <2>2
<1>8. (\A l \in links : l.issue \in linked)'
  BY DEF FilingHistory
<1>9. OrphanMeansFailureOrOverlap'
  BY <1>3 DEF FilingHistory, OrphanMeansFailureOrOverlap
<1>10. SecondIssueNeedsAReason'
  <2> SUFFICES ASSUME NEW i \in DOMAIN issues', NEW j \in DOMAIN issues', i < j,
                      issues'[i].key = issues'[j].key, issues'[i].key \notin rivals,
                      issues'[i].key.cases \cap touched = {}
               PROVE  issues'[i].state \in {"failed", "repeated"}
    BY DEF SecondIssueNeedsAReason
  <2>1. i \in DOMAIN issues /\ issues'[i] = issues[i]
    BY <1>3
  <2>2. CASE j = n
    BY <1>1, <1>3, <2>1, <2>2 DEF Undisputed, FirstOfItsKey
  <2>3. CASE j # n
    BY <1>3, <2>1, <2>3 DEF FilingHistory, SecondIssueNeedsAReason
  <2> QED BY <2>2, <2>3
<1> QED BY <1>5, <1>6, <1>7, <1>8, <1>9, <1>10 DEF FilingHistory

LEMMA PostAgainHistory ==
    ASSUME FilingIInv, FilingHistory, NEW t \in Clicks, PostAgain(t)
    PROVE  FilingHistory'
<1>1. /\ sub[t] \in SubType /\ sub \in [Clicks -> SubType] /\ Undisputed(t)
      /\ KeyOf(t).cases = sub[t].done /\ sub[t].pc = "creating"
  BY KeyFacts DEF FilingIInv, FilingTypeOK, SubType, FilingHistory, PostAgain
<1>2. PICK x \in SubType : x = sub[t]
  BY <1>1
<1>3. sub' = [sub EXCEPT ![t] = [x EXCEPT !.posts = x.posts + 1]]
  BY <1>1, <1>2 DEF PostAgain
<1>4. /\ sub'[t].pc = "creating" /\ sub'[t].done = sub[t].done
      /\ KeyOf(t)' = KeyOf(t) /\ Others(t)
  BY <1>1, <1>2, <1>3 DEF Others, SubType, KeyOf
<1>5. NoLinkYet(t)' /\ RowsOrLinked(t)'
  BY <1>1, <1>4 DEF PostAgain, Undisputed, NoLinkYet, Keyed, RowsOrLinked, Opened
<1>6. CASE NewIssue(t, "repeated")
  <2>1. PICK n : /\ DOMAIN issues' = DOMAIN issues \cup {n} /\ issues'[n].state = "repeated"
                 /\ \A i \in DOMAIN issues : issues'[i] = issues[i]
    BY <1>6, NewIssueStates DEF FilingIInv
  <2>2. FirstOfItsKey(t)'
    BY <1>1, <1>4, <2>1 DEF PostAgain, Undisputed, FirstOfItsKey
  <2>3. Undisputed(t)'
    BY <1>5, <2>2 DEF Undisputed
  <2> QED BY <1>1, <1>4, <1>6, <2>3, NewIssueHistory DEF PostAgain
<1>7. CASE UNCHANGED issues
  <2>1. FirstOfItsKey(t)'
    BY <1>1, <1>4, <1>7 DEF PostAgain, Undisputed, FirstOfItsKey
  <2>2. Undisputed(t)'
    BY <1>5, <2>1 DEF Undisputed
  <2>3. \A u \in Clicks : OneFiling(u)'
    BY <1>1, <1>4, StaysOneFiling DEF Remembered, Filing, PostAgain
  <2> QED BY <1>1, <1>4, <1>7, <2>2, <2>3, QuietHistory DEF PostAgain
<1> QED BY <1>6, <1>7 DEF PostAgain

LEMMA CreateIssueHistory ==
    ASSUME FilingIInv, FilingHistory, NEW t \in Clicks, CreateIssue(t)
    PROVE  FilingHistory'
<1>1. sub[t] \in SubType /\ sub \in [Clicks -> SubType] /\ Undisputed(t)
  BY KeyFacts DEF FilingIInv, FilingTypeOK, SubType, FilingHistory
<1>2. PICK x \in SubType : x = sub[t]
  BY <1>1
<1>3. sub' = [sub EXCEPT ![t] = [x EXCEPT !.pc = "linking", !.issue = Len(issues) + 1, !.todo = x.done]]
  BY <1>1, <1>2 DEF CreateIssue
<1>4. /\ sub'[t].pc = "linking" /\ sub'[t].issue = Len(issues) + 1
      /\ sub'[t].done = sub[t].done /\ sub'[t].todo = sub[t].done
      /\ KeyOf(t)' = KeyOf(t) /\ Others(t)
  BY <1>1, <1>2, <1>3 DEF Others, SubType, KeyOf
<1>5. Undisputed(t)'
  <2>1. NoLinkYet(t)'
    BY <1>1, <1>4 DEF CreateIssue, Undisputed, NoLinkYet, Keyed
  <2>2. FirstOfItsKey(t)' /\ RowsOrLinked(t)'
    BY <1>4 DEF FirstOfItsKey, RowsOrLinked
  <2> QED BY <2>1, <2>2 DEF Undisputed
<1> QED BY <1>4, <1>5, NewIssueHistory DEF CreateIssue

LEMMA CreateFailsHistory ==
    ASSUME FilingIInv, FilingHistory, NEW t \in Clicks, CreateFails(t)
    PROVE  FilingHistory'
<1>1. sub'[t] = NoSub /\ Others(t)
  BY DEF CreateFails, Others, FilingIInv, FilingTypeOK
<1>2. CASE NewIssue(t, "failed")
  <2>1. ~Filing(t)' /\ Undisputed(t)'
    BY <1>1, NoSubType DEF Filing, Undisputed, FirstOfItsKey, NoLinkYet, RowsOrLinked, Opened
  <2> QED BY <1>1, <1>2, <2>1, NewIssueHistory DEF CreateFails
<1>3. CASE UNCHANGED issues
  BY <1>1, <1>3, NoSubType, IdleHistory DEF CreateFails
<1> QED BY <1>2, <1>3 DEF CreateFails

-----------------------------------------------------------------------------
\* The end of a transaction settles what became of the issue it created, if any.
LEMMA ReplyHistory ==
    ASSUME FilingIInv, FilingHistory, NEW t \in Clicks, NEW how \in {"ok", "failed"},
           sub[t].pc = "linking", Reply(t, how), UNCHANGED <<touched, rivals>>,
           links \subseteq links', linked \subseteq linked',
           \A l \in links' \ links : l.key = KeyOf(t),
           \A l \in links' : l.issue \in linked',
           \A i \in DOMAIN issues :
               Opened(t) /\ sub[t].issue = i /\ how = "ok" =>
                   OkIsLinked(i)' /\ (KeyOf(t) \in rivals \/ i \in linked')
    PROVE  FilingHistory'
<1>1. FilingTypeOK /\ Transaction(t) /\ Filing(t) /\ OneFiling(t)
  BY DEF FilingIInv, Filing, FilingHistory
<1>2. IssuesKeepKeys /\ sub'[t] = NoSub /\ Others(t)
  BY <1>1, ReplyKeeps DEF Transaction, Others
<1>3. /\ DOMAIN issues' = DOMAIN issues
      /\ \A i \in DOMAIN issues :
            /\ issues'[i].key = issues[i].key
            /\ issues'[i].state = IF Opened(t) /\ i = sub[t].issue THEN how ELSE issues[i].state
  BY <1>1, ReplyStates DEF Transaction
<1>4. Settles /\ Remembered
  BY <1>3 DEF Settles, Remembered, Opened
<1>5. ASSUME NEW u \in Clicks PROVE Undisputed(u)'
  <2>1. CASE u = t
    BY <1>2, <2>1, NoSubType DEF Undisputed, FirstOfItsKey, NoLinkYet, RowsOrLinked, Opened
  <2>2. CASE u # t
    <3>1. Filing(u) /\ KeyOf(u) = KeyOf(t) => KeyOf(u) \in rivals
      BY <1>1, <2>2 DEF OneFiling
    <3>2. \A l \in links' \ links : Filing(u) /\ l.key = KeyOf(u) => KeyOf(u) \in rivals
      BY <3>1
    <3> QED BY <1>2, <1>3, <1>4, <2>2, <3>2, StaysUndisputed DEF Others
  <2> QED BY <2>1, <2>2
<1>6. \A u \in Clicks : OneFiling(u)'
  <2>1. ~Filing(t)'
    BY <1>2, NoSubType DEF Filing
  <2> QED BY <1>2, <1>4, <2>1, StaysOneFiling
<1>7. ASSUME NEW i \in DOMAIN issues' PROVE OpenIsLinking(i)' /\ OkIsLinked(i)'
  <2>1. OpenIsLinking(i) /\ OkIsLinked(i) /\ i \in DOMAIN issues
    BY <1>3 DEF FilingHistory
  <2>2. OpenIsLinking(i)'
    <3> SUFFICES ASSUME issues'[i].state = "open"
                 PROVE  \E u \in Clicks : sub'[u].pc = "linking" /\ sub'[u].issue = i
      BY DEF OpenIsLinking
    <3>1. issues[i].state = "open" /\ ~(Opened(t) /\ i = sub[t].issue)
      BY <1>3, <2>1
    <3>2. PICK u \in Clicks : sub[u].pc = "linking" /\ sub[u].issue = i
      BY <2>1, <3>1 DEF OpenIsLinking
    <3>3. u # t
      BY <3>1, <3>2 DEF Opened
    <3> QED BY <1>2, <3>2, <3>3 DEF Others
  <2>3. OkIsLinked(i)'
    <3>1. CASE Opened(t) /\ i = sub[t].issue
      BY <1>3, <2>1, <3>1 DEF OkIsLinked
    <3>2. CASE ~(Opened(t) /\ i = sub[t].issue)
      BY <1>3, <2>1, <3>2 DEF OkIsLinked
    <3> QED BY <3>1, <3>2
  <2> QED BY <2>2, <2>3
<1>8. OrphanMeansFailureOrOverlap'
  <2> SUFFICES ASSUME NEW i \in DOMAIN issues', issues'[i].state = "ok", i \notin linked'
               PROVE  issues'[i].key \in rivals'
    BY DEF OrphanMeansFailureOrOverlap
  <2>1. CASE Opened(t) /\ i = sub[t].issue
    BY <1>1, <1>3, <2>1 DEF Transaction
  <2>2. CASE ~(Opened(t) /\ i = sub[t].issue)
    BY <1>3, <2>2 DEF FilingHistory, OrphanMeansFailureOrOverlap
  <2> QED BY <2>1, <2>2
<1>9. SecondIssueNeedsAReason'
  BY <1>3 DEF FilingHistory, SecondIssueNeedsAReason, Opened
<1> QED BY <1>5, <1>6, <1>7, <1>8, <1>9 DEF FilingHistory

\* The transaction comes to nothing.
LEMMA FailedHistory ==
    ASSUME FilingIInv, FilingHistory, NEW t \in Clicks, sub[t].pc = "linking",
           Reply(t, "failed"), UNCHANGED <<links, touched, rivals, linked>>
    PROVE  FilingHistory'
<1>1. \A l \in links' : l.issue \in linked'
  BY DEF FilingHistory
<1> QED BY <1>1, ReplyHistory

\* What a transaction has stored, it has stored for every case of its key.
LEMMA StoredHistory ==
    ASSUME FilingIInv, FilingHistory, NEW t \in Clicks, NEW how \in {"ok", "failed"},
           sub[t].pc = "linking", sub[t].todo = {}, StoreLinks(t), Reply(t, how),
           UNCHANGED <<touched, rivals>>
    PROVE  FilingHistory'
<1>1. /\ FilingTypeOK /\ Transaction(t) /\ sub[t].done # {} /\ KeyOf(t) # ByHand
      /\ KeyOf(t).cases = sub[t].done
  BY KeyFacts DEF FilingIInv, Transaction
<1>2. links' = links \cup sub[t].rows /\ linked' = linked \cup {l.issue : l \in sub[t].rows}
  BY DEF StoreLinks
<1>3. \A r \in sub[t].rows : r.key = KeyOf(t)
  BY <1>1, LinkFacts DEF Transaction
<1>4. \A l \in links' : l.issue \in linked'
  BY <1>2 DEF FilingHistory
<1>5. ASSUME NEW i \in DOMAIN issues, Opened(t), sub[t].issue = i, how = "ok"
      PROVE  OkIsLinked(i)' /\ (KeyOf(t) \in rivals \/ i \in linked')
  <2>1. issues[i].key = KeyOf(t) /\ issues'[i].key = KeyOf(t)
    BY <1>1, <1>5, ReplyStates DEF Transaction
  <2>2. ASSUME sub[t].done \cap touched = {}, NEW c \in sub[t].done
        PROVE  \E l \in links' : l.case = c /\ l.key = KeyOf(t)
    <3>1. CASE LinkOf(t, c) \in sub[t].rows
      BY <1>2, <3>1, LinkFacts
    <3>2. ASSUME NEW l \in links, l.case = c, l.key = KeyOf(t) \/ l.issue = sub[t].issue
          PROVE  \E k \in links' : k.case = c /\ k.key = KeyOf(t)
      <4>1. l.key = KeyOf(t)
        BY <1>5, <2>1, <2>2, <3>2 DEF FilingIInv, Made
      <4> QED BY <1>2, <3>2, <4>1
    <3>3. Covered(t, c)
      BY <1>1 DEF Transaction
    <3> QED BY <2>2, <3>1, <3>2, <3>3 DEF Covered
  <2>3. OkIsLinked(i)'
    BY <1>1, <2>1, <2>2 DEF OkIsLinked
  <2>4. KeyOf(t) \in rivals \/ i \in linked'
    <3> SUFFICES ASSUME KeyOf(t) \notin rivals PROVE i \in linked'
      OBVIOUS
    <3>1. PICK c \in sub[t].done : LinkOf(t, c) \in sub[t].rows \/ i \in linked
      BY <1>1, <1>5 DEF FilingHistory, Undisputed, RowsOrLinked
    <3> QED BY <1>2, <1>5, <3>1, LinkFacts
  <2> QED BY <2>3, <2>4
<1> QED BY <1>2, <1>3, <1>4, <1>5, ReplyHistory

\* A case is looked up or linked: what the filing has opened keeps a row, or a link.
LEMMA ListsHistory ==
    ASSUME FilingIInv, FilingHistory, NEW t \in Clicks, NEW c \in Cases, sub[t].pc = "linking",
           UNCHANGED <<issues, links, touched, rivals, linked>>,
           NEW T \in SUBSET Cases, NEW A \in SUBSET Cases, NEW R \in SUBSET Links,
           sub[t].rows \subseteq R,
           sub' = [sub EXCEPT ![t].todo = T, ![t].at = A, ![t].rows = R],
           \/ T = sub[t].todo
           \/ /\ T = sub[t].todo \ {c}
              /\ Opened(t) /\ KeyOf(t) \notin rivals => LinkOf(t, c) \in R \/ sub[t].issue \in linked
    PROVE  FilingHistory'
<1>1. FilingTypeOK /\ Undisputed(t)
  BY DEF FilingIInv, FilingHistory
<1>2. /\ Others(t) /\ sub'[t].pc = "linking" /\ sub'[t].issue = sub[t].issue
      /\ sub'[t].done = sub[t].done /\ sub'[t].todo = T /\ sub'[t].rows = R
      /\ KeyOf(t)' = KeyOf(t) /\ \A x : LinkOf(t, x)' = LinkOf(t, x)
  <2>1. /\ sub' \in [Clicks -> SubType] /\ Others(t)
        /\ sub'[t].pc = sub[t].pc /\ sub'[t].issue = sub[t].issue
        /\ sub'[t].done = sub[t].done /\ sub'[t].todo = T /\ sub'[t].rows = R
        /\ KeyOf(t)' = KeyOf(t) /\ \A x : LinkOf(t, x)' = LinkOf(t, x)
    BY <1>1, ListsUpdate
  <2> QED BY <2>1
<1>3. Opened(t)' <=> Opened(t)
  BY <1>2 DEF Opened
<1>4. FirstOfItsKey(t)'
  BY <1>2 DEF FirstOfItsKey
<1>5. NoLinkYet(t)'
  BY <1>1, <1>2, <1>3 DEF NoLinkYet, Keyed, Undisputed
<1>6. RowsOrLinked(t)'
  <2> SUFFICES ASSUME Opened(t), KeyOf(t) \notin rivals, NEW d \in sub[t].done \ T
               PROVE  LinkOf(t, d) \in R \/ sub[t].issue \in linked
    BY <1>2, <1>3 DEF RowsOrLinked
  <2>1. d \notin sub[t].todo => LinkOf(t, d) \in sub[t].rows \/ sub[t].issue \in linked
    BY <1>1 DEF Undisputed, RowsOrLinked
  <2> QED BY <2>1
<1>7. \A u \in Clicks : OneFiling(u)'
  BY <1>2, StaysOneFiling DEF Remembered, Filing
<1> QED BY <1>2, <1>4, <1>5, <1>6, <1>7, QuietHistory DEF Undisputed

LEMMA LookUpHistory ==
    ASSUME FilingIInv, FilingHistory, NEW t \in Clicks, NEW c \in Cases, LookUp(t, c)
    PROVE  FilingHistory'
<1>1. /\ Undisputed(t) /\ sub[t] \in SubType /\ sub \in [Clicks -> SubType]
      /\ sub[t].pc = "linking" /\ c \in sub[t].todo
      /\ Transaction(t) /\ c \in sub[t].done
  BY KeyFacts DEF FilingIInv, FilingTypeOK, SubType, LookUp, FilingHistory, Transaction
<1>2. PICK R \in SUBSET Links : R = sub[t].rows
  BY <1>1 DEF SubType
<1>3. CASE Present(t, c)
  <2>1. PICK T \in SUBSET Cases, A \in SUBSET Cases : T = sub[t].todo \ {c} /\ A = sub[t].at
    BY <1>1 DEF SubType
  <2>2. sub' = [sub EXCEPT ![t].todo = T, ![t].at = A, ![t].rows = R]
    BY <1>1, <1>2, <1>3, <2>1 DEF LookUp, SubType
  <2>3. Opened(t) /\ KeyOf(t) \notin rivals => sub[t].issue \in linked
    BY <1>1, <1>3 DEF Present, Undisputed, NoLinkYet, Keyed, FilingHistory
  <2> QED BY <1>1, <1>2, <2>1, <2>2, <2>3, ListsHistory DEF LookUp
<1>4. CASE ~Present(t, c)
  <2>1. PICK T \in SUBSET Cases, A \in SUBSET Cases : T = sub[t].todo /\ A = {c}
    BY <1>1 DEF SubType
  <2>2. sub' = [sub EXCEPT ![t].todo = T, ![t].at = A, ![t].rows = R]
    BY <1>1, <1>2, <1>4, <2>1 DEF LookUp, SubType
  <2> QED BY <1>1, <1>2, <2>1, <2>2, ListsHistory DEF LookUp
<1> QED BY <1>3, <1>4

LEMMA LinkCaseHistory ==
    ASSUME FilingIInv, FilingHistory, NEW t \in Clicks, NEW c \in Cases, LinkCase(t, c)
    PROVE  FilingHistory'
<1>1. /\ FilingTypeOK /\ Transaction(t) /\ sub[t] \in SubType /\ sub \in [Clicks -> SubType]
      /\ sub[t].pc = "linking" /\ UNCHANGED <<links, touched, rivals, linked>>
  BY KeyFacts DEF FilingIInv, FilingTypeOK, SubType, LinkCase
<1>2. CASE Reply(t, "failed")
  BY <1>1, <1>2, FailedHistory
<1>3. CASE issues' = issues
           /\ sub' = [sub EXCEPT ![t].todo = @ \ {c}, ![t].at = {}, ![t].rows = @ \cup {LinkOf(t, c)}]
  <2>1. LinkOf(t, c) \in Links
    BY <1>1, KeyFacts DEF Transaction, LinkOf, Links, FilingTypeOK
  <2>2. PICK R \in SUBSET Links : R = sub[t].rows \cup {LinkOf(t, c)}
    BY <1>1, <2>1 DEF SubType
  <2>3. PICK T \in SUBSET Cases : T = sub[t].todo \ {c}
    BY <1>1 DEF SubType
  <2>4. PICK A \in SUBSET Cases : A = {}
    OBVIOUS
  <2>5. sub' = [sub EXCEPT ![t].todo = T, ![t].at = A, ![t].rows = R]
    BY <1>1, <1>3, <2>2, <2>3, <2>4 DEF SubType
  <2>6. sub[t].rows \subseteq R /\ LinkOf(t, c) \in R
    BY <2>2
  <2>7. UNCHANGED <<issues, links, touched, rivals, linked>>
    BY <1>1, <1>3
  <2> QED BY <1>1, <2>3, <2>5, <2>6, <2>7, ListsHistory
<1> QED BY <1>2, <1>3 DEF LinkCase

LEMMA CommitHistory ==
    ASSUME FilingIInv, FilingHistory, NEW t \in Clicks, Commit(t) \/ CommitFails(t)
    PROVE  FilingHistory'
<1>1. CASE Commit(t)
  BY <1>1, StoredHistory DEF Commit
<1>2. CASE CommitFails(t)
  BY <1>2, StoredHistory, FailedHistory DEF CommitFails
<1> QED BY <1>1, <1>2

\* What other people do is no filing: links that they make have no key, and whatever
\* they change is touched from then on.
LEMMA HandsHistory ==
    ASSUME FilingIInv, FilingHistory, UNCHANGED <<sub, issues, rivals>>,
           touched \subseteq touched', linked \subseteq linked',
           \A l \in links' \ links : l.key = ByHand /\ l.issue \in linked',
           \A l \in links \ links' : l.case \in touched'
    PROVE  FilingHistory'
<1>1. Remembered /\ Settles /\ IssuesKeepKeys
  BY UnchangedIssues DEF Remembered, Settles, FilingIInv
<1>2. ASSUME NEW u \in Clicks PROVE OneFiling(u)' /\ Undisputed(u)'
  <2>1. Filing(u) => KeyOf(u) # ByHand
    BY KeyFacts DEF Filing, FilingIInv, Transaction
  <2>2. Undisputed(u)'
    BY <1>1, <2>1, StaysUndisputed
  <2>3. OneFiling(u)'
    BY DEF FilingHistory, OneFiling, Filing, KeyOf
  <2> QED BY <2>2, <2>3
<1>3. ASSUME NEW i \in DOMAIN issues' PROVE OpenIsLinking(i)' /\ OkIsLinked(i)'
  <2>1. OpenIsLinking(i) /\ OkIsLinked(i)
    BY DEF FilingHistory
  <2>2. OkIsLinked(i)'
    <3> SUFFICES ASSUME issues[i].state = "ok", issues[i].key.cases \cap touched' = {},
                        NEW c \in issues[i].key.cases
                 PROVE  \E l \in links' : l.case = c /\ l.key = issues[i].key
      BY DEF OkIsLinked
    <3> QED BY <2>1 DEF OkIsLinked
  <2> QED BY <2>1, <2>2 DEF OpenIsLinking
<1>4. (\A l \in links : l.issue \in linked)'
  BY DEF FilingHistory
<1>5. OrphanMeansFailureOrOverlap' /\ SecondIssueNeedsAReason'
  BY DEF FilingHistory, OrphanMeansFailureOrOverlap, SecondIssueNeedsAReason
<1> QED BY <1>2, <1>3, <1>4, <1>5 DEF FilingHistory

-----------------------------------------------------------------------------
LEMMA FilingInitHistory == FilingInit => FilingHistory
<1> SUFFICES ASSUME FilingInit PROVE FilingHistory
  OBVIOUS
<1>1. DOMAIN issues = {}
  BY DEF FilingInit
<1>2. \A t \in Clicks : sub[t].pc = "idle"
  BY NoSubType DEF FilingInit
<1>3. \A t \in Clicks : OneFiling(t) /\ Undisputed(t)
  BY <1>2 DEF OneFiling, Filing, Undisputed, FirstOfItsKey, NoLinkYet, RowsOrLinked, Opened
<1> QED BY <1>1, <1>3 DEF FilingInit, FilingHistory, OrphanMeansFailureOrOverlap, SecondIssueNeedsAReason

LEMMA FilingNextHistory == FilingIInv /\ FilingHistory /\ [FilingNext]_filingVars => FilingHistory'
<1> SUFFICES ASSUME FilingIInv, FilingHistory, [FilingNext]_filingVars PROVE FilingHistory'
  OBVIOUS
<1>1. ASSUME NEW t \in Clicks, FilingStep(t) PROVE FilingHistory'
  <2>1. ASSUME NEW f \in Forms, Submit(t, f) PROVE FilingHistory'
    BY <2>1, SubmitHistory
  <2>2. ASSUME NEW c \in Cases, PatchCase(t, c) \/ PatchCaseFails(t, c) \/ LookUp(t, c) \/ LinkCase(t, c)
        PROVE  FilingHistory'
    BY <2>2, PatchHistory, LookUpHistory, LinkCaseHistory
  <2>3. CASE AskJira(t) \/ Check(t) \/ PostAgain(t) \/ CreateIssue(t) \/ CreateFails(t)
    BY <2>3, AskJiraHistory, CheckHistory, PostAgainHistory, CreateIssueHistory, CreateFailsHistory
  <2>4. CASE Deadlocked(t)
    BY <2>4, FailedHistory DEF Deadlocked, WaitsFor
  <2>5. CASE Commit(t) \/ CommitFails(t)
    BY <2>5, CommitHistory
  <2> QED BY <1>1, <2>1, <2>2, <2>3, <2>4, <2>5 DEF FilingStep
<1>2. ASSUME NEW c \in Cases, Pass(c) PROVE FilingHistory'
  BY <1>2, HandsHistory DEF Pass
<1>3. ASSUME NEW c \in Cases, NEW i \in DOMAIN issues, LinkByHand(c, i) PROVE FilingHistory'
  BY <1>3, HandsHistory DEF LinkByHand
<1>4. ASSUME NEW l \in links, Unlink(l) PROVE FilingHistory'
  BY <1>4, HandsHistory DEF Unlink
<1>5. CASE UNCHANGED filingVars
  BY <1>5, HandsHistory DEF filingVars
<1> QED BY <1>1, <1>2, <1>3, <1>4, <1>5 DEF FilingNext

\* The history of the issues: an open one is being linked, one whose filing succeeded
\* has the links of its key, and whoever creates one is the first or has a rival.
THEOREM FilingHistoryHolds == FilingSpec => [](FilingIInv /\ FilingHistory)
<1>1. FilingInit => FilingIInv /\ FilingHistory
  BY FilingInitIInv, FilingInitHistory
<1>2. FilingIInv /\ FilingHistory /\ [FilingNext]_filingVars => (FilingIInv /\ FilingHistory)'
  BY FilingNextIInv, FilingNextHistory
<1> QED BY <1>1, <1>2, PTL DEF FilingSpec

\* The issue that a successful filing goes on with has had a link, unless another
\* filing of the same run cases overlapped with it: an orphan comes of a filing that
\* failed, of a request that the client repeated, or of an overlap, for any number of
\* clicks, repetitions, refusals and deadlocks.
THEOREM OrphansHaveAReason == FilingSpec => []OrphanMeansFailureOrOverlap
<1>1. FilingHistory => OrphanMeansFailureOrOverlap
  BY DEF FilingHistory
<1> QED BY <1>1, FilingHistoryHolds, PTL

\* Filing the same run cases again creates no second issue, unless the earlier issue
\* came of a failed filing, of a repeated request or of an overlap, or the links of a
\* case were changed by hand.
THEOREM SecondIssuesHaveAReason == FilingSpec => []SecondIssueNeedsAReason
<1>1. FilingHistory => SecondIssueNeedsAReason
  BY DEF FilingHistory
<1> QED BY <1>1, FilingHistoryHolds, PTL

-----------------------------------------------------------------------------
(* BOTH PAGES                                                               *)

\* Either page behaves, beside the other, as it does alone: what is proved of it alone
\* holds for the two together.
THEOREM PagesSideBySide == WebSpec => EditorSpec /\ FilingSpec
<1>1. WebInit => EditorInit /\ FilingInit
  BY DEF WebInit
<1>2. [WebNext]_webVars => [EditorNext]_vars /\ [FilingNext]_filingVars
  BY DEF WebNext, webVars
<1> QED BY <1>1, <1>2, PTL DEF WebSpec, EditorSpec, FilingSpec
=============================================================================
