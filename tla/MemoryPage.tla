----------------------------- MODULE MemoryPage -----------------------------
(***************************************************************************)
(* The page of the memory and of its backups                               *)
(* (plugins/memory-console/ui.js): two sections drawn in one body.  Every  *)
(* answer draws the section it belongs to, over whichever one is open by   *)
(* then.  The console answers in any order, with a value or a failure.     *)
(* Left out, being only displayed: the words searched for, the figures,    *)
(* the report of the last operation and the busy notice.                   *)
(***************************************************************************)
EXTENDS Naturals, Sequences, FiniteSets, Absent

CONSTANTS
  Memories,     \* the memories of the project
  Pages,        \* bound: the pages of the list, the last one not full
  SheetCalls,   \* bound: the calls in flight, one slot each
  NoProject     \* bound: whether the launch has no project

ASSUME MemoryPageAssumption == Pages \in Nat \ {0} /\ NoProject \subseteq BOOLEAN

VARIABLES
  sheet,      \* the page's `state', and what its body shows
  sheetCalls, \* the calls in flight
  projectless \* the console was mounted without a project

memoryPageVars == <<sheet, sheetCalls, projectless>>

Bodies ==
  {"none", "list", "empty", "loading", "unread", "detail", "confirm", "deleting",
   "reading", "backup", "inspection", "broken", "busy"}
SheetActions ==
  {"page", "stats", "read", "delete", "status", "create", "choose", "file",
   "upload", "inspect", "restore"}

NoSheetCall ==
  [action |-> "none", id |-> None, page |-> 0, append |-> FALSE]
SheetCall(action, id) == [NoSheetCall EXCEPT !.action = action, !.id = id]

IdleSlots(cs) == {s \in SheetCalls : cs[s] = NoSheetCall}
Post(cs, c) == [cs EXCEPT ![CHOOSE s \in IdleSlots(cs) : TRUE] = c]
CanPost(cs) == IdleSlots(cs) # {}

-----------------------------------------------------------------------------
(* What the body shows                                                     *)

(* renderMemory(): the opened memory, or the list.                         *)
RenderMemory(p) ==
  [p EXCEPT !.foot = FALSE,
     !.body = IF p.detail # None THEN p.detail.shown
              ELSE IF p.noProject THEN "empty" ELSE "list"]

(* renderInspection(): the archive that was inspected; one that cannot be  *)
(* restored offers another choice only.                                    *)
InspectionBody(verdict) == IF verdict = "sound" THEN "inspection" ELSE "broken"

(* renderBackup(): nothing before the first status, then the archive that  *)
(* was inspected, or the archives there are.                               *)
RenderBackup(p) ==
  [p EXCEPT !.foot = FALSE,
     !.body = IF ~p.known THEN "reading"
              ELSE IF p.inspection = None THEN "backup"
              ELSE InspectionBody(p.inspection)]

(* loadMemory(): the page, and when it is there the figures.               *)
LoadMemory(p, cs, append) ==
  /\ CanPost(cs)
  /\ sheet' = [p EXCEPT !.foot = TRUE]
  /\ sheetCalls' = Post(cs, [SheetCall("page", None) EXCEPT !.page = p.page,
                               !.append = append])

RefreshBackup(p, cs) ==
  /\ CanPost(cs)
  /\ sheet' = p
  /\ sheetCalls' = Post(cs, SheetCall("status", None))

-----------------------------------------------------------------------------
(* Clicks in the memory                                                    *)

ShowsBody(kind) == sheet.shown /\ sheet.body = kind

OpenMemory ==
  /\ ~sheet.shown
  /\ LoadMemory(RenderMemory([sheet EXCEPT !.shown = TRUE, !.detail = None,
                                !.page = 1]), sheetCalls, FALSE)
  /\ UNCHANGED projectless

CloseMemory ==
  /\ sheet.shown
  /\ sheet' = [sheet EXCEPT !.shown = FALSE]
  /\ UNCHANGED <<sheetCalls, projectless>>

(* A search starts 220 ms after the last key, the list still there or not. *)
TypeSearch ==
  /\ ShowsBody("list")
  /\ sheet' = [sheet EXCEPT !.typed = TRUE]
  /\ UNCHANGED <<sheetCalls, projectless>>

StartSearch ==
  /\ sheet.typed
  /\ LoadMemory([sheet EXCEPT !.typed = FALSE, !.page = 1], sheetCalls, FALSE)
  /\ UNCHANGED projectless

(* Rafraîchir asks for the page the list has grown to, and for no other.   *)
ReloadList ==
  /\ ShowsBody("list")
  /\ LoadMemory(sheet, sheetCalls, FALSE)
  /\ UNCHANGED projectless

ShowMore ==
  /\ ShowsBody("list")
  /\ sheet.loaded /\ sheet.items # <<>>
  /\ Len(sheet.items) < Pages
  /\ sheet.page <= Pages
  /\ LoadMemory([sheet EXCEPT !.page = @ + 1], sheetCalls, TRUE)
  /\ UNCHANGED projectless

OpenMemoryItem(id) ==
  /\ ShowsBody("list")
  /\ sheet.loaded /\ sheet.items # <<>>
  /\ CanPost(sheetCalls)
  /\ sheet' = RenderMemory([sheet EXCEPT !.detail = [id |-> id, shown |-> "loading"]])
  /\ sheetCalls' = Post(sheetCalls, SheetCall("read", id))
  /\ UNCHANGED projectless

BackToList ==
  /\ ShowsBody("loading") \/ ShowsBody("unread") \/ ShowsBody("detail")
     \/ ShowsBody("confirm") \/ ShowsBody("deleting")
  /\ sheet' = RenderMemory([sheet EXCEPT !.detail = None])
  /\ UNCHANGED <<sheetCalls, projectless>>

(* The deletion is asked for, given up, or confirmed.                      *)
ConfirmDelete ==
  /\ ShowsBody("detail")
  /\ sheet' = [sheet EXCEPT !.body = "confirm"]
  /\ UNCHANGED <<sheetCalls, projectless>>

CancelDelete ==
  /\ ShowsBody("confirm") \/ ShowsBody("deleting")
  /\ sheet' = RenderMemory(sheet)
  /\ UNCHANGED <<sheetCalls, projectless>>

DeleteMemory ==
  /\ ShowsBody("confirm")
  /\ sheet.detail # None
  /\ CanPost(sheetCalls)
  /\ sheet' = [sheet EXCEPT !.body = "deleting", !.foot = TRUE]
  /\ sheetCalls' = Post(sheetCalls, SheetCall("delete", sheet.detail.id))
  /\ UNCHANGED projectless

-----------------------------------------------------------------------------
(* Clicks in the backups                                                   *)

OpenBackup ==
  /\ ~sheet.shown
  /\ RefreshBackup(RenderBackup([sheet EXCEPT !.shown = TRUE, !.inspection = None]), sheetCalls)
  /\ UNCHANGED projectless

InBackup == ShowsBody("backup") \/ ShowsBody("inspection") \/ ShowsBody("broken")

(* A creation or a restore takes the body; its buttons come back with the  *)
(* status that is read after it.                                           *)
Occupy(p) ==
  [p EXCEPT !.inspection = None, !.foot = TRUE, !.body = "busy"]

RunCreate ==
  /\ InBackup
  /\ CanPost(sheetCalls)
  /\ sheet' = Occupy(sheet)
  /\ sheetCalls' = Post(sheetCalls, SheetCall("create", None))
  /\ UNCHANGED projectless

RunRestore ==
  /\ ShowsBody("inspection")
  /\ CanPost(sheetCalls)
  /\ sheet' = Occupy(sheet)
  /\ sheetCalls' = Post(sheetCalls, SheetCall("restore", None))
  /\ UNCHANGED projectless

(* The window's own chooser opens.                                         *)
RunChoose ==
  /\ InBackup
  /\ CanPost(sheetCalls)
  /\ sheet' = RenderBackup([sheet EXCEPT !.inspection = None])
  /\ sheetCalls' = Post(sheetCalls, SheetCall("choose", None))
  /\ UNCHANGED projectless

InspectLocal ==
  /\ ShowsBody("backup")
  /\ CanPost(sheetCalls)
  /\ sheet' = [sheet EXCEPT !.foot = TRUE]
  /\ sheetCalls' = Post(sheetCalls, SheetCall("inspect", None))
  /\ UNCHANGED projectless

(* Annuler, or `Choisir une autre archive'.                                *)
DropInspection ==
  /\ ShowsBody("inspection") \/ ShowsBody("broken")
  /\ sheet' = RenderBackup([sheet EXCEPT !.inspection = None])
  /\ UNCHANGED <<sheetCalls, projectless>>

-----------------------------------------------------------------------------
(* Answers, in any order                                                   *)

(* The page asked for: empty past the end, and without a project.          *)
PageOf(c) == IF projectless \/ c.page > Pages THEN <<>> ELSE <<c.page>>

(* The handlers of a call that succeeded ...                               *)
Succeeded(c, cs) ==
  CASE c.action = "page" ->
         /\ sheet' = [sheet EXCEPT !.items = IF c.append THEN @ \o PageOf(c) ELSE PageOf(c),
                        !.loaded = TRUE, !.noProject = projectless]
         /\ sheetCalls' = Post(cs, SheetCall("stats", None))
    [] c.action = "stats" -> sheet' = RenderMemory(sheet) /\ sheetCalls' = cs
    [] c.action = "read" ->
         /\ sheet' = RenderMemory([sheet EXCEPT !.detail = [id |-> c.id, shown |-> "detail"]])
         /\ sheetCalls' = cs
    [] c.action = "delete" ->
         LoadMemory([sheet EXCEPT !.detail = None, !.loaded = FALSE, !.page = 1], cs, FALSE)
    [] c.action = "status" ->
         sheet' = RenderBackup([sheet EXCEPT !.known = TRUE]) /\ sheetCalls' = cs
    [] c.action \in {"create", "restore"} -> RefreshBackup(sheet, cs)
    [] c.action = "choose" ->
         /\ sheet' = [sheet EXCEPT !.foot = TRUE]
         /\ sheetCalls' = Post(cs, SheetCall("file", None))
    [] c.action = "file" ->
         /\ sheet' = [sheet EXCEPT !.foot = TRUE]
         /\ sheetCalls' = Post(cs, SheetCall("upload", None))
    [] c.action = "upload" ->
         sheet' = sheet /\ sheetCalls' = Post(cs, SheetCall("inspect", None))
    [] c.action = "inspect" ->
         /\ \E verdict \in {"sound", "refused"} :
              sheet' = RenderBackup([sheet EXCEPT !.inspection = verdict])
         /\ sheetCalls' = cs

(* ... and of one that was refused, or whose answer was lost.              *)
Failed(c, cs) ==
  CASE c.action \in {"page", "stats"} ->
         sheet' = RenderMemory([sheet EXCEPT !.loaded = TRUE]) /\ sheetCalls' = cs
    [] c.action = "read" ->
         /\ sheet' = RenderMemory([sheet EXCEPT !.detail = [id |-> c.id, shown |-> "unread"]])
         /\ sheetCalls' = cs
    [] c.action = "delete" ->
         /\ sheet' = [sheet EXCEPT !.foot = FALSE,
                        !.body = IF @ = "deleting" THEN "confirm" ELSE @]
         /\ sheetCalls' = cs
    [] c.action = "status" ->
         sheet' = RenderBackup([sheet EXCEPT !.known = TRUE]) /\ sheetCalls' = cs
    [] c.action \in {"create", "restore"} ->
         RefreshBackup(sheet, cs)
    [] c.action = "choose" -> sheet' = sheet /\ sheetCalls' = cs
    [] c.action \in {"file", "upload", "inspect"} ->
         sheet' = RenderBackup(sheet) /\ sheetCalls' = cs

DeliverSheet(s) ==
  LET c == sheetCalls[s]
      cs == [sheetCalls EXCEPT ![s] = NoSheetCall]
  IN /\ c # NoSheetCall
     /\ Succeeded(c, cs) \/ Failed(c, cs)
     /\ UNCHANGED projectless

-----------------------------------------------------------------------------

NoSheet ==
  [shown |-> FALSE, body |-> "none", foot |-> FALSE, typed |-> FALSE, page |-> 1,
   items |-> <<>>, loaded |-> FALSE, noProject |-> FALSE, detail |-> None,
   known |-> FALSE, inspection |-> None]

MemoryPageInit ==
  /\ sheet = NoSheet
  /\ sheetCalls = [s \in SheetCalls |-> NoSheetCall]
  /\ projectless \in NoProject

MemoryPageNext ==
  \/ OpenMemory \/ CloseMemory \/ OpenBackup
  \/ TypeSearch \/ StartSearch \/ ReloadList \/ ShowMore
  \/ \E id \in Memories : OpenMemoryItem(id)
  \/ BackToList \/ ConfirmDelete \/ CancelDelete \/ DeleteMemory
  \/ RunCreate \/ RunRestore \/ RunChoose
  \/ InspectLocal \/ DropInspection
  \/ \E s \in SheetCalls : DeliverSheet(s)

MemoryPageSpec == MemoryPageInit /\ [][MemoryPageNext]_memoryPageVars

(* Type invariant: what the sections remember and the calls in flight.     *)
MemoryPageTypeOK ==
  /\ sheet.body \in Bodies
  /\ sheet.page \in 1..Pages + 1
  /\ sheet.items \in Seq(1..Pages)
  /\ sheet.detail \in Optional([id : Memories, shown : {"loading", "unread", "detail"}])
  /\ sheet.inspection \in Optional({"sound", "refused"})
  /\ \A s \in SheetCalls : sheetCalls[s].action \in SheetActions \cup {"none"}
  /\ sheet.noProject => projectless

(* The page is never stuck: the footer's progress line, and the bodies     *)
(* without a button, last only while a call that redraws them is in        *)
(* flight.                                                                 *)
MemoryAnswers ==
  LET pending(actions) == \E s \in SheetCalls : sheetCalls[s].action \in actions
  IN /\ sheet.foot => pending(SheetActions)
     /\ sheet.body = "loading" => pending({"read"})
     /\ sheet.body = "reading" => pending({"status"})
     /\ sheet.body = "busy" => pending({"create", "restore", "status"})
=============================================================================
