--------------------------- MODULE StorageConsole ---------------------------
(***************************************************************************)
(* The storage console (plugins/storage-console): the page previews a      *)
(* target, shows its size and asks for a confirmation; the host measures   *)
(* again, compares, and removes.  Compilers write on the same disk.  The   *)
(* disk holds one figure for each path of the catalog, which counts what   *)
(* is there and is in no other path of it.                                 *)
(***************************************************************************)
EXTENDS Naturals, FiniteSets, FiniteSetsExt, StorageCatalog

CONSTANTS
  Launches,       \* the roots a launch may be configured with
  Ids,            \* bound: the entries a request may name
  Watched,        \* bound: the others whose data is followed
  Growing,        \* bound: those of them that something writes in
  Links,          \* the ids whose path is a symbolic link
  Requests,       \* the requests in flight, one slot each
  Sizes,          \* bound: the figures what one path holds may have
  Partial,        \* bound: what a walk out of its budget may have counted
  Announced,      \* bound: the sizes a client of its own announces
  SizeTolerance   \* SIZE_TOLERANCE_BYTES

ASSUME StorageAssumption ==
  /\ {0, 1} \subseteq Sizes /\ Sizes \subseteq Nat /\ SizeTolerance \in Nat
  /\ Announced \subseteq Nat /\ Partial \subseteq Nat
  /\ IsFiniteSet(Ids \cup Watched)
  /\ None \notin Launches /\ None \notin Ids

VARIABLES
  roots,        \* the console's roots, None until it mounts
  catalog,      \* its entries, by id
  disk,         \* what each path of the catalog holds
  asked,        \* the requests
  measurements, \* the ids of the figures cached
  view,         \* the body of the panel: a table, a dialog, an error
  hasData,      \* whether the page holds a status, its state.data
  busy          \* the page's state.busy

storageVars == <<roots, catalog, disk, asked, measurements, view, hasData, busy>>
pageVars == <<view, hasData, busy>>

-----------------------------------------------------------------------------

(* The entries a request may name, and those whose data is only followed.  *)
EntriesOf(r) ==
  LET followed == {e \in BuildCatalog(r) : e.id \in Ids \cup Watched}
  IN [id \in {e.id : e \in followed} |-> CHOOSE e \in followed : e.id = id]

Known(id) == id \in DOMAIN catalog
PathOf(id) == catalog[id].path

PlacesBelow(path) == {p \in DOMAIN disk : AtOrBelow(p, path)}

(* measureTree(): what is below a path; a link is not followed.            *)
SizeBelow(figures, path) ==
  MapThenSumSet(LAMBDA p : figures[p],
                {p \in DOMAIN figures : AtOrBelow(p, path)})
MeasureTree(id) == IF id \in Links THEN 0 ELSE SizeBelow(disk, PathOf(id))

(* toleranceFor(): the allowance, at most half of the figure, or 2 percent *)
(* of it.                                                                  *)
ToleranceFor(expected) ==
  Max({Min({SizeTolerance, expected \div 2}), (expected + 49) \div 50})

Request ==
  [kind    : {"status", "open", "scan", "preview", "clean", "refresh"},
   pc      : {"idle", "measuring", "counted", "removed", "answered"},
   todo    : SUBSET Ids,    \* what is left to measure
   id      : Optional(Ids), \* what a preview or a cleanup is about
   expect  : Nat,           \* expectBytes
   size    : Nat,           \* the measurement, `before' of a cleanup
   fromPage : BOOLEAN,
   missed  : Nat,           \* history: there, and not in the measurement
   failed  : BOOLEAN]

NoRequest ==
  [kind |-> "scan", pc |-> "idle", todo |-> {}, id |-> None, expect |-> 0,
   size |-> 0, fromPage |-> FALSE, missed |-> 0, failed |-> FALSE]

(* An error has a button back to the table, or none.                       *)
Views == {"closed", "table", "waiting", "dialog", "error", "bare"}
View(kind) == [kind |-> kind, id |-> None, expect |-> 0]

(* The slot the next request takes, the first that is idle.                *)
Free(r) ==
  LET idle == {q \in Requests : asked[q].pc = "idle"}
  IN idle # {} /\ r = CHOOSE q \in idle : TRUE

Ask(r, request) == asked' = [asked EXCEPT ![r] = request]
Answer(r, request, failed) ==
  Ask(r, [NoRequest EXCEPT !.kind = request.kind, !.pc = "answered",
            !.id = request.id, !.fromPage = request.fromPage, !.failed = failed,
            !.size = IF request.kind = "preview" THEN request.size ELSE 0])

-----------------------------------------------------------------------------
(* The disk                                                                *)

(* The console mounts with the roots of the launch.                        *)
MountConsole(r) ==
  /\ roots = None
  /\ roots' = r
  /\ catalog' = EntriesOf(r)
  /\ disk' = [p \in {e.path : e \in Range(catalog')} \ {None} |->
                IF \E id \in Links : Known(id)' /\ catalog'[id].path = p
                THEN 0 ELSE 1]
  /\ UNCHANGED <<asked, measurements, pageVars>>

(* A compiler or a package manager writes.                                 *)
Grow(id, figure) ==
  LET more == figure - disk[PathOf(id)]
      counted(request) == /\ request.kind = "clean" /\ request.pc = "counted"
                          /\ AtOrBelow(PathOf(id), PathOf(request.id))
  IN /\ Known(id)
     /\ PathOf(id) \in DOMAIN disk
     /\ disk[PathOf(id)] < figure
     /\ disk' = [disk EXCEPT ![PathOf(id)] = figure]
     /\ asked' = [r \in Requests |->
                    IF counted(asked[r])
                    THEN [asked[r] EXCEPT !.missed =
                            Min({@ + more, SizeBelow(disk', PathOf(asked[r].id))})]
                    ELSE asked[r]]
     /\ UNCHANGED <<roots, catalog, measurements, pageVars>>

-----------------------------------------------------------------------------
(* The page                                                                *)

PageAsk(r, kind, todo) ==
  Ask(r, [NoRequest EXCEPT !.kind = kind, !.pc = "measuring",
            !.fromPage = TRUE, !.todo = todo])
Scoped(scopes) == {id \in Ids : Known(id) /\ catalog[id].scope \in scopes}

(* The panel is opened, the first time or again: on the table when the     *)
(* page holds a status, which it otherwise asks for.                       *)
OpenPanel(r) ==
  /\ roots # None
  /\ \/ /\ hasData
        /\ view' = View("table")
        /\ UNCHANGED asked
     \/ /\ ~hasData
        /\ Free(r)
        /\ view' = View("waiting")
        /\ PageAsk(r, "status", {})
  /\ UNCHANGED <<roots, catalog, disk, measurements, hasData, busy>>

RunScan(r, scope) ==
  /\ view.kind = "table"
  /\ ~busy
  /\ Free(r)
  /\ busy' = TRUE
  /\ PageAsk(r, "scan", Scoped({scope}))
  /\ UNCHANGED <<roots, catalog, disk, measurements, view, hasData>>

OpenConfirm(r, id) ==
  /\ view.kind = "table"
  /\ Known(id) /\ catalog[id].safety = "safe"
  /\ Free(r)
  /\ view' = View("waiting")
  /\ Ask(r, [NoRequest EXCEPT !.kind = "preview", !.pc = "measuring",
               !.fromPage = TRUE, !.id = id, !.todo = {id}])
  /\ UNCHANGED <<roots, catalog, disk, measurements, hasData, busy>>

(* The dialog is left by its button, or an error that has one.             *)
Leave ==
  /\ view.kind \in {"dialog", "error"}
  /\ view' = View("table")
  /\ UNCHANGED <<roots, catalog, disk, asked, measurements, hasData, busy>>

(* What an answer shows: a failed scan, or opening, leaves no button.      *)
Shown(answered) ==
  IF answered.failed
  THEN View(IF answered.kind \in {"status", "open", "scan"} THEN "bare" ELSE "error")
  ELSE IF answered.kind # "preview" THEN View("table")
  ELSE IF Removable(catalog[answered.id])
  THEN [kind |-> "dialog", id |-> answered.id, expect |-> answered.size]
  ELSE View("error")

(* What an answer does to the page, wherever the user went meanwhile: the  *)
(* status is followed by a first scan, which does not make the page busy,  *)
(* and a cleanup by another status.                                        *)
Receive(r) ==
  LET answered == asked[r]
      brought == answered.fromPage /\ ~answered.failed
  IN /\ answered.pc = "answered"
     /\ IF brought /\ answered.kind = "status"
        THEN PageAsk(r, "open", Scoped({"newpi", "dsh"}))
        ELSE IF brought /\ answered.kind = "clean"
        THEN PageAsk(r, "refresh", {})
        ELSE Ask(r, NoRequest)
     /\ view' = IF ~answered.fromPage \/ (brought /\ answered.kind = "clean")
                THEN view ELSE Shown(answered)
     /\ hasData' = (hasData \/ (brought /\ answered.kind \notin {"preview", "clean"}))
     /\ busy' = (busy /\ ~(answered.fromPage /\ answered.kind \in {"scan", "clean"}))
     /\ UNCHANGED <<roots, catalog, disk, measurements>>

-----------------------------------------------------------------------------
(* The host: measurements                                                  *)

(* A figure still fresh is taken from the cache, and an entry without a    *)
(* path has none.                                                          *)
Skip(r, id) ==
  /\ asked[r].pc = "measuring"
  /\ id \in asked[r].todo
  /\ \/ PathOf(id) = None
     \/ asked[r].kind \in {"open", "scan"} /\ id \in measurements
  /\ Ask(r, [asked[r] EXCEPT !.todo = @ \ {id}])
  /\ UNCHANGED <<roots, catalog, disk, measurements, pageVars>>

(* The tree of a target was walked, to its end or to the budget; only a    *)
(* preview or a cleanup goes by the figure.                                *)
CountSize(r, id) ==
  /\ asked[r].pc = "measuring"
  /\ id \in asked[r].todo
  /\ PathOf(id) # None
  /\ LET whole == MeasureTree(id) IN
     \E size \in {whole} \cup {part \in Partial : part < whole} :
       Ask(r, [asked[r] EXCEPT
                 !.pc = "counted", !.todo = @ \ {id}, !.id = id,
                 !.size = IF asked[r].kind \in {"preview", "clean"} THEN size ELSE 0,
                 !.missed = whole - size])
  /\ UNCHANGED <<roots, catalog, disk, measurements, pageVars>>

(* measure() and preview() keep the figure; the next entry is measured.    *)
KeepSize(r) ==
  /\ asked[r].pc = "counted"
  /\ asked[r].kind # "clean"
  /\ measurements' = measurements \cup {asked[r].id}
  /\ Ask(r, [asked[r] EXCEPT !.pc = "measuring", !.missed = 0])
  /\ UNCHANGED <<roots, catalog, disk, pageVars>>

(* A status, which measures nothing, a scan or a preview is answered, or   *)
(* its call fails.                                                         *)
AnswerMeasured(r) ==
  /\ asked[r].pc = "measuring"
  /\ asked[r].todo = {}
  /\ \E failed \in BOOLEAN : Answer(r, asked[r], failed)
  /\ UNCHANGED <<roots, catalog, disk, measurements, pageVars>>

-----------------------------------------------------------------------------
(* The host: removal                                                       *)

(* clean(): the catalog, the confirmation, the fence and the link are      *)
(* checked before anything is measured; a target that is not there is      *)
(* answered as such.                                                       *)
Clean(r, id, confirm, expect, fromPage) ==
  LET request == [NoRequest EXCEPT !.kind = "clean", !.id = id, !.todo = {id},
                    !.expect = expect, !.fromPage = fromPage]
      allowed == /\ Known(id)
                 /\ Removable(catalog[id])
                 /\ confirm = id
                 /\ Fenced(PathOf(id), roots)
  IN /\ roots # None
     /\ Free(r)
     /\ \/ /\ allowed /\ id \notin Links
           /\ Ask(r, [request EXCEPT !.pc = "measuring"])
           /\ UNCHANGED measurements
        \/ /\ ~allowed \/ id \in Links
           /\ Answer(r, request, TRUE)
           /\ UNCHANGED measurements
        \/ /\ allowed
           /\ MeasureTree(id) = 0
           /\ Answer(r, request, FALSE)
           /\ measurements' = measurements \ {id}

(* The button of the dialog; nothing keeps it from being pressed twice.    *)
RunClean(r) ==
  /\ view.kind = "dialog"
  /\ busy' = TRUE
  /\ Clean(r, view.id, view.id, view.expect, TRUE)
  /\ UNCHANGED <<roots, catalog, disk, view, hasData>>

(* Another client of the endpoint, which may send anything.                *)
RequestClean(r, id, confirm, expect) ==
  /\ Clean(r, id, confirm, expect, FALSE)
  /\ UNCHANGED <<roots, catalog, disk, pageVars>>

(* A comparison that refuses a target that shrank, and no other.           *)
DiffersBelow(size, expect) == size + ToleranceFor(expect) < expect

Differs(size, expect) ==
  (IF size > expect THEN size - expect ELSE expect - size) > ToleranceFor(expect)

(* The size is compared and the tree removed, all of it or, when rm()      *)
(* fails, some; a directory to empty that cannot be listed is left as it   *)
(* is, and answered as removed.                                            *)
RemoveTree(r) ==
  LET below == PlacesBelow(PathOf(asked[r].id))
      refused == Differs(asked[r].size, asked[r].expect)
  IN /\ asked[r].pc = "counted"
     /\ asked[r].kind = "clean"
     /\ \E gone \in SUBSET (IF refused THEN {} ELSE below), failed \in BOOLEAN :
          /\ refused => failed
          /\ \/ failed \/ gone = below
             \/ gone = {} /\ catalog[asked[r].id].cleanup = "clear-contents"
          /\ disk' = [p \in DOMAIN disk |-> IF p \in gone THEN 0 ELSE disk[p]]
          /\ IF failed THEN Answer(r, asked[r], TRUE)
             ELSE Ask(r, [asked[r] EXCEPT !.pc = "removed", !.expect = 0,
                            !.size = 0, !.missed = 0])
     /\ UNCHANGED <<roots, catalog, measurements, pageVars>>

(* What is left is measured for the report, and the cached figure dropped. *)
Report(r) ==
  /\ asked[r].pc = "removed"
  /\ Answer(r, asked[r], FALSE)
  /\ measurements' = measurements \ {asked[r].id}
  /\ UNCHANGED <<roots, catalog, disk, pageVars>>

-----------------------------------------------------------------------------

StorageInit ==
  /\ roots = None
  /\ catalog = <<>>
  /\ disk = <<>>
  /\ asked = [r \in Requests |-> NoRequest]
  /\ measurements = {}
  /\ view = View("closed")
  /\ hasData = FALSE
  /\ busy = FALSE

PageStep(r) ==
  \/ OpenPanel(r)
  \/ \E scope \in {"newpi", "dsh", "toolchain", "other"} : RunScan(r, scope)
  \/ \E id \in Ids : OpenConfirm(r, id)
  \/ Receive(r)
  \/ RunClean(r)

HostStep(r) ==
  \/ \E id \in Ids : Skip(r, id)
  \/ \E id \in Ids : CountSize(r, id)
  \/ KeepSize(r)
  \/ AnswerMeasured(r)
  \/ \E id \in Ids, confirm \in Ids, expect \in Announced :
       RequestClean(r, id, confirm, expect)
  \/ RemoveTree(r)
  \/ Report(r)

StorageNext ==
  \/ \E r \in Launches : MountConsole(r)
  \/ \E id \in Growing, figure \in Sizes : Grow(id, figure)
  \/ Leave
  \/ \E r \in Requests : PageStep(r) \/ HostStep(r)

StorageSpec == StorageInit /\ [][StorageNext]_storageVars

-----------------------------------------------------------------------------
(* Properties                                                              *)

StorageTypeOK ==
  /\ roots \in Optional(Launches)
  /\ \A p \in DOMAIN disk : disk[p] \in Sizes
  /\ asked \in [Requests -> Request]
  /\ measurements \subseteq Ids
  /\ view.kind \in Views
  /\ hasData \in BOOLEAN
  /\ busy \in BOOLEAN

(* The page never waits for nothing: its flag, and the body it empties for *)
(* a call, last only while an answer of the page's own is awaited.  And a  *)
(* way back to the table always finds a table to show: only the error of a *)
(* scan or of an opening may have nothing behind it, and it has no button. *)
(* (That error stays until the panel is opened again.)                     *)
StorageAnswers ==
  LET pending(kinds) ==
        \E r \in Requests : /\ asked[r].fromPage /\ asked[r].pc # "idle"
                            /\ asked[r].kind \in kinds
  IN /\ busy => pending({"scan", "clean"})
     /\ view.kind = "waiting" => pending({"status", "preview"})
     /\ view.kind \in {"table", "dialog", "error"} => hasData

(* Nothing the endpoint is asked, by the page or by another client, ever   *)
(* removes what a guarded entry holds, in a launch whose roots put none at *)
(* or below a removable one (cleanup.js does not compare the two).         *)
GuardedSurvive ==
  [][\A place \in DOMAIN disk :
       disk'[place] < disk[place]
         => \A id \in DOMAIN catalog :
              PathOf(id) = place => catalog[id].safety # "guarded"]_storageVars

(* A cleanup deletes what its caller was shown, up to the tolerance and to *)
(* what its own measurement missed: what a walk out of its budget left     *)
(* uncounted, and what was written after it.  What grew between preview    *)
(* and second measurement goes only within the tolerance, and at no scale  *)
(* is more than twice the figure deleted.                                  *)
DeletesWhatWasShown ==
  [][\A r \in Requests :
       LET before == asked[r]
           deleted == MapThenSumSet(LAMBDA p : disk[p] - disk'[p],
                                    PlacesBelow(PathOf(before.id)))
       IN /\ before.kind = "clean" /\ before.pc = "counted"
          /\ asked'[r].pc # "counted"
          => /\ deleted <= before.expect + ToleranceFor(before.expect) + before.missed
             /\ deleted <= 2 * before.expect + before.missed
    ]_storageVars
=============================================================================
