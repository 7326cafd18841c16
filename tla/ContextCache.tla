---------------------------- MODULE ContextCache ----------------------------
(***************************************************************************)
(* The context and cache manager (plugins/context-cache-manager): a ledger *)
(* per session that names the cacheable prefix and the handoff in force,   *)
(* and a journal that joins every model call to both.  What a record says  *)
(* of its route, its project, its outcome and its tokens is left out, and  *)
(* so is the kind of a handoff: a summary, a prune or neither.             *)
(*                                                                         *)
(* A layer is the set of its parts, each with its place, None before it    *)
(* was observed; the two dynamic layers are reduced to their counts.  The  *)
(* ledger of the calls the harness did not attribute is that of None.      *)
(***************************************************************************)
EXTENDS Naturals, Sequences, SequencesExt, FiniteSets, Absent

CONSTANTS
  Sessions,      \* the sessions of the harness
  Sections,      \* the named parts a prompt is assembled of, with their text
  Texts,         \* what a message or a summary may say
  Assemblies,    \* bound: the assembled prompts, [sections, contexts]
  Conversations, \* bound: the message lists of requests
  Observed,      \* the calls in flight, one slot each
  JournalLimit,  \* how many records are retained
  MaxVersions    \* bound: the versions a ledger reaches

ASSUME ContextCacheAssumption ==
  /\ JournalLimit \in Nat /\ MaxVersions \in Nat /\ None \notin Sessions \cup Texts
  /\ \A assembly \in Assemblies :
       assembly.sections \in Seq(Sections) /\ assembly.contexts \in Seq(Sections)
  /\ \A messages \in Conversations :
       messages \in Seq([role : {"system", "human", "other"}, text : Optional(Texts)])

VARIABLES
  ledgers,      \* manager.sessions
  lastAssembly, \* lastAssembly, lastAssemblySessionId and whether it is fresh
  observed,     \* what observe() holds for each open stream
  journal,      \* manager.journal, oldest first
  prompts       \* history: the prompt each session runs on, None when unknown

contextVars == <<ledgers, lastAssembly, observed, journal, prompts>>

-----------------------------------------------------------------------------
(* Layers                                                                  *)

(* A layer's digest: that of nothing is null, like that of a layer nobody  *)
(* observed.                                                               *)
Digest(layer) == IF layer = {} THEN None ELSE layer

(* textLayer(): the parts in their order, one without a text among them.   *)
TextLayer(parts) == {<<i, parts[i]>> : i \in DOMAIN parts}

ASSUME NoLayerAssumption ==
  \A assembly \in Assemblies :
    TextLayer(assembly.sections) # None /\ TextLayer(assembly.contexts) # None

(* splitMessages(): the system messages are apart, the last human turn and *)
(* what follows are live, and without one everything is history.           *)
SplitMessages(messages) ==
  LET systems == {i \in DOMAIN messages : messages[i].role = "system"}
      rest == DOMAIN messages \ systems
      human == {i \in rest : messages[i].role = "human"}
      history == {i \in rest : human = {} \/ \E j \in human : i < j}
  IN [systems |-> systems, history |-> Cardinality(history),
      live |-> Cardinality(rest \ history)]

(* The core a request brings: the system messages that say something, each *)
(* named by its number among them all.                                     *)
SystemLayer(messages, systems) ==
  {<<Cardinality({j \in systems : j <= i}), messages[i].text>> :
     i \in {j \in systems : messages[j].text # None}}

Layers(ledger) ==
  [core |-> Digest(ledger.core), project |-> Digest(ledger.project),
   handoff |-> IF ledger.handoff = None THEN None ELSE ledger.handoff.digest]

-----------------------------------------------------------------------------
(* Ledgers                                                                 *)

NoLedger ==
  [core |-> None, project |-> None, history |-> None, live |-> None,
   handoff |-> None, handoffVersion |-> 0, pending |-> None,
   prefix |-> None, contextVersion |-> 0]

(* recompute() that does not count the handoff as a part of the prefix.    *)
RecomputeWithoutHandoff(ledger) ==
  LET unmoved == [Layers(ledger) EXCEPT
                    !.handoff = IF ledger.prefix = None THEN @ ELSE ledger.prefix.handoff]
  IN IF ledger.prefix = unmoved THEN [ledger EXCEPT !.prefix = Layers(ledger)]
     ELSE [ledger EXCEPT !.prefix = Layers(ledger), !.contextVersion = @ + 1]

(* recompute(): a prefix that moved has a version of its own.              *)
Recompute(ledger) ==
  IF ledger.prefix = Layers(ledger) THEN ledger
  ELSE [ledger EXCEPT !.prefix = Layers(ledger), !.contextVersion = @ + 1]

WithAssembly(ledger, assembly) ==
  Recompute([ledger EXCEPT !.core = TextLayer(assembly.sections),
                           !.project = TextLayer(assembly.contexts)])

(* observeRequest(): the request's own system messages are the core of a   *)
(* ledger that has none.                                                   *)
WithRequest(ledger, messages) ==
  LET split == SplitMessages(messages)
  IN Recompute([ledger EXCEPT
       !.core = IF @ = None THEN SystemLayer(messages, split.systems) ELSE @,
       !.history = split.history, !.live = split.live])

NoCompaction == [summary |-> None]

(* The compaction a summary or a prune belongs to, opened when its start   *)
(* was not seen.                                                           *)
PendingOf(ledger) == IF ledger.pending = None THEN NoCompaction ELSE ledger.pending

(* finishCompaction(): one that failed, or was not seen, commits nothing.  *)
FinishCompaction(ledger, failed) ==
  LET pending == ledger.pending
      closed == [ledger EXCEPT !.pending = None]
  IN IF pending = None \/ failed THEN closed
     ELSE Recompute([closed EXCEPT
            !.handoffVersion = @ + 1,
            !.handoff = [version |-> ledger.handoffVersion + 1,
                         digest |-> pending.summary]])

-----------------------------------------------------------------------------
(* What the harness reports                                                *)

Ledger(key, ledger) ==
  /\ ledger.contextVersion <= MaxVersions
  /\ ledger.handoffVersion <= MaxVersions
  /\ ledgers' = [ledgers EXCEPT ![key] = ledger]

(* An assembled prompt, of a session or of none; in that case it may be    *)
(* the new prompt of any of them.                                          *)
ObserveAssembly(assembly, session) ==
  /\ prompts' = IF session = None THEN [s \in Sessions |-> None]
                ELSE [prompts EXCEPT ![session] = assembly]
  /\ lastAssembly' = [assembly |-> assembly, session |-> session, fresh |-> TRUE]
  /\ IF session = None THEN UNCHANGED ledgers
     ELSE Ledger(session, WithAssembly(ledgers[session], assembly))
  /\ UNCHANGED <<observed, journal>>

(* assemblyTtlMs passes.                                                   *)
AssemblyExpires ==
  /\ lastAssembly # None
  /\ lastAssembly.fresh
  /\ lastAssembly' = [lastAssembly EXCEPT !.fresh = FALSE]
  /\ UNCHANGED <<ledgers, observed, journal, prompts>>

ObserveSessionEvent(session, ledger) ==
  /\ Ledger(session, ledger)
  /\ UNCHANGED <<lastAssembly, observed, journal, prompts>>

CompactionStart(s) ==
  ObserveSessionEvent(s, [ledgers[s] EXCEPT !.pending = NoCompaction])

CompactionSummary(s, text) ==
  ObserveSessionEvent(s, [ledgers[s] EXCEPT
    !.pending = [PendingOf(ledgers[s]) EXCEPT !.summary = text]])

CompactionPrune(s) ==
  ObserveSessionEvent(s, [ledgers[s] EXCEPT !.pending = PendingOf(ledgers[s])])

CompactionEnd(s, failed) ==
  ObserveSessionEvent(s, FinishCompaction(ledgers[s], failed))

-----------------------------------------------------------------------------
(* Calls                                                                   *)

NoStream ==
  [open |-> FALSE, session |-> None, contextVersion |-> 0,
   handoffVersion |-> 0, layers |-> Layers(NoLedger), prompt |-> None]

Observe(c, stream) == observed' = [observed EXCEPT ![c] = stream]

(* The ledger a call is attributed to: the last assembly stands in for one *)
(* its session never had, while it is fresh and names no other session.    *)
Attributed(session, messages) ==
  LET ledger == ledgers[session]
      adopts == /\ ledger.core = None
                /\ lastAssembly # None
                /\ lastAssembly.fresh
                /\ lastAssembly.session \in {None, session}
  IN WithRequest(IF adopts THEN WithAssembly(ledger, lastAssembly.assembly)
                 ELSE ledger, messages)

(* identityFor(): the caller reads the stream for the first time; the      *)
(* versions are those of now.  `prompt' is history: what the call is made  *)
(* of, which the manager does not look at.                                 *)
BeginCall(c, session, messages) ==
  LET ledger == Attributed(session, messages)
  IN /\ ~observed[c].open
     /\ Ledger(session, ledger)
     /\ Observe(c, [NoStream EXCEPT !.open = TRUE, !.session = session,
                      !.contextVersion = ledger.contextVersion,
                      !.handoffVersion = ledger.handoffVersion,
                      !.layers = Layers(ledger),
                      !.prompt = IF session = None THEN None ELSE prompts[session]])
     /\ UNCHANGED <<lastAssembly, journal, prompts>>

(* The stream ends or throws: record() appends, and the journal forgets    *)
(* its oldest record beyond the limit.                                     *)
EndCall(c) ==
  LET entry == [session |-> observed[c].session,
                contextVersion |-> observed[c].contextVersion,
                handoffVersion |-> observed[c].handoffVersion,
                layers |-> observed[c].layers,
                prompt |-> observed[c].prompt]
      longer == Append(journal, entry)
  IN /\ observed[c].open
     /\ journal' = IF Len(longer) > JournalLimit THEN Tail(longer) ELSE longer
     /\ Observe(c, NoStream)
     /\ UNCHANGED <<ledgers, lastAssembly, prompts>>

(* The caller leaves: observe() is closed at its yield and records nothing.*)
LeaveCall(c) ==
  /\ observed[c].open
  /\ Observe(c, NoStream)
  /\ UNCHANGED <<ledgers, lastAssembly, journal, prompts>>

-----------------------------------------------------------------------------

ContextInit ==
  /\ ledgers = [key \in Optional(Sessions) |-> NoLedger]
  /\ lastAssembly = None
  /\ observed = [c \in Observed |-> NoStream]
  /\ journal = <<>>
  /\ prompts = [s \in Sessions |-> None]

ContextNext ==
  \/ \E assembly \in Assemblies, s \in Optional(Sessions) :
       ObserveAssembly(assembly, s)
  \/ AssemblyExpires
  \/ \E s \in Sessions :
       \/ CompactionStart(s)
       \/ \E text \in Texts : CompactionSummary(s, text)
       \/ CompactionPrune(s)
       \/ \E failed \in BOOLEAN : CompactionEnd(s, failed)
  \/ \E c \in Observed :
       \/ \E s \in Optional(Sessions), messages \in Conversations :
            BeginCall(c, s, messages)
       \/ EndCall(c)
       \/ LeaveCall(c)

ContextSpec == ContextInit /\ [][ContextNext]_contextVars

-----------------------------------------------------------------------------
(* Properties                                                              *)

Layer == SUBSET (Nat \X (Sections \cup Texts))
Ledgers ==
  [core : Optional(Layer), project : Optional(Layer),
   history : Optional(Nat), live : Optional(Nat),
   handoff : Optional([version : 1..MaxVersions, digest : Optional(Texts)]),
   handoffVersion : 0..MaxVersions,
   pending : Optional([summary : Optional(Texts)]),
   prefix : Optional([core : Optional(Layer), project : Optional(Layer),
                      handoff : Optional(Texts)]),
   contextVersion : 0..MaxVersions]

ContextTypeOK ==
  /\ ledgers \in [Optional(Sessions) -> Ledgers]
  /\ \A c \in Observed : observed[c].session \in Optional(Sessions)
  /\ Len(journal) <= JournalLimit
  /\ prompts \in [Sessions -> Optional(Assemblies)]

(* Two calls of one session that the journal or the open streams show      *)
(* under the same context version had the same cacheable prefix: the same  *)
(* summary in force and, for calls made while the harness had reported the *)
(* session's prompt, the same sections and the same contexts, whatever was *)
(* assembled, compacted or adopted between them (context.js, recompute).   *)
(* Calls whose prompt only their own system messages would tell, or an     *)
(* assembly of no session, are not compared.                               *)
VersionNamesPrefix ==
  LET calls == ToSet(journal) \cup {observed[c] : c \in {d \in Observed : observed[d].open}}
  IN \A x, y \in calls :
       x.session = y.session /\ x.contextVersion = y.contextVersion
         => /\ x.layers.handoff = y.layers.handoff
            /\ x.prompt # None /\ y.prompt # None
                 => /\ x.prompt.sections = y.prompt.sections
                    /\ x.prompt.contexts = y.prompt.contexts
=============================================================================
