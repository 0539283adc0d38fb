---------------------------- MODULE ProjectRecords ----------------------------
(***************************************************************************)
(* The commands that rewrite the source and build records of one project,  *)
(* side by side: rbit source lock (source_lock_workflow.py), rbit source   *)
(* regenerate (source_regeneration.py), rbit import cmake and rbit graph   *)
(* extract (cli_cmake_import.py, cmake_import.py, cmake_graph.py) and rbit *)
(* import cmake --refresh (cmake_refresh.py), while the user edits.        *)
(*                                                                         *)
(* No command holds a lock while it plans.  Each reads the files one by    *)
(* one, decides, and hands a compare-and-swap transaction the contents it  *)
(* expects.  A transaction holds the project lock from its first write to  *)
(* its decision, but those who read do not ask for that lock.  Files are:  *)
(*   the sources, each with a text;                                        *)
(*   manifest, a function from the locked sources to their digests;        *)
(*   plan, the digest of a manifest and the units with their source pins;  *)
(*   graph, the set of sources that the recorded build reads;              *)
(*   records, the shards in interventions/, proofs/ and oracles/, by the   *)
(*   units with their pins (no units: only the records of the targets).    *)
(***************************************************************************)
EXTENDS Naturals, FiniteSets, Sequences, SequencesExt, TLC

CONSTANTS Sources, Texts,
          None,      \* no file
          Locks,     \* processes that run rbit source lock
          Regens,    \* ... rbit source regenerate --apply
          Imports,   \* ... rbit import cmake
          Extracts,  \* ... rbit graph extract
          Refreshes, \* ... rbit import cmake --refresh
          MaxStarts, \* bound: commands that are started
          MaxEdits,  \* bound: edits of the user
          MaxFaults  \* bound: failures of CMake, of a check or of a verification

Commands == Locks \cup Regens \cup Imports \cup Extracts \cup Refreshes
Controls == {"manifest", "plan", "graph", "records"}
Files == Controls \cup Sources

\* Sets of sources with a digest each, and non-empty selections of sources.
Pins == UNION {[S -> Texts] : S \in SUBSET Sources}
Selections == SUBSET Sources \ {{}}
Empty == <<>>

VARIABLES
  file,    \* the project: Files -> contents
  pc,      \* Commands -> where a command is
  todo,    \* Commands -> files that it is about to read, in order
  pre,     \* Commands -> contents that its transaction expects
  read,    \* Commands -> contents that only its decision reads
  paths,   \* Commands -> sources that it selects
  write,   \* Commands -> contents that its transaction writes
  derive,  \* Commands -> derive_translation_units
  scaffold,\* Commands -> CMakeScaffold.files
  held,    \* the transaction that holds the project lock, or None
  edits, faults,
  \* history that only properties read
  former,  \* Controls -> contents that commands have replaced
  returned \* a command has brought one of them back

local == <<todo, pre, read, paths, write, derive, scaffold>>
history == <<former, returned>>
vars == <<file, pc, local, held, edits, faults, history>>

-----------------------------------------------------------------------------
(* Cross-validation of loaded records *)

PlanFits(plan, manifest, records) ==
  plan # None => /\ plan.digest = manifest
                 /\ records # None /\ plan.units = records

GraphFits(graph, manifest, records) ==
  graph # None => graph \subseteq DOMAIN manifest /\ records # None

\* ProjectBundle.validate_tree, for the bindings between the files.
Valid(f) == /\ PlanFits(f["plan"], f["manifest"], f["records"])
            /\ GraphFits(f["graph"], f["manifest"], f["records"])

\* inspect_source_authority finds every source as recorded, and no stale unit.
SourcesAs(f, doc) == \A s \in DOMAIN doc : f[s] = doc[s]
Stale(units, doc) == \E u \in DOMAIN units : u \notin DOMAIN doc \/ doc[u] # units[u]

UnitsOf(plan) == IF plan = None THEN Empty ELSE plan.units

\* load_project_tree
Loads(f) == /\ Valid(f) /\ SourcesAs(f, f["manifest"])
            /\ ~Stale(UnitsOf(f["plan"]), f["manifest"])

-----------------------------------------------------------------------------
(* A command of either kind *)

\* A project whose sources are locked, and one that has been imported too.
Init ==
  /\ \E text \in [Sources -> Texts], graph \in Selections, imported \in BOOLEAN :
       file = [f \in Files |->
                 CASE f \in Sources   -> text[f]
                   [] f = "manifest"  -> text
                   [] f = "plan"      -> IF ~imported THEN None
                                         ELSE [digest |-> text, units |-> [s \in graph |-> text[s]]]
                   [] f = "graph"     -> IF imported THEN graph ELSE None
                   [] f = "records"   -> IF imported THEN [s \in graph |-> text[s]] ELSE None]
  /\ pc = [c \in Commands |-> "start"]
  /\ todo = [c \in Commands |-> <<>>]
  /\ pre = [c \in Commands |-> Empty] /\ read = [c \in Commands |-> Empty]
  /\ write = [c \in Commands |-> Empty] /\ scaffold = [c \in Commands |-> Empty]
  /\ paths = [c \in Commands |-> {}] /\ derive = [c \in Commands |-> FALSE]
  /\ held = None /\ edits = 0 /\ faults = 0
  /\ former = [f \in Controls |-> {}] /\ returned = FALSE

\* c goes to p; it reads the files of order first.
Goto(c, p, order) ==
  /\ pc' = [pc EXCEPT ![c] = p]
  /\ todo' = [todo EXCEPT ![c] = order]

SourceOrder(S) == SetToSeq(S)

\* c has not been started, and may be.
Starts(c) == pc[c] = "start" /\ Cardinality({d \in Commands : pc[d] # "start"}) < MaxStarts

\* capture_file_preimage, _capture_file, _read_json_document, admit: what is
\* read is what the transaction will expect.
Capture(c) ==
  /\ pc[c] \in {"seal", "scaffold", "capture"} /\ todo[c] # <<>>
  /\ pre' = [pre EXCEPT ![c] = (Head(todo[c]) :> file[Head(todo[c])]) @@ @]
  /\ todo' = [todo EXCEPT ![c] = Tail(@)]
  /\ UNCHANGED <<file, pc, read, paths, write, derive, scaffold, edits, faults, held, history>>

Matches(expected) == \A f \in DOMAIN expected : file[f] = expected[f]

\* Files get new contents.
Install(new) ==
  LET changed == {f \in DOMAIN new : new[f] # file[f]}
  IN /\ file' = new @@ file
     /\ former' = [f \in Controls |-> IF f \in changed THEN former[f] \cup {file[f]}
                                       ELSE former[f]]
     /\ returned' = (returned \/ \E f \in changed : new[f] \in former[f])

\* Operations are applied in the order of the calls that added them: of the
\* paths, as the default layout names them, but for a lock.
Order(c) == IF c \in Locks THEN <<"manifest", "plan", "graph", "records">>
                           ELSE <<"plan", "records", "graph", "manifest">>

\* CASTransaction.commit, with the lock: if every file is as expected, the
\* first few of the new contents appear.
Commit(c, expected, new, p, otherwise) ==
  /\ held = None
  /\ IF Matches(expected)
       THEN /\ \E few \in 0 .. Len(Order(c)) :
                 Install(Restrict(new, DOMAIN new \cap ToSet(SubSeq(Order(c), 1, few))))
            /\ held' = [by |-> c, expected |-> Restrict(expected, DOMAIN expected \ DOMAIN new),
                        new |-> new, old |-> Restrict(file, DOMAIN new),
                        to |-> p, otherwise |-> otherwise]
            /\ Goto(c, "settle", <<>>)
       ELSE Goto(c, otherwise, <<>>) /\ UNCHANGED <<file, history, held>>

Fault == faults < MaxFaults /\ faults' = faults + 1

\* The rest of the new contents, and the decision: when what was asserted has
\* changed meanwhile, or a write fails, the old contents come back.  A scaffold
\* whose removal fails so is stranded.
Settle(c) ==
  /\ held # None /\ pc[c] = "settle"
  /\ \/ /\ Matches(held.expected)
        /\ Install(held.new)
        /\ Goto(c, held.to, <<>>)
        /\ scaffold' = IF held.to = "scaffolded" THEN [scaffold EXCEPT ![c] = held.new] ELSE scaffold
        /\ UNCHANGED faults
     \/ /\ (~Matches(held.expected) /\ UNCHANGED faults) \/ Fault
        /\ Install(held.old)
        /\ Goto(c, IF held.to = "failed" THEN "stranded" ELSE held.otherwise, <<>>)
        /\ UNCHANGED scaffold
  /\ held' = None
  /\ UNCHANGED <<pre, read, paths, write, derive, edits>>

\* The user saves a source file.
Edit ==
  /\ edits < MaxEdits /\ edits' = edits + 1
  /\ \E s \in Sources : \E t \in Texts \ {file[s]} : file' = [file EXCEPT ![s] = t]
  /\ UNCHANGED <<pc, local, faults, held, history>>

-----------------------------------------------------------------------------
(* rbit source lock *)

\* plan_source_lock(seal=True): the preimages of the control files and of the
\* JSON directories come first.
LockStart(c) ==
  /\ c \in Locks /\ Starts(c)
  /\ \E S \in Selections : paths' = [paths EXCEPT ![c] = S]
  /\ Goto(c, "seal", <<"manifest", "plan", "graph", "records">>)
  /\ UNCHANGED <<file, pre, read, write, derive, scaffold, edits, faults, held, history>>

\* Then the sources are hashed and the records loaded a second time.
LockSealed(c) ==
  /\ c \in Locks /\ pc[c] = "seal" /\ todo[c] = <<>>
  /\ Goto(c, "look", SourceOrder(paths[c]) \o <<"plan", "records", "graph">>)
  /\ UNCHANGED <<file, pre, read, paths, write, derive, scaffold, edits, faults, held, history>>

\* build_source_manifest and _inspect_candidate_source_authority
LockLook(c) ==
  /\ c \in Locks /\ pc[c] = "look" /\ todo[c] # <<>>
  /\ read' = [read EXCEPT ![c] = (Head(todo[c]) :> file[Head(todo[c])]) @@ @]
  /\ todo' = [todo EXCEPT ![c] = Tail(@)]
  /\ UNCHANGED <<file, pc, pre, paths, write, derive, scaffold, edits, faults, held, history>>

\* Mutant: the admitted sources are not checked again.
ExpectSealed(sealed, doc) == sealed

\* What the transaction expects: the sealed preimages and the admitted sources.
Expected(sealed, doc) == sealed @@ doc

\* The refusals of apply_source_lock and, if there is none, its transaction.
LockDecide(c) ==
  /\ c \in Locks /\ pc[c] = "look" /\ todo[c] = <<>>
  /\ LET doc == [s \in paths[c] |-> read[c][s]]
         plan == IF read[c]["plan"] = None THEN None
                 ELSE [read[c]["plan"] EXCEPT !.digest = doc]
         graph == read[c]["graph"]
         removed == graph # None /\ ~graph \subseteq paths[c]
     IN \E invalidate \in BOOLEAN :
          IF \/ ~PlanFits(plan, doc, read[c]["records"])
             \/ ~SourcesAs(file, doc)
             \/ Stale(UnitsOf(plan), doc)
             \/ removed /\ ~invalidate
            THEN Goto(c, "failed", <<>>) /\ UNCHANGED <<pre, write>>
            ELSE /\ Goto(c, "apply", <<>>)
                 /\ pre' = [pre EXCEPT ![c] = Expected(@, doc)]
                 /\ write' = [write EXCEPT ![c] =
                      ("manifest" :> doc)
                      @@ (IF plan = None THEN Empty ELSE "plan" :> plan)
                      @@ (IF removed THEN "graph" :> None ELSE Empty)]
  /\ UNCHANGED <<file, read, paths, derive, scaffold, edits, faults, held, history>>

LockApply(c) ==
  /\ c \in Locks /\ pc[c] = "apply"
  /\ Commit(c, pre[c], write[c], "done", "failed")
  /\ UNCHANGED <<pre, read, paths, write, derive, scaffold, edits, faults>>

-----------------------------------------------------------------------------
(* rbit source regenerate --apply *)

RegenStart(c) ==
  /\ c \in Regens /\ Starts(c)
  /\ Goto(c, "seal", <<"records", "plan">>)
  /\ UNCHANGED <<file, pre, read, paths, write, derive, scaffold, edits, faults, held, history>>

\* ProjectSourceReader: of the sources only those of the units are read.
RegenRead(c) ==
  /\ c \in Regens /\ pc[c] = "seal" /\ todo[c] = <<>>
  /\ Goto(c, "capture", SourceOrder(DOMAIN UnitsOf(pre[c]["plan"])))
  /\ UNCHANGED <<file, pre, read, paths, write, derive, scaffold, edits, faults, held, history>>

\* Mutant: only the build plan gets the new pins, not the shards.
RegenPlanOnly(old, units) == "plan" :> [old["plan"] EXCEPT !.units = units]

\* The documents that derive_classic_source_regeneration updates.
RegenWrites(old, units) ==
  "plan" :> [old["plan"] EXCEPT !.units = units] @@ "records" :> units

\* plan_source_regeneration and apply_source_regeneration
RegenApply(c) ==
  /\ c \in Regens /\ pc[c] = "capture" /\ todo[c] = <<>>
  /\ LET old == pre[c]
         units == [u \in DOMAIN UnitsOf(old["plan"]) |-> old[u]]
     IN IF old["plan"] = None \/ units = UnitsOf(old["plan"])
          THEN Goto(c, "done", <<>>) /\ UNCHANGED <<file, history, held>>
          ELSE IF old["records"] = None \/ DOMAIN units # DOMAIN old["records"]
            THEN Goto(c, "failed", <<>>) /\ UNCHANGED <<file, history, held>>
            ELSE Commit(c, old, RegenWrites(old, units), "done", "failed")
  /\ UNCHANGED <<pre, read, paths, write, derive, scaffold, edits, faults>>

-----------------------------------------------------------------------------
(* rbit import cmake *)

ImportStart(c) ==
  /\ c \in Imports /\ Starts(c)
  /\ IF file["plan"] # None
       THEN Goto(c, "load", <<>>)
       ELSE Goto(c, "scaffold", <<"graph", "records", "manifest">>)
  /\ UNCHANGED <<file, pre, read, paths, write, derive, scaffold, edits, faults, held, history>>

\* scaffold_cmake_authority: a plan without units and the target records.
Scaffold(c) ==
  /\ c \in Imports /\ pc[c] = "scaffold" /\ todo[c] = <<>>
  /\ LET old == pre[c]
         new == "plan" :> [digest |-> old["manifest"], units |-> Empty] @@ "records" :> Empty
         expected == "plan" :> None @@ "records" :> None @@ "manifest" :> old["manifest"]
     IN IF old["graph"] # None \/ old["records"] # None
          THEN Goto(c, "failed", <<>>) /\ UNCHANGED <<file, history, held>>
          ELSE Commit(c, expected, new, "scaffolded", "failed")
  /\ pre' = [pre EXCEPT ![c] = Empty]
  /\ UNCHANGED <<read, paths, write, derive, scaffold, edits, faults>>

\* The documents on disk are the ones of the scaffold, or it is rolled back.
ScaffoldCheck(c) ==
  /\ c \in Imports /\ pc[c] = "scaffolded"
  /\ Goto(c, IF file["records"] = Empty THEN "load" ELSE "remove", <<>>)
  /\ UNCHANGED <<file, pre, read, paths, write, derive, scaffold, edits, faults, held, history>>

\* load_project_tree before CMake runs, which configures the locked sources.
ImportLoad(c) ==
  /\ c \in Imports /\ pc[c] = "load"
  /\ \/ /\ Loads([file EXCEPT !["graph"] = None]) /\ file["plan"] # None
        /\ paths' = [paths EXCEPT ![c] = DOMAIN file["manifest"]]
        /\ derive' = [derive EXCEPT ![c] = file["plan"].units = Empty]
        /\ Goto(c, "capture", <<"manifest", "plan", "records", "graph">>)
        /\ UNCHANGED faults
     \/ /\ \/ ~Loads([file EXCEPT !["graph"] = None]) /\ UNCHANGED faults
           \/ Fault
        /\ Goto(c, "unscaffold", <<>>)
        /\ UNCHANGED <<paths, derive>>
  /\ UNCHANGED <<file, pre, read, write, scaffold, edits, held, history>>

\* rbit graph extract works on a tree that was configured earlier.
ExtractStart(c) ==
  /\ c \in Extracts /\ Starts(c)
  /\ paths' = [paths EXCEPT ![c] = Sources]
  /\ Goto(c, "capture", <<"manifest", "plan", "records", "graph">>)
  /\ UNCHANGED <<file, pre, read, write, derive, scaffold, edits, faults, held, history>>

\* record_cmake_graph up to its transaction: the records with the new graph
\* are valid, and with the units that imported_translation_unit_authority
\* derives for it when the plan has none.
Record(c) ==
  /\ c \in Imports \cup Extracts /\ pc[c] = "capture" /\ todo[c] = <<>>
  /\ \/ \E graph \in SUBSET paths[c] \ {{}} :
          LET old == pre[c]
              fresh == derive[c] /\ old["plan"] # None /\ UnitsOf(old["plan"]) = Empty
              units == [s \in graph |-> old["manifest"][s]]
              new == IF fresh
                       THEN "graph" :> graph @@ "records" :> units
                            @@ "plan" :> [old["plan"] EXCEPT !.units = units]
                       ELSE "graph" :> graph
          IN /\ Valid([old EXCEPT !["graph"] = graph])
             /\ derive[c] => old["plan"] # None
             /\ write' = [write EXCEPT ![c] = new]
             /\ Goto(c, "commit", <<>>)
             /\ UNCHANGED faults
     \/ /\ \/ /\ \A graph \in SUBSET paths[c] \ {{}} : ~Valid([pre[c] EXCEPT !["graph"] = graph])
              /\ UNCHANGED faults
           \/ Fault
        /\ Goto(c, "unscaffold", <<>>)
        /\ UNCHANGED write
  /\ UNCHANGED <<file, pre, read, paths, derive, scaffold, edits, held, history>>

RecordCommit(c) ==
  /\ c \in Imports \cup Extracts /\ pc[c] = "commit"
  /\ Commit(c, pre[c], write[c], "confirm", "unscaffold")
  /\ UNCHANGED <<pre, read, paths, write, derive, scaffold, edits, faults>>

\* The configured tree is unchanged and the project loads, or the commit is
\* taken back.  An import may still fail when it closes its workspace.
Confirm(c) ==
  /\ c \in Imports \cup Extracts /\ pc[c] = "confirm"
  /\ \/ Loads(file) /\ Goto(c, "done", <<>>) /\ UNCHANGED faults
     \/ ~Loads(file) /\ Goto(c, "undo", <<>>) /\ UNCHANGED faults
     \/ Fault /\ Goto(c, "undo", <<>>)
     \/ Loads(file) /\ c \in Imports /\ Fault /\ Goto(c, "unscaffold", <<>>)
  /\ UNCHANGED <<file, pre, read, paths, write, derive, scaffold, edits, held, history>>

\* The rollback of the files F expects only those files.
UndoFiles(c, F) ==
  /\ c \in Imports \cup Extracts /\ pc[c] = "undo"
  /\ Commit(c, write[c], [f \in F |-> pre[c][f]], "unscaffold", "unscaffold")
  /\ UNCHANGED <<pre, read, paths, write, derive, scaffold, edits, faults>>

\* Mutant: only the graph is restored.
UndoGraph(c) == UndoFiles(c, {"graph"})

Undo(c) == UndoFiles(c, DOMAIN write[c])

\* command_cmake_import after an error: a scaffold without a graph goes.
Unscaffold(c) ==
  /\ c \in Imports \cup Extracts /\ pc[c] = "unscaffold"
  /\ Goto(c, IF scaffold[c] # Empty /\ file["graph"] = None THEN "remove" ELSE "failed", <<>>)
  /\ UNCHANGED <<file, pre, read, paths, write, derive, scaffold, edits, faults, held, history>>

\* rollback_cmake_scaffold
RemoveScaffold(c) ==
  /\ c \in Imports /\ pc[c] = "remove"
  /\ Commit(c, scaffold[c], [f \in DOMAIN scaffold[c] |-> None], "failed", "failed")
  /\ UNCHANGED <<pre, read, paths, write, derive, scaffold, edits, faults>>

-----------------------------------------------------------------------------
(* rbit import cmake --refresh *)

\* plan_source_lock selects, capture_cmake_refresh_snapshot reads.
RefreshStart(c) ==
  /\ c \in Refreshes /\ Starts(c)
  /\ \E S \in Selections :
       /\ paths' = [paths EXCEPT ![c] = S]
       /\ Goto(c, "capture", <<"records">> \o SourceOrder(S) \o <<"manifest", "plan", "graph">>)
  /\ UNCHANGED <<file, pre, read, write, derive, scaffold, edits, faults, held, history>>

\* Units whose step is unchanged keep their shards, the others start afresh or
\* are retired: the pins are those of the new manifest in either case.
Candidate(doc, graph) ==
  LET units == [s \in graph |-> doc[s]]
  IN "manifest" :> doc @@ "graph" :> graph @@ "records" :> units
     @@ "plan" :> [digest |-> doc, units |-> units]

\* The staged copy: locked, configured, recorded and verified from scratch.
Refresh(c) ==
  /\ c \in Refreshes /\ pc[c] = "capture" /\ todo[c] = <<>>
  /\ LET old == pre[c]
         doc == [s \in paths[c] |-> old[s]]
         usable == /\ old["plan"] # None /\ old["graph"] # None
                   /\ old["records"] # None /\ UnitsOf(old["plan"]) = old["records"]
     IN \/ /\ usable
           /\ \E graph \in SUBSET paths[c] \ {{}} :
                write' = [write EXCEPT ![c] = Candidate(doc, graph)]
           /\ Goto(c, "publish", <<>>) /\ UNCHANGED faults
        \/ /\ (~usable /\ UNCHANGED faults) \/ Fault
           /\ Goto(c, "failed", <<>>) /\ UNCHANGED write
  /\ UNCHANGED <<file, pre, read, paths, derive, scaffold, edits, held, history>>

\* publish_cmake_refresh asserts or replaces every file of the snapshot.
RefreshPublish(c) ==
  /\ c \in Refreshes /\ pc[c] = "publish"
  /\ Commit(c, pre[c], write[c], "done", "failed")
  /\ UNCHANGED <<pre, read, paths, write, derive, scaffold, edits, faults>>

-----------------------------------------------------------------------------

Next ==
  \/ Edit
  \/ \E c \in Commands :
       \/ Capture(c) \/ Settle(c)
       \/ LockStart(c) \/ LockSealed(c) \/ LockLook(c) \/ LockDecide(c) \/ LockApply(c)
       \/ RegenStart(c) \/ RegenRead(c) \/ RegenApply(c)
       \/ ImportStart(c) \/ Scaffold(c) \/ ScaffoldCheck(c) \/ ImportLoad(c)
       \/ ExtractStart(c) \/ Record(c) \/ RecordCommit(c) \/ Confirm(c) \/ Undo(c)
       \/ Unscaffold(c) \/ RemoveScaffold(c)
       \/ RefreshStart(c) \/ Refresh(c) \/ RefreshPublish(c)

Spec == Init /\ [][Next]_vars

-----------------------------------------------------------------------------
(* Properties *)

\* The records are bound to each other whenever no transaction is under way,
\* whichever commands commit in which order and although they read what others
\* have written half: the plan names the manifest and the units that have
\* shards, the graph reads only locked sources.  The exception is a file that
\* comes back to earlier contents, as when a transaction or an import is rolled
\* back: a command that loaded what is gone again takes the file for unchanged.
CoherentUnlessReturned == held # None \/ returned \/ Valid(file)

\* A command that replaces the manifest leaves one that describes the sources
\* on disk at that moment, although it hashed them one after the other, and
\* with it no unit whose pin is stale.  The second part has the exception of
\* CoherentUnlessReturned: no file has come back to earlier contents.
LockedAsIs ==
  [][held # None /\ held' = None /\ "manifest" \in DOMAIN held.new
       /\ file'["manifest"] # held.old["manifest"] =>
       /\ SourcesAs(file', file'["manifest"])
       /\ returned \/ ~Stale(UnitsOf(file'["plan"]), file'["manifest"])]_vars

\* An import that fails while no other command runs leaves nothing of its
\* scaffold, its graph and its units, or all of them bound to each other,
\* wherever it failed and whatever the user edited meanwhile.  (If the removal
\* of the scaffold fails as well, the scaffold stays and the error says so.)
FailedImportWhole ==
  \A c \in Imports :
    /\ pc[c] = "failed" /\ scaffold[c] # Empty
    /\ \A d \in Commands \ {c} : pc[d] = "start"
    => \/ \A f \in {"plan", "graph", "records"} : file[f] = None
       \/ file["graph"] # None /\ Valid(file)

=============================================================================
