----------------------------- MODULE Connections -----------------------------
(***************************************************************************)
(* The configuration of enrichment (context_service.py): connections to a  *)
(* model provider, their credentials, the models a provider has listed,    *)
(* the tests it has passed, and the assignment that puts one to work.      *)
(* Four files; a request that changes them is one section of the service's *)
(* lock, but calls the provider outside it, and one waits inside it.  The  *)
(* set-up also declares properties in the schema, which Admin, a process   *)
(* of its own, edits too.                                                  *)
(*                                                                         *)
(* Of a connection only its credential, its version and which kind of      *)
(* identity it has are kept, and one model for each.                       *)
(***************************************************************************)
EXTENDS Naturals, FiniteSets

CONSTANTS Conns, Keys, Tabs, MaxRequests, MaxFaults, None

VARIABLES config,       \* config.json
          credentials, discovery,   \* each connection's key, and the key its models were listed with
          tests, baseline,    \* the tests that were passed; whether the present notes are recorded
          schema,       \* the revision and the properties
          lock,         \* who is inside the service's lock over several steps, with what
          tabs,         \* what each tab has been shown, and has asked for
          answered,     \* the keys with which the provider has passed a test of a connection
          torn,         \* connections whose change a crash has left half done
          leave

vars == <<config, credentials, discovery, tests, baseline, schema, lock, tabs, answered, torn, leave>>

Absent == 0      \* identities: none, one given by hand, one generated
ByHand == 1
Generated == 2
NoKey == 0       \* not every provider asks for one; Keys are other numbers
NoRef == [of |-> None, id |-> Absent]
Idle == [pc |-> "idle", rev |-> 0, id |-> [c \in Conns |-> Absent], of |-> None, version |-> 0, key |-> NoKey]
Unlocked == [pc |-> "none", by |-> None, basis |-> None, ref |-> NoRef, on |-> FALSE, body |-> {}, rev |-> 0]

(* An installation from before connections' identities were generated may have some *)
Start(pc) ==
  \E had \in (IF pc = "off" THEN {{}} ELSE SUBSET Conns) :
    /\ config = [rev |-> 0, id |-> [c \in Conns |-> IF c \in had THEN ByHand ELSE Absent],
                 version |-> [c \in Conns |-> 0], ref |-> NoRef, enabled |-> FALSE, lifecycle |-> FALSE]
    /\ credentials = [c \in Conns |-> NoKey] /\ discovery = [c \in Conns |-> None]
    /\ tests = {} /\ answered = {} /\ torn = {} /\ baseline = FALSE
    /\ schema = [rev |-> 1, keys |-> {}] /\ lock = Unlocked
    /\ tabs = [p \in Tabs |-> [Idle EXCEPT !.pc = pc]]
    /\ leave = [requests |-> MaxRequests, faults |-> MaxFaults]
Init == Start("idle")

May(what) == leave[what] > 0 /\ leave' = [leave EXCEPT ![what] = @ - 1]
At(p, pc) == tabs[p].pc = pc
Go(p, tab) == tabs' = [tabs EXCEPT ![p] = tab]
Quiet == [p \in Tabs |-> Idle]
Free == lock.pc = "none"
(* The listing of notes for the baseline is awaited with the lock held; nothing else is *)
Awaits == lock.pc = "assign" /\ lock.on /\ ~baseline
Scheduled == Free \/ Awaits
Ref(c) == [of |-> c, id |-> config.id[c]]
ListedWith(c) == discovery[c]

-----------------------------------------------------------------------------
(* A page, with a revision and identities *)
Show(p) ==
  /\ At(p, "idle") /\ Scheduled /\ May("requests")
  /\ Go(p, [Idle EXCEPT !.pc = "shown", !.rev = config.rev, !.id = config.id])
  /\ UNCHANGED <<config, credentials, discovery, tests, baseline, schema, lock, answered, torn>>

(* What it submits is refused, or the provider does not answer *)
Fails(p) ==
  /\ ~At(p, "idle") /\ ~At(p, "off") /\ lock.by # p /\ Scheduled /\ Go(p, Idle)
  /\ UNCHANGED <<config, credentials, discovery, tests, baseline, schema, lock, answered, torn, leave>>

Submits(p) == At(p, "shown") /\ Free /\ tabs[p].rev = config.rev

(* save_connection: the credential, the listing and the configuration, in this order; a
   credential written for a new connection that is not saved belongs to none *)
Bumped(c) == config.version[c] + 1
Same(c) == config.version[c]
Version(c) == Bumped(c)
SaveConnection(p) ==
  \E c \in Conns, k \in Keys \cup {None}, written \in {1, 2, 3} :
    /\ Submits(p) /\ (config.id[c] = Absent => written = 3)
    /\ credentials' = IF k = None THEN credentials ELSE [credentials EXCEPT ![c] = k]
    /\ discovery' = IF written >= 2 THEN [discovery EXCEPT ![c] = None] ELSE discovery
    /\ IF written = 3
       THEN /\ config' = [config EXCEPT !.rev = @ + 1, !.id[c] = IF @ = Absent THEN Generated ELSE @,
                                        !.version[c] = Version(c), !.enabled = @ /\ config.ref # Ref(c)]
            /\ torn' = torn \ {c} /\ Go(p, Idle) /\ UNCHANGED leave
       ELSE config' = config /\ torn' = (IF k = None THEN torn ELSE torn \cup {c}) /\ tabs' = Quiet /\ May("faults")
    /\ UNCHANGED <<tests, baseline, schema, lock, answered>>

(* convert_connection: a generated identity, which the assignment follows *)
Convert(p) ==
  \E c \in Conns :
    /\ Submits(p) /\ config.id[c] = ByHand
    /\ config' = [config EXCEPT !.rev = @ + 1, !.id[c] = Generated,
                                !.ref = IF @ = Ref(c) THEN [of |-> c, id |-> Generated] ELSE @]
    /\ Go(p, Idle)
    /\ UNCHANGED <<credentials, discovery, tests, baseline, schema, lock, answered, torn, leave>>

(* discover and test_model ask the provider with what the connection is now *)
Asks(p, c, pc) ==
  /\ At(p, "shown") /\ Scheduled /\ config.id[c] # Absent /\ tabs[p].id[c] = config.id[c]
  /\ Go(p, [tabs[p] EXCEPT !.pc = pc, !.of = c, !.version = config.version[c], !.key = credentials[c]])
  /\ UNCHANGED <<config, credentials, discovery, tests, baseline, schema, lock, answered, torn, leave>>
DiscoverBegins(p) == \E c \in Conns : Asks(p, c, "discover")
TestBegins(p) == \E c \in Conns : ListedWith(c) # None /\ Asks(p, c, "test")

AnyVersion(p) == TRUE
StillSo(p) == config.version[tabs[p].of] = tabs[p].version
DiscoverEnds(p) ==
  /\ At(p, "discover") /\ Free /\ StillSo(p)
  /\ discovery' = [discovery EXCEPT ![tabs[p].of] = tabs[p].key] /\ Go(p, Idle)
  /\ UNCHANGED <<config, credentials, tests, baseline, schema, lock, answered, torn, leave>>
TestEnds(p) ==
  /\ At(p, "test") /\ Free
  /\ tests' = tests \cup {<<tabs[p].of, tabs[p].version>>}
  /\ answered' = answered \cup {<<tabs[p].of, tabs[p].key>>} /\ Go(p, Idle)
  /\ UNCHANGED <<config, credentials, discovery, baseline, schema, lock, torn, leave>>

(* save_assignment.  The first that is enabled records the notes there are, page by page. *)
Tested(c) == <<c, config.version[c]>> \in tests
AssignBegins(p) ==
  \E c \in Conns, on \in BOOLEAN :
    /\ Submits(p) /\ config.id[c] # Absent /\ ListedWith(c) # None /\ (on => Tested(c))
    /\ lock' = [Unlocked EXCEPT !.pc = "assign", !.by = p, !.basis = config, !.ref = Ref(c), !.on = on]
    /\ UNCHANGED <<config, credentials, discovery, tests, baseline, schema, tabs, answered, torn, leave>>
Baselined == baseline \/ lock.on
AssignEnds ==
  /\ lock.pc = "assign"
  /\ config' = [lock.basis EXCEPT !.rev = @ + 1, !.ref = lock.ref, !.enabled = lock.on]
  /\ baseline' = Baselined
  /\ Go(lock.by, Idle) /\ lock' = Unlocked
  /\ UNCHANGED <<credentials, discovery, tests, schema, answered, torn, leave>>

-----------------------------------------------------------------------------
(* setup_lifecycle and configure_property: the properties are read, then the revision their
   change is to replace *)

SetupReads(p) ==
  /\ Submits(p)
  /\ lock' = [Unlocked EXCEPT !.pc = "read", !.by = p, !.body = schema.keys, !.rev = schema.rev]
  /\ UNCHANGED <<config, credentials, discovery, tests, baseline, schema, tabs, answered, torn, leave>>
SetupLooks ==
  /\ lock.pc = "read"
  /\ lock' = [lock EXCEPT !.pc = "write", !.on = lock.rev # schema.rev, !.rev = schema.rev]
  /\ UNCHANGED <<config, credentials, discovery, tests, baseline, schema, tabs, answered, torn, leave>>
SetupWrites ==
  /\ lock.pc = "write"
  /\ IF lock.rev = schema.rev
     THEN /\ schema' = [rev |-> schema.rev + 1, keys |-> lock.body \cup {"mapped"}]
          /\ lock' = [lock EXCEPT !.pc = "save"] /\ UNCHANGED tabs
     ELSE lock' = Unlocked /\ Go(lock.by, Idle) /\ UNCHANGED schema
  /\ UNCHANGED <<config, credentials, discovery, tests, baseline, answered, torn, leave>>
SetupSaves ==
  /\ lock.pc = "save"
  /\ config' = [config EXCEPT !.rev = @ + 1, !.lifecycle = TRUE]
  /\ lock' = Unlocked /\ Go(lock.by, Idle)
  /\ UNCHANGED <<credentials, discovery, tests, baseline, schema, answered, torn, leave>>

(* Another property is declared, or no longer, in Admin *)
AdminEdits ==
  /\ \E p \in Tabs : ~At(p, "off")
  /\ May("requests")
  /\ schema' = [rev |-> schema.rev + 1,
                keys |-> IF "other" \in schema.keys THEN schema.keys \ {"other"} ELSE schema.keys \cup {"other"}]
  /\ UNCHANGED <<config, credentials, discovery, tests, baseline, lock, tabs, answered, torn>>

Crash ==
  /\ \E p \in Tabs : ~At(p, "off")
  /\ May("faults") /\ tabs' = Quiet /\ lock' = Unlocked
  /\ baseline' \in {baseline, baseline \/ (lock.pc = "assign" /\ lock.on)}
  /\ UNCHANGED <<config, credentials, discovery, tests, schema, answered, torn>>

Setup == SetupLooks \/ SetupWrites \/ SetupSaves
Next == \/ \E p \in Tabs : \/ Show(p) \/ Fails(p) \/ SaveConnection(p) \/ Convert(p) \/ DiscoverBegins(p)
                           \/ TestBegins(p) \/ DiscoverEnds(p) \/ TestEnds(p) \/ AssignBegins(p) \/ SetupReads(p)
        \/ AssignEnds \/ Setup \/ AdminEdits \/ Crash
Spec == Init /\ [][Next]_vars

-----------------------------------------------------------------------------
TypeOK == /\ \A c \in Conns : config.id[c] \in {Absent, ByHand, Generated}
          /\ lock.by \in Tabs \cup {None} /\ torn \subseteq Conns

(* What is at work has been tried with the credential it has now, and its models were listed
   with it: "Changing credentials increments this counter, invalidating capability tests"
   (context_config.py:52).  A crash inside the change of a connection is excused. *)
AtWork == LET c == config.ref.of
          IN config.enabled => /\ config.ref.id = config.id[c] /\ baseline
                               /\ c \in torn \/ <<c, credentials[c]>> \in answered
Listed == \A c \in Conns \ torn : discovery[c] \in {None, credentials[c]}
(* The lifecycle maps properties the schema declares *)
Declared == config.lifecycle => "mapped" \in schema.keys
(* No request undoes another's: neither a connection's change nor a property of Admin's, unless
   it was made between the two looks of a set-up *)
Grows == \A c \in Conns : config.version[c] <= config'.version[c] /\ config.id[c] <= config'.id[c]
Kept == SetupWrites /\ ~lock.on => schema.keys \subseteq schema'.keys

TestedBeforeUse == [](AtWork /\ Listed /\ Declared) /\ [][Grows /\ Kept]_vars
=============================================================================
