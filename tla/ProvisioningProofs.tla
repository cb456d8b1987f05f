-------------------------- MODULE ProvisioningProofs --------------------------
(***************************************************************************)
(* Proofs about Provisioning for any bundles, plugins, files and handlers, *)
(* and any number of boots, revisions and edits: the life of the process,  *)
(* the plugin trees, and the files the plugins own.  Each part has an      *)
(* inductive invariant of its own; the last section puts them together.    *)
(***************************************************************************)
EXTENDS Provisioning, FiniteSetTheorems, TLAPS

(***************************************************************************)
(* The life of the process.                                                *)
(***************************************************************************)

\* The steps of a boot before the registration, all of them a prepare may take.
Early == {"relay", "unpack", "ack", "install", "plan", "kernel", "config", "preflight",
          "adapter", "probe", "setup"}

\* Serving, and on the way down.
Late == {"serve", "closing", "stopping"}

\* What a boot has not done before it comes to the step that does it.
InOrder ==
    /\ preparing => phase \in Early \cup {"down"}
    /\ phase \in Early \cup {"down"} => attempt = 0 /\ ~registered
    /\ phase = "register" => attempt < MaxAttempts
    /\ phase \notin {"wake"} \cup Late => greeting = "none"
    /\ phase \notin Late => ~bound /\ poller = "none" /\ message = "none" /\ ~slow
    /\ phase \notin {"heartbeat", "prompt", "wake"} \cup Late => report = "unsent"

\* A marker of the relay vouches for every file, as long as nothing was
\* unpacked after it; what the unpacking has done is of the offered bundle.
RelayVouches ==
    /\ marker # NoBundle => dirty \/ \A z \in File : conf[z] = marker
    /\ phase = "unpack" => offered # NoBundle /\ \A z \in File \ left : conf[z] = offered
    /\ phase = "ack" => offered # NoBundle /\ \A z \in File : conf[z] = offered

\* A copy on the volume without the marker of the migration has a cause.
CopyHasCause ==
    /\ base # 0 /\ ~migrated => early # "no"
    /\ last = "legacy" => legacy # 0

\* What the user is owed is installed, and known to the plan that will tell it.
DueIsPlanned ==
    /\ phase \notin Late => note = "none"
    /\ phase \in {"down", "relay", "unpack", "ack", "install", "plan"} => plan = NoPlan
    /\ due \subseteq tree
    /\ record = NoRecord => due = {}
    /\ plan.adds # {} => due \subseteq plan.adds \cup (tree \ plan.current)
    /\ plan.adds # {} => plan.tries < MaxWake
    /\ note \in {"probing", "sending", "sent"} => plan.adds # {}
    /\ note = "sent" => due \subseteq tree \ plan.current

\* The places a marker was due in have it, and each stands for one prompt that
\* was sent or is about to be.
Pending == IF greeting = "waiting" THEN 1 ELSE 0

GreetingIsMarked ==
    /\ \/ unmarked \/ "image" \in places
       \/ places \subseteq markers /\ greeted + Pending <= Cardinality(places)
    /\ greeted + Pending <= boots
    /\ phase \notin {"down", "wake"} \cup Late => greeted < boots

\* The token the platform has issued is the one that is held, or it is lost.
TokenHasCause ==
    /\ minted /\ token # "held" => lost
    /\ registered => minted

\* A message is only posted by a poller, and one that did not wait was slow.
PollerHasCause ==
    /\ message \in {"posting", "taken", "dropped"} => poller = "on"
    /\ poller = "on" /\ ~bound => slow

BootInv ==
    /\ BootTypeOK /\ InOrder
    /\ RelayVouches /\ WholeConfig
    /\ CopyHasCause /\ LatestIsServed
    /\ DueIsPlanned /\ NeverSilent
    /\ GreetingIsMarked /\ PromptOnce
    /\ TokenHasCause /\ ReportIsAuthorized
    /\ PollerHasCause /\ DropHasCause

\* The bounds, as the steps below use them.
LEMMA BootBounds ==
  /\ MaxBoots \in Nat /\ MaxAttempts \in Nat /\ MaxAttempts > 0
  /\ 0 \in 0..MaxBoots /\ 0 \in 0..MaxAttempts
<1>1. MaxBoots \in Nat /\ MaxAttempts \in Nat \ {0}
  BY BootAssumption
<1>. QED
  BY <1>1

\* No step is taken before the ones it comes after.
LEMMA OrderStep == InOrder /\ BootTypeOK /\ BootNext => InOrder'
<1> SUFFICES ASSUME InOrder, BootTypeOK, BootNext PROVE InOrder'
  OBVIOUS
<1> USE DEF InOrder, Early, Late, Up, At, Goto, Phase, process, net, prompt, poll
<1>1. CASE Starts
  BY <1>1 DEF Starts, BootTypeOK
<1>2. CASE PrepareEnds \/ PrepareDone
  BY <1>2 DEF PrepareEnds, PrepareDone, Prepared
<1>3. CASE Killed \/ Exits \/ RelayFails \/ RelayRejects \/ SetupAborts
  BY <1>3 DEF Killed, Exits, RelayFails, RelayRejects, SetupAborts, Fatal, Ends
<1>13. CASE Stops \/ Closes
  BY <1>13 DEF Stops, Closes
<1>4. CASE Preflighted \/ AdapterLoaded \/ ProbeWired
  BY <1>4 DEF Preflighted, AdapterLoaded, ProbeWired, Fatal, Ends
<1>5. CASE RelaySkipped \/ RelayFetched \/ RelayUnpacks \/ RelayAcks
  BY <1>5 DEF RelaySkipped, RelayFetched, RelayUnpacks, RelayAcks
<1>6. CASE PluginsInstalled \/ WakePlanned \/ KernelInstalled \/ ConfigLoaded
  BY <1>6 DEF PluginsInstalled, WakePlanned, KernelInstalled, ConfigLoaded
<1>7. CASE SetupDone
  BY <1>7, BootAssumption DEF SetupDone
<1>8. CASE Registers
  BY <1>8, BootAssumption DEF Registers, RegisterAnswered, RegisterRefused, RegisterLost, BootTypeOK
<1>9. CASE Reports \/ HeartbeatStarts \/ Greets
  BY <1>9 DEF Reports, HeartbeatStarts, Greets
<1>10. CASE WakeScheduled \/ Binds \/ GreetingSent \/ NoteProceeds \/ PollerStarts
  BY <1>10 DEF WakeScheduled, Binds, GreetingSent, NoteProceeds, PollerStarts
<1>11. CASE MessageStaged \/ MessagePolled \/ MessagePosted \/ StateWritten
  BY <1>11 DEF MessageStaged, MessagePolled, MessagePosted, StateWritten
<1>. QED
  BY <1>1, <1>2, <1>3, <1>4, <1>5, <1>6, <1>7, <1>8, <1>9, <1>10, <1>11, <1>13 DEF BootNext

\* What a step of a boot does to the configuration and its relay: one of the
\* steps of ConfigRelay, at the point of the boot where the code calls it.
LEMMA RelaySteps ==
  ASSUME InOrder, BootTypeOK, BootNext
  PROVE  \/ phase' = "relay" /\ (UNCHANGED relay \/ \E b \in Bundle : Provision(b))
         \/ phase' \in {"down", "relay"} /\ RelayLeft
         \/ Materialized /\ phase' = "install" /\ UNCHANGED relay
         \/ Fetch /\ phase' = "unpack"
         \/ /\ phase = "unpack" /\ \E x \in File : Unpack(x)
            /\ phase' = IF left' = {} THEN "ack" ELSE "unpack"
         \/ /\ phase = "ack" /\ phase' = "install"
            /\ \E written, acked \in BOOLEAN : MarkAndAck(written, acked)
         \/ /\ phase \notin {"down", "relay", "unpack", "ack"}
            /\ phase' \notin {"down", "relay", "unpack", "ack"}
            /\ UNCHANGED relay
<1> USE DEF Early, Late, Up, At, Goto, Phase
<1>1. CASE Starts
  BY <1>1 DEF Starts, Environment
<1>2. CASE PrepareEnds \/ PrepareDone
  BY <1>2 DEF PrepareEnds, PrepareDone, Prepared
<1>3. CASE Killed \/ Exits \/ RelayFails \/ RelayRejects \/ SetupAborts
  BY <1>3 DEF Killed, Exits, RelayFails, RelayRejects, SetupAborts, Fatal, Ends
<1>13. CASE Stops \/ Closes
  BY <1>13 DEF Stops, Closes
<1>4. CASE Preflighted \/ AdapterLoaded \/ ProbeWired
  BY <1>4 DEF Preflighted, AdapterLoaded, ProbeWired, Fatal, Ends
<1>5. CASE RelaySkipped \/ RelayFetched \/ RelayUnpacks
  BY <1>5 DEF RelaySkipped, RelayFetched, RelayUnpacks
<1>6. CASE RelayAcks
  BY <1>6 DEF RelayAcks
<1>7. CASE PluginsInstalled \/ WakePlanned \/ KernelInstalled \/ ConfigLoaded \/ SetupDone
  BY <1>7 DEF PluginsInstalled, WakePlanned, KernelInstalled, ConfigLoaded, SetupDone
<1>8. CASE Registers
  BY <1>8 DEF Registers, RegisterAnswered, RegisterRefused, RegisterLost
<1>9. CASE Reports \/ HeartbeatStarts \/ Greets
  BY <1>9 DEF Reports, HeartbeatStarts, Greets
<1>10. CASE WakeScheduled \/ Binds \/ GreetingSent \/ NoteProceeds \/ PollerStarts
  BY <1>10 DEF WakeScheduled, Binds, GreetingSent, NoteProceeds, PollerStarts
<1>11. CASE MessageStaged \/ MessagePolled \/ MessagePosted \/ StateWritten
  BY <1>11 DEF MessageStaged, MessagePolled, MessagePosted, StateWritten, InOrder
<1>. QED
  BY <1>1, <1>2, <1>3, <1>4, <1>5, <1>6, <1>7, <1>8, <1>9, <1>10, <1>11, <1>13 DEF BootNext

\* The marker goes on vouching for the files.
LEMMA RelayVouchesStep ==
  ASSUME InOrder, BootTypeOK, RelayVouches, WholeConfig, BootNext
  PROVE  RelayVouches' /\ WholeConfig' /\ RelayTypeOK'
<1> USE RelayAssumption DEF RelayVouches, WholeConfig, relay, RelayTypeOK, BootTypeOK
<1>1. CASE phase' = "relay" /\ (UNCHANGED relay \/ \E b \in Bundle : Provision(b))
  BY <1>1 DEF Provision
<1>2. CASE phase' \in {"down", "relay"} /\ RelayLeft
  BY <1>2 DEF RelayLeft
<1>3. CASE Materialized /\ phase' = "install" /\ UNCHANGED relay
  BY <1>3 DEF Materialized
<1>4. CASE Fetch /\ phase' = "unpack"
  BY <1>4 DEF Fetch, Materialized
<1>5. ASSUME phase = "unpack", NEW x \in File, Unpack(x),
             phase' = IF left' = {} THEN "ack" ELSE "unpack"
      PROVE  RelayVouches' /\ WholeConfig' /\ RelayTypeOK'
  BY <1>5 DEF Unpack
<1>6. ASSUME phase = "ack", phase' = "install",
             NEW written \in BOOLEAN, NEW acked \in BOOLEAN, MarkAndAck(written, acked)
      PROVE  RelayVouches' /\ WholeConfig' /\ RelayTypeOK'
  BY <1>6 DEF MarkAndAck
<1>7. CASE /\ phase \notin {"down", "relay", "unpack", "ack"}
           /\ phase' \notin {"down", "relay", "unpack", "ack"}
           /\ UNCHANGED relay
  BY <1>7
<1>. QED
  BY RelaySteps, <1>1, <1>2, <1>3, <1>4, <1>5, <1>6, <1>7

\* What a step of a boot does to the mailbox directory.
LEMMA MailboxSteps ==
  ASSUME InOrder, BootTypeOK, BootNext
  PROVE  \/ phase' = "relay" /\ (UNCHANGED mailbox \/ \E k, u \in BOOLEAN : Reboot(k, u))
         \/ phase' = "config" /\ (Carry \/ CarryFails)
         \/ phase' \in Late /\ Write
         \/ phase' # "config" /\ UNCHANGED mailbox
<1> USE DEF Early, Late, Up, At, Goto, Phase
<1>1. CASE Starts
  BY <1>1 DEF Starts, Environment
<1>2. CASE PrepareEnds \/ PrepareDone
  BY <1>2 DEF PrepareEnds, PrepareDone, Prepared
<1>3. CASE Killed \/ Exits \/ RelayFails \/ RelayRejects \/ SetupAborts
  BY <1>3 DEF Killed, Exits, RelayFails, RelayRejects, SetupAborts, Fatal, Ends
<1>13. CASE Stops \/ Closes
  BY <1>13 DEF Stops, Closes
<1>4. CASE Preflighted \/ AdapterLoaded \/ ProbeWired
  BY <1>4 DEF Preflighted, AdapterLoaded, ProbeWired, Fatal, Ends
<1>5. CASE RelaySkipped \/ RelayFetched \/ RelayUnpacks \/ RelayAcks
  BY <1>5 DEF RelaySkipped, RelayFetched, RelayUnpacks, RelayAcks
<1>7. CASE PluginsInstalled \/ WakePlanned \/ KernelInstalled \/ ConfigLoaded \/ SetupDone
  BY <1>7 DEF PluginsInstalled, WakePlanned, KernelInstalled, ConfigLoaded, SetupDone
<1>8. CASE Registers
  BY <1>8 DEF Registers, RegisterAnswered, RegisterRefused, RegisterLost
<1>9. CASE Reports \/ HeartbeatStarts \/ Greets
  BY <1>9 DEF Reports, HeartbeatStarts, Greets
<1>10. CASE WakeScheduled \/ Binds \/ GreetingSent \/ NoteProceeds \/ PollerStarts
  BY <1>10 DEF WakeScheduled, Binds, GreetingSent, NoteProceeds, PollerStarts
<1>11. CASE MessageStaged \/ MessagePolled \/ MessagePosted \/ StateWritten
  BY <1>11 DEF MessageStaged, MessagePolled, MessagePosted, StateWritten, InOrder
<1>. QED
  BY <1>1, <1>2, <1>3, <1>4, <1>5, <1>7, <1>8, <1>9, <1>10, <1>11, <1>13 DEF BootNext

\* The state that was written last stays the one that is read.
LEMMA CopyHasCauseStep ==
  ASSUME InOrder, BootTypeOK, CopyHasCause, BootNext
  PROVE  CopyHasCause' /\ LatestIsServed' /\ MailboxTypeOK'
<1> USE MailboxAssumption DEF CopyHasCause, LatestIsServed, MailboxTypeOK, BootTypeOK, At, Late
<1>1. CASE phase' = "relay" /\ (UNCHANGED mailbox \/ \E k, u \in BOOLEAN : Reboot(k, u))
  BY <1>1 DEF Reboot, mailbox
<1>2. CASE phase' = "config" /\ Carry
  BY <1>2 DEF Carry, Resolve, Newest, mailbox
<1>3. CASE phase' = "config" /\ CarryFails
  BY <1>3 DEF CarryFails, Resolve, mailbox
<1>4. CASE phase' \in Late /\ Write
  <2>1. CASE Resolve = "base"
    BY <1>4, <2>1 DEF Write
  <2>2. CASE Resolve # "base"
    BY <1>4, <2>2 DEF Write, Resolve
  <2>. QED
    BY <2>1, <2>2
<1>5. CASE phase' # "config" /\ UNCHANGED mailbox
  BY <1>5 DEF mailbox
<1>. QED
  BY MailboxSteps, <1>1, <1>2, <1>3, <1>4, <1>5

\* What a step of a boot does to the record of the plugins the user knows of.
LEMMA WakeSteps ==
  ASSUME InOrder, BootTypeOK, BootNext
  PROVE  \/ /\ phase = "install" /\ phase' = "plan"
            /\ \E ps \in SUBSET Plugin : Tree(ps)
         \/ /\ phase = "plan" /\ phase' = "kernel"
            /\ \/ \E current \in {tree, {}} : Prepare(current)
               \/ PrepareUnsaved(tree) \/ PrepareForgetting(tree)
         \/ /\ phase = "wake" /\ phase' = "serve"
            /\ \E saved \in BOOLEAN : MarkAttempt(saved)
         \/ /\ phase \in Late /\ phase' \in Late
            /\ \/ \E told \in BOOLEAN : Cancel(told)
               \/ \E awake \in BOOLEAN : Probe(awake)
               \/ \E told, ok \in BOOLEAN : Send(told, ok)
               \/ \E saved \in BOOLEAN : Consume(saved)
         \/ phase' \in {"down", "relay"} /\ WakeLeft
         \/ /\ UNCHANGED wake /\ (phase \in Late => phase' \in Late)
            /\ phase' \in {"down", "relay", "unpack", "ack", "install", "plan"} =>
                  phase \in {"down", "relay", "unpack", "ack", "install", "plan"}
<1> USE DEF Early, Late, Up, At, Goto, Phase
<1>1. CASE Starts
  BY <1>1 DEF Starts, Environment
<1>2. CASE PrepareEnds \/ PrepareDone
  BY <1>2 DEF PrepareEnds, PrepareDone, Prepared
<1>3. CASE Killed \/ Exits \/ RelayFails \/ RelayRejects \/ SetupAborts
  BY <1>3 DEF Killed, Exits, RelayFails, RelayRejects, SetupAborts, Fatal, Ends
<1>13. CASE Stops \/ Closes
  BY <1>13 DEF Stops, Closes
<1>4. CASE Preflighted \/ AdapterLoaded \/ ProbeWired
  BY <1>4 DEF Preflighted, AdapterLoaded, ProbeWired, Fatal, Ends
<1>5. CASE RelaySkipped \/ RelayFetched \/ RelayUnpacks \/ RelayAcks
  BY <1>5 DEF RelaySkipped, RelayFetched, RelayUnpacks, RelayAcks
<1>6. CASE PluginsInstalled \/ WakePlanned
  BY <1>6 DEF PluginsInstalled, WakePlanned
<1>7. CASE KernelInstalled \/ ConfigLoaded \/ SetupDone
  BY <1>7 DEF KernelInstalled, ConfigLoaded, SetupDone
<1>8. CASE Registers
  BY <1>8 DEF Registers, RegisterAnswered, RegisterRefused, RegisterLost
<1>9. CASE Reports \/ HeartbeatStarts \/ Greets
  BY <1>9 DEF Reports, HeartbeatStarts, Greets
<1>10. CASE WakeScheduled \/ NoteProceeds
  BY <1>10 DEF WakeScheduled, NoteProceeds
<1>11. CASE Binds \/ GreetingSent \/ PollerStarts
  BY <1>11 DEF Binds, GreetingSent, PollerStarts
<1>12. CASE MessageStaged \/ MessagePolled \/ MessagePosted \/ StateWritten
  BY <1>12 DEF MessageStaged, MessagePolled, MessagePosted, StateWritten
<1>. QED
  BY <1>1, <1>2, <1>3, <1>4, <1>5, <1>6, <1>7, <1>8, <1>9, <1>10, <1>11, <1>12, <1>13 DEF BootNext

\* What is owed to the user stays in the record, or in the plan of the boot.
LEMMA DueIsPlannedStep ==
  ASSUME InOrder, BootTypeOK, DueIsPlanned, NeverSilent, BootNext
  PROVE  DueIsPlanned' /\ NeverSilent' /\ WakeTypeOK'
<1> DEFINE Told == DueIsPlanned' /\ NeverSilent' /\ WakeTypeOK'
<1> USE WakeAssumption DEF DueIsPlanned, NeverSilent, WakeTypeOK, BootTypeOK, Record, NoRecord,
                           Known, Plan, NoPlan, Late
<1>1. ASSUME phase = "install", phase' = "plan", NEW ps \in SUBSET Plugin, Tree(ps)
      PROVE  Told
  BY <1>1 DEF Tree
<1>2. ASSUME phase = "plan", phase' = "kernel", NEW current \in {tree, {}}, Prepare(current)
      PROVE  Told
  <2> DEFINE again == record.pending \cap current
             adds == (current \ record.known) \cup again
             tries == IF adds \subseteq again THEN record.tries ELSE 0
  <2>1. CASE record = NoRecord \/ adds = {}
    BY <1>2, <2>1 DEF Prepare
  <2>2. CASE record # NoRecord /\ adds # {} /\ tries >= MaxWake
    BY <1>2, <2>2 DEF Prepare
  <2>3. CASE record # NoRecord /\ adds # {} /\ ~(tries >= MaxWake)
    BY <1>2, <2>3 DEF Prepare
  <2>. QED
    BY <2>1, <2>2, <2>3
<1>3. CASE /\ phase = "plan" /\ phase' = "kernel"
           /\ PrepareUnsaved(tree) \/ PrepareForgetting(tree)
  BY <1>3 DEF PrepareUnsaved, PrepareForgetting
<1>4. ASSUME phase = "wake", phase' = "serve", NEW saved \in BOOLEAN, MarkAttempt(saved)
      PROVE  Told
  BY <1>4 DEF MarkAttempt
<1>5. ASSUME phase \in Late, phase' \in Late,
             \E awake \in BOOLEAN : Probe(awake)
      PROVE  Told
  BY <1>5 DEF Probe
<1>6. ASSUME phase \in Late, phase' \in Late,
             NEW told \in BOOLEAN, NEW ok \in BOOLEAN, Send(told, ok)
      PROVE  Told
  BY <1>6 DEF Send
<1>7. ASSUME phase \in Late, phase' \in Late, NEW saved \in BOOLEAN, Consume(saved)
      PROVE  Told
  BY <1>7 DEF Consume
<1>10. ASSUME phase \in Late, phase' \in Late, NEW told \in BOOLEAN, Cancel(told)
       PROVE  Told
  BY <1>10 DEF Cancel
<1>8. CASE phase' \in {"down", "relay"} /\ WakeLeft
  BY <1>8 DEF WakeLeft
<1>9. CASE /\ UNCHANGED wake /\ (phase \in Late => phase' \in Late)
           /\ phase' \in {"down", "relay", "unpack", "ack", "install", "plan"} =>
                 phase \in {"down", "relay", "unpack", "ack", "install", "plan"}
  BY <1>9 DEF wake
<1>. QED
  BY WakeSteps, <1>1, <1>2, <1>3, <1>4, <1>5, <1>6, <1>7, <1>8, <1>9, <1>10

\* What a step of a boot does to the first prompt and its markers.
LEMMA PromptSteps ==
  ASSUME InOrder, BootTypeOK, BootNext
  PROVE  \/ Starts
         \/ Greets
         \/ GreetingSent
         \/ /\ phase' \in {"down", "stopping"} /\ greeting' \in {"none", greeting} \ {"waiting"}
            /\ UNCHANGED <<boots, delivered, markers, greeted, unmarked, places>>
         \/ /\ UNCHANGED <<boots, prompt>>
            /\ phase' \notin {"down", "wake"} \cup Late => phase \notin {"down", "wake"} \cup Late
<1> USE DEF Early, Late, Up, At, Goto, Phase, prompt, process
<1>2. CASE PrepareEnds \/ PrepareDone
  BY <1>2 DEF PrepareEnds, PrepareDone, Prepared, InOrder
<1>3. CASE Killed \/ Exits \/ RelayFails \/ RelayRejects \/ SetupAborts
  BY <1>3 DEF Killed, Exits, RelayFails, RelayRejects, SetupAborts, Fatal, Ends
<1>13. CASE Stops \/ Closes
  BY <1>13 DEF Stops, Closes
<1>4. CASE Preflighted \/ AdapterLoaded \/ ProbeWired
  BY <1>4 DEF Preflighted, AdapterLoaded, ProbeWired, Fatal, Ends
<1>5. CASE RelaySkipped \/ RelayFetched \/ RelayUnpacks \/ RelayAcks
  BY <1>5 DEF RelaySkipped, RelayFetched, RelayUnpacks, RelayAcks
<1>7. CASE PluginsInstalled \/ WakePlanned \/ KernelInstalled \/ ConfigLoaded \/ SetupDone
  BY <1>7 DEF PluginsInstalled, WakePlanned, KernelInstalled, ConfigLoaded, SetupDone
<1>8. CASE Registers
  BY <1>8 DEF Registers, RegisterAnswered, RegisterRefused, RegisterLost
<1>9. CASE Reports \/ HeartbeatStarts
  BY <1>9 DEF Reports, HeartbeatStarts
<1>10. CASE WakeScheduled \/ Binds \/ NoteProceeds \/ PollerStarts
  BY <1>10 DEF WakeScheduled, Binds, NoteProceeds, PollerStarts
<1>11. CASE MessageStaged \/ MessagePolled \/ MessagePosted \/ StateWritten
  BY <1>11 DEF MessageStaged, MessagePolled, MessagePosted, StateWritten, InOrder
<1>. QED
  BY <1>2, <1>3, <1>4, <1>5, <1>7, <1>8, <1>9, <1>10, <1>11, <1>13 DEF BootNext

\* There are three places, so their sets can be counted.
LEMMA PlacesCount ==
  ASSUME NEW S \in SUBSET Place
  PROVE  /\ Cardinality(S) \in Nat
         /\ \A p \in Place \ S : Cardinality(S \cup {p}) = Cardinality(S) + 1
<1>1. IsFiniteSet({"configs"})
  BY FS_Singleton
<1>2. IsFiniteSet({"configs"} \cup {"image"})
  BY <1>1, FS_AddElement
<1>3. IsFiniteSet(({"configs"} \cup {"image"}) \cup {"workspace"})
  BY <1>2, FS_AddElement
<1>4. IsFiniteSet(S)
  BY <1>3, FS_Subset, S \subseteq ({"configs"} \cup {"image"}) \cup {"workspace"} DEF Place
<1>. QED
  BY <1>4, FS_CardinalityType, FS_AddElement

\* A prompt that was sent keeps its marker.
LEMMA GreetingStep ==
  ASSUME InOrder, BootTypeOK, GreetingIsMarked, BootNext
  PROVE  GreetingIsMarked' /\ greeted' \in 0..MaxBoots /\ boots' \in 0..MaxBoots
<1>0. Cardinality(places) \in Nat
  BY PlacesCount DEF BootTypeOK
<1> USE <1>0, BootAssumption DEF GreetingIsMarked, Pending, BootTypeOK, At, Goto, Phase, InOrder, Early, Late
<1>1. CASE Starts
  BY <1>1 DEF Starts, Environment
<1>3. CASE Greets
  <2>1. PICK place \in MarkerPlaces :
           IF ready /\ place \notin markers
           THEN /\ greeting' = "waiting" /\ places' = places \cup {place}
                /\ \/ markers' = markers \cup {place} /\ UNCHANGED unmarked
                   \/ May("prompt") /\ unmarked' = TRUE /\ UNCHANGED markers
           ELSE UNCHANGED <<greeting, markers, unmarked, places>>
    BY <1>3 DEF Greets
  <2>2. /\ phase = "prompt" /\ phase' = "wake" /\ greeting = "none" /\ greeted < boots
        /\ UNCHANGED <<boots, greeted>>
    BY <1>3 DEF Greets, process
  <2>3. place \in Place
    BY DEF MarkerPlaces, ConfigBase, Place
  <2>4. CASE ready /\ place \notin markers
    <3>1. Pending = 0 /\ Pending' = 1
      BY <2>1, <2>2, <2>4
    <3>2. place \notin places => Cardinality(places') = Cardinality(places) + 1
      BY <2>1, <2>3, <2>4, PlacesCount
    <3>. QED
      BY <2>1, <2>2, <2>4, <3>1, <3>2
  <2>5. CASE ~(ready /\ place \notin markers)
    BY <2>1, <2>2, <2>5
  <2>. QED
    BY <2>4, <2>5
<1>4. CASE GreetingSent
  BY <1>4 DEF GreetingSent, process, Up
<1>5. CASE /\ phase' \in {"down", "stopping"} /\ greeting' \in {"none", greeting} \ {"waiting"}
           /\ UNCHANGED <<boots, delivered, markers, greeted, unmarked, places>>
  BY <1>5
<1>6. CASE /\ UNCHANGED <<boots, prompt>>
           /\ phase' \notin {"down", "wake"} \cup Late => phase \notin {"down", "wake"} \cup Late
  BY <1>6 DEF prompt
<1>. QED
  BY PromptSteps, <1>1, <1>3, <1>4, <1>5, <1>6

\* What a step of a boot does to the registration.
LEMMA NetSteps ==
  ASSUME BootNext
  PROVE  \/ Registers \/ Reports
         \/ /\ phase' = "down" /\ attempt' = 0 /\ registered' = FALSE /\ report' = "unsent"
            /\ \/ UNCHANGED <<minted, token, lost>>
               \/ minted' = TRUE /\ token' = "torn" /\ lost' = TRUE
         \/ UNCHANGED net
<1> USE DEF At, Goto, net, process
<1>1. CASE Starts \/ PrepareEnds \/ PrepareDone
  BY <1>1 DEF Starts, PrepareEnds, PrepareDone, Prepared
<1>2. CASE Killed \/ Exits
  BY <1>2 DEF Killed, Exits, Fatal, Ends
<1>13. CASE Stops \/ Closes
  BY <1>13 DEF Stops, Closes
<1>3. CASE RelayFails \/ RelayRejects \/ SetupAborts
  BY <1>3 DEF RelayFails, RelayRejects, SetupAborts, Fatal, Ends
<1>4. CASE Preflighted \/ AdapterLoaded \/ ProbeWired
  BY <1>4 DEF Preflighted, AdapterLoaded, ProbeWired, Fatal, Ends
<1>5. CASE RelaySkipped \/ RelayFetched \/ RelayUnpacks \/ RelayAcks
  BY <1>5 DEF RelaySkipped, RelayFetched, RelayUnpacks, RelayAcks
<1>6. CASE PluginsInstalled \/ WakePlanned \/ KernelInstalled
  BY <1>6 DEF PluginsInstalled, WakePlanned, KernelInstalled
<1>7. CASE ConfigLoaded \/ SetupDone
  BY <1>7 DEF ConfigLoaded, SetupDone
<1>9. CASE HeartbeatStarts \/ Greets \/ GreetingSent
  BY <1>9 DEF HeartbeatStarts, Greets, GreetingSent
<1>10. CASE WakeScheduled \/ Binds \/ PollerStarts
  BY <1>10 DEF WakeScheduled, Binds, PollerStarts
<1>11. CASE NoteProceeds \/ StateWritten
  BY <1>11 DEF NoteProceeds, StateWritten
<1>12. CASE MessageStaged \/ MessagePolled \/ MessagePosted
  BY <1>12 DEF MessageStaged, MessagePolled, MessagePosted
<1>. QED
  BY <1>1, <1>2, <1>3, <1>4, <1>5, <1>6, <1>7, <1>9, <1>10, <1>11, <1>12, <1>13 DEF BootNext

\* The token that was issued is held, or was lost.
LEMMA TokenStep ==
  ASSUME InOrder, BootTypeOK, TokenHasCause, ReportIsAuthorized, BootNext
  PROVE  TokenHasCause' /\ ReportIsAuthorized'
<1> USE DEF TokenHasCause, ReportIsAuthorized, InOrder, Early, Late, At, Goto, net
<1>1. CASE Registers
  <2>1. ASSUME NEW saved \in BOOLEAN, RegisterAnswered(saved)
        PROVE  TokenHasCause' /\ ReportIsAuthorized'
    BY <1>1, <2>1 DEF Registers, RegisterAnswered, BootTypeOK
  <2>2. ASSUME NEW reached \in BOOLEAN, RegisterLost(reached)
        PROVE  TokenHasCause' /\ ReportIsAuthorized'
    BY <1>1, <2>2 DEF Registers, RegisterLost, BootTypeOK
  <2>3. CASE RegisterRefused
    BY <1>1, <2>3 DEF RegisterRefused
  <2>. QED
    BY <1>1, <2>1, <2>2, <2>3 DEF Registers
<1>2. CASE Reports
  BY <1>2 DEF Reports
<1>3. CASE /\ phase' = "down" /\ attempt' = 0 /\ registered' = FALSE /\ report' = "unsent"
           /\ \/ UNCHANGED <<minted, token, lost>>
              \/ minted' = TRUE /\ token' = "torn" /\ lost' = TRUE
  BY <1>3
<1>4. CASE UNCHANGED net
  BY <1>4
<1>. QED
  BY NetSteps, <1>1, <1>2, <1>3, <1>4

NetTypeOK ==
    /\ attempt \in 0..MaxAttempts /\ registered \in BOOLEAN /\ minted \in BOOLEAN
    /\ token \in {"none", "held", "torn"} /\ report \in {"unsent", "bare", "authorized"}
    /\ lost \in BOOLEAN

\* The types of the registration.
LEMMA NetTypeStep ==
  ASSUME InOrder, BootTypeOK, BootNext
  PROVE  NetTypeOK'
<1>0. NetTypeOK
  BY DEF NetTypeOK, BootTypeOK
<1> USE <1>0, BootBounds DEF NetTypeOK, InOrder, Late, At, Goto, net
<1>1. CASE Registers
  <2>1. ASSUME NEW saved \in BOOLEAN, RegisterAnswered(saved)
        PROVE  NetTypeOK'
    BY <1>1, <2>1 DEF Registers, RegisterAnswered
  <2>2. ASSUME NEW reached \in BOOLEAN, RegisterLost(reached)
        PROVE  NetTypeOK'
    BY <1>1, <2>2 DEF Registers, RegisterLost
  <2>3. CASE RegisterRefused
    BY <1>1, <2>3 DEF RegisterRefused
  <2>. QED
    BY <1>1, <2>1, <2>2, <2>3 DEF Registers
<1>2. CASE Reports
  BY <1>2 DEF Reports
<1>3. CASE /\ phase' = "down" /\ attempt' = 0 /\ registered' = FALSE /\ report' = "unsent"
           /\ \/ UNCHANGED <<minted, token, lost>>
              \/ minted' = TRUE /\ token' = "torn" /\ lost' = TRUE
  <2>1. minted' \in BOOLEAN /\ token' \in {"none", "held", "torn"} /\ lost' \in BOOLEAN
    BY <1>3
  <2>. QED
    BY <1>3, <2>1
<1>4. CASE UNCHANGED net
  BY <1>4
<1>. QED
  BY NetSteps, <1>1, <1>2, <1>3, <1>4

\* What a step of a boot does to the listener and its poller.
LEMMA PollSteps ==
  ASSUME InOrder, BootNext
  PROVE  \/ WakeScheduled \/ Binds \/ PollerStarts
         \/ MessageStaged \/ MessagePolled \/ MessagePosted
         \/ Closes
         \/ phase' = "down" /\ bound' = FALSE /\ poller' = "none" /\ message' = "none" /\ slow' = FALSE
         \/ UNCHANGED poll /\ (phase \in {"closing", "stopping"} => phase' \in {"closing", "stopping"})
<1> USE DEF At, Goto, poll, process, Late, Up
<1>1. CASE Starts \/ PrepareEnds \/ PrepareDone
  BY <1>1 DEF Starts, PrepareEnds, PrepareDone, Prepared, InOrder, Early
<1>2. CASE Killed \/ Exits
  BY <1>2 DEF Killed, Exits, Fatal, Ends
<1>13. CASE Stops \/ Closes
  BY <1>13 DEF Stops, Closes
<1>3. CASE RelayFails \/ RelayRejects \/ SetupAborts
  BY <1>3 DEF RelayFails, RelayRejects, SetupAborts, Fatal, Ends
<1>4. CASE Preflighted \/ AdapterLoaded \/ ProbeWired
  BY <1>4 DEF Preflighted, AdapterLoaded, ProbeWired, Fatal, Ends
<1>5. CASE RelaySkipped \/ RelayFetched \/ RelayUnpacks \/ RelayAcks
  BY <1>5 DEF RelaySkipped, RelayFetched, RelayUnpacks, RelayAcks
<1>6. CASE PluginsInstalled \/ WakePlanned \/ KernelInstalled
  BY <1>6 DEF PluginsInstalled, WakePlanned, KernelInstalled
<1>7. CASE ConfigLoaded \/ SetupDone
  BY <1>7 DEF ConfigLoaded, SetupDone
<1>8. CASE Registers \/ Reports
  BY <1>8 DEF Registers, Reports
<1>9. CASE HeartbeatStarts \/ Greets \/ GreetingSent
  BY <1>9 DEF HeartbeatStarts, Greets, GreetingSent
<1>11. CASE NoteProceeds \/ StateWritten
  BY <1>11 DEF NoteProceeds, StateWritten
<1>. QED
  BY <1>1, <1>2, <1>3, <1>4, <1>5, <1>6, <1>7, <1>8, <1>9, <1>11, <1>13 DEF BootNext

PollTypeOK ==
    /\ bound \in BOOLEAN /\ poller \in {"none", "waiting", "on"} /\ slow \in BOOLEAN
    /\ message \in {"none", "staged", "posting", "taken", "dropped"}

\* A message is dropped only where the listener was slow.
LEMMA PollerStep ==
  ASSUME InOrder, BootTypeOK, PollerHasCause, DropHasCause, BootNext
  PROVE  PollerHasCause' /\ DropHasCause' /\ PollTypeOK'
<1>0. PollTypeOK
  BY DEF PollTypeOK, BootTypeOK
<1> USE <1>0 DEF PollTypeOK, PollerHasCause, DropHasCause, InOrder, Late, Up, At, Goto, poll
<1>1. CASE WakeScheduled
  BY <1>1 DEF WakeScheduled
<1>2. CASE Binds \/ PollerStarts
  BY <1>2 DEF Binds, PollerStarts
<1>3. CASE MessageStaged \/ MessagePolled \/ MessagePosted
  BY <1>3 DEF MessageStaged, MessagePolled, MessagePosted, Listening
<1>6. CASE Closes
  BY <1>6 DEF Closes
<1>4. CASE phase' = "down" /\ bound' = FALSE /\ poller' = "none" /\ message' = "none" /\ slow' = FALSE
  BY <1>4
<1>5. CASE UNCHANGED poll /\ (phase \in {"closing", "stopping"} => phase' \in {"closing", "stopping"})
  BY <1>5
<1>. QED
  BY PollSteps, <1>1, <1>2, <1>3, <1>4, <1>5, <1>6

PromptTypeOK ==
    /\ delivered \in BOOLEAN /\ unmarked \in BOOLEAN
    /\ markers \in SUBSET Place /\ places \in SUBSET Place
    /\ greeting \in {"none", "waiting", "sending", "over"}

\* The types of the prompt.
LEMMA PromptTypeStep ==
  ASSUME InOrder, BootTypeOK, BootNext
  PROVE  PromptTypeOK'
<1>0. PromptTypeOK
  BY DEF PromptTypeOK, BootTypeOK
<1> USE <1>0 DEF PromptTypeOK, At, Goto
<1>1. CASE Starts
  BY <1>1 DEF Starts, Environment
<1>3. CASE Greets
  <2>1. MarkerPlaces \subseteq Place
    BY DEF MarkerPlaces, ConfigBase, Place
  <2>2. UNCHANGED delivered
    BY <1>3 DEF Greets
  <2>3. unmarked' \in BOOLEAN /\ greeting' \in {"none", "waiting", "sending", "over"}
    BY <1>3 DEF Greets
  <2>4. \E place \in MarkerPlaces : /\ markers' = markers \/ markers' = markers \cup {place}
                                    /\ places' = places \/ places' = places \cup {place}
    BY <1>3 DEF Greets
  <2>. QED
    BY <2>1, <2>2, <2>3, <2>4
<1>4. CASE GreetingSent
  BY <1>4 DEF GreetingSent
<1>5. CASE /\ phase' \in {"down", "stopping"} /\ greeting' \in {"none", greeting} \ {"waiting"}
           /\ UNCHANGED <<boots, delivered, markers, greeted, unmarked, places>>
  BY <1>5
<1>6. CASE UNCHANGED prompt
  BY <1>6 DEF prompt
<1>. QED
  BY PromptSteps, <1>1, <1>3, <1>4, <1>5, <1>6

ProcessTypeOK ==
    trouble \in Troubles /\ phase \in Phase /\ preparing \in BOOLEAN /\ ready \in BOOLEAN

\* The types of the process.
LEMMA ProcessTypeStep ==
  ASSUME BootTypeOK, BootNext
  PROVE  ProcessTypeOK'
<1>0. ProcessTypeOK
  BY DEF ProcessTypeOK, BootTypeOK
<1> USE <1>0 DEF ProcessTypeOK, At, Goto, Phase, process
<1>1. CASE Starts \/ PrepareEnds \/ PrepareDone
  BY <1>1 DEF Starts, PrepareEnds, PrepareDone, Prepared
<1>2. CASE Killed \/ Exits
  BY <1>2 DEF Killed, Exits, Fatal, Ends
<1>13. CASE Stops \/ Closes
  BY <1>13 DEF Stops, Closes
<1>3. CASE RelayFails \/ RelayRejects \/ SetupAborts
  BY <1>3 DEF RelayFails, RelayRejects, SetupAborts, Fatal, Ends
<1>4. CASE Preflighted \/ AdapterLoaded \/ ProbeWired
  BY <1>4 DEF Preflighted, AdapterLoaded, ProbeWired, Fatal, Ends
<1>5. CASE RelaySkipped \/ RelayFetched \/ RelayUnpacks \/ RelayAcks
  BY <1>5 DEF RelaySkipped, RelayFetched, RelayUnpacks, RelayAcks
<1>6. CASE PluginsInstalled \/ WakePlanned \/ KernelInstalled
  BY <1>6 DEF PluginsInstalled, WakePlanned, KernelInstalled
<1>7. CASE ConfigLoaded \/ SetupDone
  BY <1>7 DEF ConfigLoaded, SetupDone
<1>8. CASE Registers \/ Reports
  BY <1>8 DEF Registers, Reports, RegisterAnswered, RegisterRefused, RegisterLost
<1>9. CASE HeartbeatStarts \/ Greets \/ GreetingSent
  BY <1>9 DEF HeartbeatStarts, Greets, GreetingSent
<1>10. CASE WakeScheduled \/ Binds \/ PollerStarts
  BY <1>10 DEF WakeScheduled, Binds, PollerStarts
<1>11. CASE NoteProceeds \/ StateWritten
  BY <1>11 DEF NoteProceeds, StateWritten
<1>12. CASE MessageStaged \/ MessagePolled \/ MessagePosted
  BY <1>12 DEF MessageStaged, MessagePolled, MessagePosted
<1>. QED
  BY <1>1, <1>2, <1>3, <1>4, <1>5, <1>6, <1>7, <1>8, <1>9, <1>10, <1>11, <1>12, <1>13 DEF BootNext

\* The invariant of the life of the process holds at the start ...
LEMMA BootInvInit == BootInit => BootInv
<1> SUFFICES ASSUME BootInit PROVE BootInv
  OBVIOUS
<1> USE DEF BootInit
<1>1. RelayTypeOK
  BY DEF RelayInit, RelayTypeOK
<1>8. MailboxTypeOK
  <2>1. 0 \in 0..MaxWrites
    BY MailboxAssumption
  <2>2. legacy \in 0..MaxWrites /\ last \in {"none", "legacy", "base"}
    BY DEF MailboxInit
  <2>. QED
    BY <2>1, <2>2 DEF MailboxInit, MailboxTypeOK
<1>9. WakeTypeOK
  BY WakeAssumption DEF WakeInit, WakeTypeOK, Record, NoRecord, Plan, NoPlan
<1>2. BootTypeOK
  <2>1. ProcessTypeOK /\ boots \in 0..MaxBoots
    BY BootBounds DEF ProcessTypeOK, Phase
  <2>2. NetTypeOK
    BY BootBounds DEF NetTypeOK
  <2>3. PollTypeOK
    BY DEF PollTypeOK
  <2>4. PromptTypeOK /\ greeted \in 0..MaxBoots
    BY BootBounds DEF PromptTypeOK
  <2>. QED
    BY <1>1, <1>8, <1>9, <2>1, <2>2, <2>3, <2>4
       DEF BootTypeOK, ProcessTypeOK, NetTypeOK, PollTypeOK, PromptTypeOK
<1>3. InOrder /\ PollerHasCause /\ DropHasCause /\ TokenHasCause /\ ReportIsAuthorized
  BY DEF InOrder, Early, Late, PollerHasCause, DropHasCause, TokenHasCause, ReportIsAuthorized
<1>4. RelayVouches /\ WholeConfig
  BY DEF RelayInit, RelayVouches, WholeConfig
<1>5. CopyHasCause /\ LatestIsServed
  BY DEF MailboxInit, CopyHasCause, LatestIsServed, At
<1>6. DueIsPlanned /\ NeverSilent
  BY DEF WakeInit, DueIsPlanned, NeverSilent, NoRecord, NoPlan
<1>7. GreetingIsMarked /\ PromptOnce
  BY PlacesCount, <1>2 DEF GreetingIsMarked, Late, Pending, PromptOnce, BootTypeOK
<1>. QED
  BY <1>2, <1>3, <1>4, <1>5, <1>6, <1>7 DEF BootInv

\* ... and every step of it keeps it.
LEMMA BootInvStep == BootInv /\ BootNext => BootInv'
<1> SUFFICES ASSUME BootInv, BootNext PROVE BootInv'
  OBVIOUS
<1> USE DEF BootInv
<1>1. InOrder'
  BY OrderStep
<1>2. RelayVouches' /\ WholeConfig' /\ RelayTypeOK'
  BY RelayVouchesStep
<1>3. CopyHasCause' /\ LatestIsServed' /\ MailboxTypeOK'
  BY CopyHasCauseStep
<1>4. DueIsPlanned' /\ NeverSilent' /\ WakeTypeOK'
  BY DueIsPlannedStep
<1>5. GreetingIsMarked' /\ greeted' \in 0..MaxBoots /\ boots' \in 0..MaxBoots
  BY GreetingStep
<1>8. TokenHasCause' /\ ReportIsAuthorized'
  BY TokenStep
<1>9. PollerHasCause' /\ DropHasCause' /\ PollTypeOK'
  BY PollerStep
<1>6. BootTypeOK'
  BY <1>2, <1>3, <1>4, <1>5, <1>9, ProcessTypeStep, NetTypeStep, PromptTypeStep
     DEF ProcessTypeOK, NetTypeOK, PromptTypeOK, PollTypeOK, BootTypeOK
<1>7. PromptOnce'
  <2>1. Pending' \in Nat
    BY DEF Pending
  <2>2. greeted' \in Nat /\ places' \in SUBSET Place
    BY <1>5, <1>6, BootBounds DEF BootTypeOK
  <2>3. Cardinality(places') \in Nat
    BY <2>2, PlacesCount
  <2>. QED
    BY <1>5, <2>1, <2>2, <2>3 DEF GreetingIsMarked, PromptOnce
<1>. QED
  BY <1>1, <1>2, <1>3, <1>4, <1>5, <1>6, <1>7, <1>8, <1>9

(***************************************************************************)
(* The plugin trees.                                                       *)
(***************************************************************************)

Passing == {"fetch", "compare", "swap", "moved"}

\* While a pass runs the live tree is as it found it, and it promises nothing.
PassKeeps ==
    /\ stage \in Passing => kept = live /\ ~swapped
    /\ stage = "down" => ~swapped /\ ~clean

\* The staging tree holds what the pass has fetched and what it carried over.
StagingIsFetched ==
    /\ stage \in Passing => \A n \in Installed : staging[n].kind = "rev"
    /\ stage = "fetch" => /\ failures \cap unfetched = {}
                          /\ \A n \in Name \ Installed : staging[n] = NoTree
    /\ stage \in {"compare", "swap", "moved"} =>
          /\ unfetched = {}
          /\ failures = {} => \A n \in Name \ declared : staging[n] = NoTree
          /\ failures # {} => Dirs(live) \subseteq Dirs(staging)

StagingIsWhole ==
    \A n \in Name : /\ staging[n] \in {TornTree, SharedTree} => n \in Shared
                    /\ \A r \in Revision : <<n, r>> \in Bad => staging[n] # AtRevision(r)

\* The shared directory fills only its own names.
DropsAreShared ==
    \A n \in Name : live[n] = SharedTree => n \in Shared

\* A marker that could be written names everything fetched, and only what is
\* live; after a pass that promoted every source it names only the declared,
\* and nothing else that is live was fetched.
MarkerIsTrue ==
    promoted.known => /\ \A n \in Name : live[n].kind = "rev" => n \in promoted.names
                      /\ promoted.names \subseteq Dirs(live)

MarkerIsDeclared ==
    /\ (stage \in Passing /\ clean) \/ (stage = "drop" /\ swapped /\ failures = {}) =>
          (promoted.known => promoted.names \subseteq declared)
    /\ stage \in Passing /\ clean => \A n \in Name \ declared : live[n].kind # "rev"

InstallInv ==
    /\ InstallTypeOK
    /\ PassKeeps /\ StagingIsFetched /\ StagingIsWhole /\ MarkerIsTrue /\ MarkerIsDeclared
    /\ KeepsInstalled /\ OnlyWholeTrees /\ DropsAreShared /\ DeDeclaredGoes

\* The kinds of tree are different, and a revision is known by its number.
LEMMA TreeFacts ==
  /\ NoTree \in TreeContent /\ SharedTree \in TreeContent /\ TornTree \in TreeContent
  /\ NoTree.kind # "rev" /\ SharedTree.kind # "rev" /\ TornTree.kind # "rev"
  /\ SharedTree # NoTree /\ TornTree # NoTree /\ SharedTree # TornTree
  /\ \A r \in Revision : /\ AtRevision(r) \in TreeContent /\ AtRevision(r).kind = "rev"
                         /\ AtRevision(r) # NoTree /\ AtRevision(r) # TornTree
                         /\ AtRevision(r) # SharedTree
  /\ \A r, s \in Revision : AtRevision(r) = AtRevision(s) => r = s
  /\ Empty \in [Name -> TreeContent]
BY DEF TreeContent, NoTree, SharedTree, TornTree, AtRevision, Empty

\* What a marker says.
LEMMA MarkerFacts ==
  /\ NoMarker \in Marker /\ ~NoMarker.known
  /\ \A S \in SUBSET Name : Marked(S) \in Marker /\ Marked(S).known /\ Marked(S).names = S
BY DEF Marker, NoMarker, Marked

\* The parts of the invariant a step changes nothing of.
LEMMA SameTrees ==
  ASSUME InstallInv, UNCHANGED <<signal, declared, twice, live, promoted, stage, pass, unfetched, failures,
                                 staging, swapped, spawned, kept, clean>>,
         up' \in [Name -> Revision], pyc' \in SUBSET Name
  PROVE  InstallInv'
BY DEF InstallInv, InstallTypeOK, PassKeeps, StagingIsFetched, StagingIsWhole, MarkerIsTrue,
       MarkerIsDeclared, KeepsInstalled, OnlyWholeTrees, DropsAreShared, DeDeclaredGoes, Installed, Dirs

\* A pass begins, in a boot or in the serving process.
LEMMA StartStep ==
  ASSUME InstallInv, NEW asked \in BOOLEAN, NEW D \in SUBSET Name, NEW collide \in BOOLEAN,
         NEW room \in BOOLEAN, Start(asked, D, collide, room),
         UNCHANGED <<up, live, promoted, pyc>>, pass' \in {1, 2},
         spawned' \in {"none", "current", "orphaned"}, clean' \in BOOLEAN,
         clean' => /\ promoted.known => promoted.names \subseteq D
                   /\ \A n \in Name \ D : live[n].kind # "rev"
  PROVE  InstallInv'
<1> USE TreeFacts DEF InstallInv, Start
<1>1. InstallTypeOK'
  BY DEF InstallTypeOK
<1>2. PassKeeps'
  BY DEF PassKeeps, Passing
<1>3. StagingIsFetched'
  BY DEF StagingIsFetched, Installed, Empty, Passing
<1>4. StagingIsWhole'
  BY DEF StagingIsWhole, Empty
<1>5. MarkerIsTrue' /\ MarkerIsDeclared'
  BY DEF MarkerIsTrue, MarkerIsDeclared, Dirs, Passing
<1>6. KeepsInstalled' /\ OnlyWholeTrees' /\ DropsAreShared' /\ DeDeclaredGoes'
  BY DEF KeepsInstalled, OnlyWholeTrees, DropsAreShared, DeDeclaredGoes
<1>. QED
  BY <1>1, <1>2, <1>3, <1>4, <1>5, <1>6

\* A boot begins with the pass of its prepare step, or without it.
LEMMA BootBeginsStep == InstallInv /\ BootBegins => InstallInv'
<1> SUFFICES ASSUME InstallInv, BootBegins PROVE InstallInv'
  OBVIOUS
<1>1. PICK D \in SUBSET Name, asked, collide, room \in BOOLEAN : Start(asked, D, collide, room)
  BY DEF BootBegins
<1>2. ~clean' /\ clean' \in BOOLEAN /\ spawned' \in {"none", "current", "orphaned"}
  BY DEF BootBegins, InstallInv, PassKeeps, InstallTypeOK
<1>. QED
  BY <1>1, <1>2, StartStep DEF BootBegins

\* The serving process begins its own pass.
LEMMA ServeStep == InstallInv /\ Serve => InstallInv'
<1> SUFFICES ASSUME InstallInv, Serve PROVE InstallInv'
  OBVIOUS
<1>1. declared \in SUBSET Name /\ twice \in BOOLEAN /\ signal \in BOOLEAN
  BY DEF InstallInv, InstallTypeOK
<1>2. clean' => /\ promoted.known => promoted.names \subseteq declared
                /\ \A n \in Name \ declared : live[n].kind # "rev"
  BY DEF Serve, InstallInv, MarkerIsDeclared, DeDeclaredGoes
<1>3. clean' \in BOOLEAN
  BY DEF Serve, InstallInv, InstallTypeOK
<1>4. PICK room \in BOOLEAN : Start(signal, declared, twice, room)
  BY DEF Serve
<1>. QED
  BY <1>1, <1>2, <1>3, <1>4, StartStep DEF Serve

\* A source is staged whole, or is one of the failures.
LEMMA FetchStep ==
  ASSUME InstallInv, NEW n \in Name, NEW direct \in BOOLEAN, NEW clone \in BOOLEAN,
         NEW subpath \in BOOLEAN, NEW copied \in BOOLEAN,
         FetchSource(n, direct, clone, subpath, copied)
  PROVE  InstallInv'
<1> DEFINE accepted == /\ Fetched(n, direct, clone, subpath)
                       /\ copied
                       /\ <<n, up[n]>> \notin Bad
<1>0. /\ stage = "fetch" /\ n \in unfetched
      /\ unfetched' = unfetched \ {n}
      /\ failures' = IF accepted THEN failures ELSE failures \cup {n}
      /\ staging' = [staging EXCEPT ![n] = IF accepted THEN AtRevision(up[n]) ELSE NoTree]
      /\ UNCHANGED <<up, signal, declared, twice, live, promoted, pyc, stage, pass, swapped, spawned, kept, clean>>
  BY DEF FetchSource, boot, history
<1>1. up[n] \in Revision /\ n \in declared /\ unfetched \in SUBSET declared
  BY <1>0 DEF InstallInv, InstallTypeOK
<1>2. staging'[n] = (IF accepted THEN AtRevision(up[n]) ELSE NoTree)
      /\ \A m \in Name : m # n => staging'[m] = staging[m]
  BY <1>0 DEF InstallInv, InstallTypeOK
<1>3. accepted => <<n, up[n]>> \notin Bad
  OBVIOUS
<1> HIDE DEF accepted
<1>4. InstallTypeOK'
  BY <1>0, <1>1, TreeFacts DEF InstallInv, InstallTypeOK
<1>5. PassKeeps'
  BY <1>0 DEF InstallInv, PassKeeps
<1>6. StagingIsFetched'
  <2>1. Installed' = IF accepted THEN Installed \cup {n} ELSE Installed
    BY <1>0, <1>1 DEF InstallInv, StagingIsFetched, Installed
  <2>2. stage' = "fetch" /\ failures' \cap unfetched' = {}
    BY <1>0 DEF InstallInv, StagingIsFetched
  <2>3. \A m \in Installed' : staging'[m].kind = "rev"
    BY <1>0, <1>1, <1>2, <2>1, TreeFacts DEF InstallInv, StagingIsFetched, Passing, Installed, InstallTypeOK
  <2>4. n \notin Installed
    BY <1>0 DEF Installed
  <2>5. \A m \in Name \ Installed' : staging'[m] = NoTree
    BY <1>0, <1>2, <2>1, <2>4 DEF InstallInv, StagingIsFetched
  <2>. QED
    BY <2>2, <2>3, <2>5 DEF StagingIsFetched, Passing
<1>7. StagingIsWhole'
  BY <1>0, <1>1, <1>2, <1>3, TreeFacts DEF InstallInv, StagingIsWhole
<1>8. MarkerIsTrue' /\ MarkerIsDeclared'
  BY <1>0 DEF InstallInv, MarkerIsTrue, MarkerIsDeclared, Dirs, Passing
<1>9. KeepsInstalled' /\ OnlyWholeTrees' /\ DropsAreShared' /\ DeDeclaredGoes'
  BY <1>0 DEF InstallInv, KeepsInstalled, OnlyWholeTrees, DropsAreShared, DeDeclaredGoes
<1>. QED
  BY <1>4, <1>5, <1>6, <1>7, <1>8, <1>9 DEF InstallInv

\* A pass that ends without having promoted, and the end of the boot.
LEMMA DroppedStep ==
  ASSUME InstallInv, NothingStaged \/ CarryAborts \/ Settle
  PROVE  InstallInv'
<1>0. /\ UNCHANGED <<up, signal, declared, twice, live, promoted, pyc, pass, unfetched, failures, staging, swapped,
                     spawned, kept, clean>>
      /\ (stage = "fetch" /\ stage' = "drop") \/ (stage = "drop" /\ stage' = "idle")
  BY DEF NothingStaged, CarryAborts, Settle, boot, install, history
<1>1. stage = "fetch" => kept = live /\ ~swapped
  BY DEF InstallInv, PassKeeps, Passing
<1>2. InstallTypeOK' /\ PassKeeps' /\ StagingIsFetched' /\ StagingIsWhole'
  BY <1>0 DEF InstallInv, InstallTypeOK, PassKeeps, StagingIsFetched, StagingIsWhole, Passing
<1>3. MarkerIsTrue' /\ MarkerIsDeclared'
  BY <1>0, <1>1 DEF InstallInv, MarkerIsTrue, MarkerIsDeclared, Dirs, Passing
<1>4. KeepsInstalled' /\ OnlyWholeTrees' /\ DropsAreShared' /\ DeDeclaredGoes'
  BY <1>0, <1>1 DEF InstallInv, KeepsInstalled, OnlyWholeTrees, DropsAreShared, DeDeclaredGoes
<1>. QED
  BY <1>2, <1>3, <1>4 DEF InstallInv

\* Where a source failed, everything live comes along.
LEMMA CarryForwardStep == InstallInv /\ CarryForward => InstallInv'
<1> SUFFICES ASSUME InstallInv, CarryForward PROVE InstallInv'
  OBVIOUS
<1>0. /\ stage = "fetch" /\ unfetched = {} /\ stage' = "compare"
      /\ UNCHANGED <<up, signal, declared, twice, live, promoted, pyc, pass, unfetched, failures, swapped,
                     spawned, kept, clean>>
      /\ staging' = IF failures = {} THEN staging
                    ELSE [n \in Name |-> IF n \in Carried THEN live[n] ELSE staging[n]]
  BY DEF CarryForward, boot, history
<1>1. staging' \in [Name -> TreeContent]
  BY <1>0 DEF InstallInv, InstallTypeOK
<1>2. failures # {} => \A n \in Name : staging'[n] = IF n \in Carried THEN live[n] ELSE staging[n]
  BY <1>0
<1>3. Installed' = Installed /\ Installed \subseteq Dirs(staging) /\ Installed \subseteq Name
  BY <1>0, TreeFacts DEF Installed, InstallInv, StagingIsFetched, Dirs, Passing, InstallTypeOK
<1>4. \A n \in Installed : staging'[n] = staging[n]
  BY <1>0, <1>2, <1>3 DEF Carried
<1>5. StagingIsFetched'
  <2>1. \A n \in Installed' : staging'[n].kind = "rev"
    BY <1>0, <1>3, <1>4 DEF InstallInv, StagingIsFetched, Passing
  <2>2. failures = {} => \A n \in Name \ declared : staging'[n] = NoTree
    BY <1>0 DEF InstallInv, StagingIsFetched, Installed
  <2>3. failures # {} => Dirs(live) \subseteq Dirs(staging')
    BY <1>2 DEF Carried, Dirs
  <2>. QED
    BY <1>0, <1>3, <2>1, <2>2, <2>3 DEF StagingIsFetched, Dirs
<1>6. StagingIsWhole'
  BY <1>0, <1>2 DEF InstallInv, StagingIsWhole, OnlyWholeTrees, DropsAreShared
<1>7. InstallTypeOK' /\ PassKeeps'
  BY <1>0, <1>1 DEF InstallInv, InstallTypeOK, PassKeeps, Passing
<1>8. MarkerIsTrue' /\ MarkerIsDeclared'
  BY <1>0 DEF InstallInv, MarkerIsTrue, MarkerIsDeclared, Dirs, Passing
<1>9. KeepsInstalled' /\ OnlyWholeTrees' /\ DropsAreShared' /\ DeDeclaredGoes'
  BY <1>0 DEF InstallInv, KeepsInstalled, OnlyWholeTrees, DropsAreShared, DeDeclaredGoes
<1>. QED
  BY <1>5, <1>6, <1>7, <1>8, <1>9 DEF InstallInv

\* What is promoted covers every declared plugin that was live.
LEMMA Covered ==
  ASSUME InstallInv, stage \in {"compare", "swap", "moved"}
  PROVE  \A n \in declared : kept[n] # NoTree => staging[n] # NoTree
<1>1. kept = live
  BY DEF InstallInv, PassKeeps, Passing
<1>2. CASE failures = {}
  <2>1. declared = Installed
    BY <1>2 DEF InstallInv, StagingIsFetched, Installed
  <2>. QED
    BY <2>1, TreeFacts DEF InstallInv, StagingIsFetched, Passing
<1>3. CASE failures # {}
  BY <1>1, <1>3 DEF InstallInv, InstallTypeOK, StagingIsFetched, Dirs
<1>. QED
  BY <1>2, <1>3

\* Two trees that compare equal are the same tree ...
LEMMA SameIsEqual == ASSUME NEW n, Same(n) PROVE live[n] = staging[n]
BY DEF Same, DropBytecode, Content

\* The comparison sees the tree and not its bytecode.
LEMMA Dropped ==
  ASSUME NEW t, NEW b PROVE DropBytecode(Content(t, b)) = Content(t, FALSE)
<1>1. ASSUME NEW c
      PROVE  [[tree |-> t, bytecode |-> b] EXCEPT !.bytecode = c] = [tree |-> t, bytecode |-> c]
  OBVIOUS
<1>2. [[tree |-> t, bytecode |-> b] EXCEPT !.bytecode = FALSE] = [tree |-> t, bytecode |-> FALSE]
  BY <1>1, Zenon
<1>. QED
  BY <1>2, Zenon DEF DropBytecode, Content

\* ... and the same tree compares equal, bytecode or not.
LEMMA EqualIsSame == ASSUME NEW n, live[n] = staging[n] PROVE Same(n)
BY Dropped DEF Same

\* Where the comparison finds the trees equal, nothing fetched is beside the
\* declared set and the marker names nothing else.
LEMMA MatchFacts ==
  ASSUME InstallInv, stage = "compare", Matches
  PROVE  /\ \A n \in Installed : live[n] = staging[n]
         /\ failures = {} => /\ promoted.known => promoted.names \subseteq declared
                            /\ \A n \in Name \ declared : live[n].kind # "rev"
<1>1. \A n \in Installed : n \in Name /\ staging[n] # NoTree /\ staging[n].kind = "rev"
  BY TreeFacts DEF InstallInv, InstallTypeOK, StagingIsFetched, Installed, Passing
<1>2. \A n \in Installed : live[n] = staging[n]
  BY <1>1, SameIsEqual DEF Matches, Dirs
<1>3. failures = {} => Dirs(staging) \subseteq declared
  BY DEF InstallInv, StagingIsFetched, Dirs
<1>4. CASE promoted.known
  <2>1. promoted.names \cap (Dirs(live) \ Dirs(staging)) = {}
    BY <1>4 DEF Matches, DeDeclared, LiveOnly
  <2>2. promoted.names \subseteq Dirs(staging)
    BY <1>4, <2>1 DEF InstallInv, MarkerIsTrue
  <2>. QED
    BY <1>2, <1>3, <1>4, <2>2 DEF InstallInv, MarkerIsTrue
<1>5. CASE ~promoted.known
  <2>1. Dirs(live) \subseteq Dirs(staging)
    BY <1>5 DEF Matches, DeDeclared, LiveOnly
  <2>. QED
    BY <1>2, <1>3, <1>5, <2>1, TreeFacts DEF Dirs
<1>. QED
  BY <1>4, <1>5

\* The comparison ends the pass, or goes on to the swap.
LEMMA CompareStep ==
  ASSUME InstallInv, NEW readable \in BOOLEAN, Compare(readable)
  PROVE  InstallInv'
<1>0. /\ stage = "compare" /\ kept = live
      /\ UNCHANGED <<up, signal, declared, twice, live, promoted, pyc, pass, unfetched, failures, spawned, kept, clean>>
  BY DEF Compare, boot, history, InstallInv, PassKeeps, Passing
<1>1. CASE Matches /\ swapped' = TRUE /\ stage' = "drop" /\ staging' = Empty
  <2>1. InstallTypeOK' /\ PassKeeps' /\ StagingIsFetched'
    BY <1>0, <1>1, TreeFacts DEF InstallInv, InstallTypeOK, PassKeeps, StagingIsFetched, Passing
  <2>2. StagingIsWhole' /\ MarkerIsTrue'
    BY <1>0, <1>1, TreeFacts DEF InstallInv, StagingIsWhole, MarkerIsTrue, Empty, Dirs
  <2>3. MarkerIsDeclared' /\ DeDeclaredGoes'
    BY <1>0, <1>1, MatchFacts DEF MarkerIsDeclared, DeDeclaredGoes, Passing
  <2>4. KeepsInstalled' /\ OnlyWholeTrees' /\ DropsAreShared'
    BY <1>0, <1>1 DEF InstallInv, KeepsInstalled, OnlyWholeTrees, DropsAreShared
  <2>. QED
    BY <2>1, <2>2, <2>3, <2>4 DEF InstallInv
<1>2. CASE stage' = "swap" /\ UNCHANGED <<swapped, staging>>
  <2>1. InstallTypeOK' /\ PassKeeps' /\ StagingIsFetched'
    BY <1>0, <1>2 DEF InstallInv, InstallTypeOK, PassKeeps, StagingIsFetched, Passing, Installed, Dirs
  <2>2. StagingIsWhole' /\ MarkerIsTrue' /\ MarkerIsDeclared'
    BY <1>0, <1>2 DEF InstallInv, StagingIsWhole, MarkerIsTrue, MarkerIsDeclared, Dirs, Passing
  <2>3. KeepsInstalled' /\ OnlyWholeTrees' /\ DropsAreShared' /\ DeDeclaredGoes'
    BY <1>0, <1>2 DEF InstallInv, KeepsInstalled, OnlyWholeTrees, DropsAreShared, DeDeclaredGoes
  <2>. QED
    BY <2>1, <2>2, <2>3 DEF InstallInv
<1>. QED
  BY <1>1, <1>2 DEF Compare

\* The first rename of the swap.
LEMMA MoveAsideStep == InstallInv /\ MoveAside => InstallInv'
<1> SUFFICES ASSUME InstallInv, MoveAside PROVE InstallInv'
  OBVIOUS
<1>0. /\ stage = "swap" /\ stage' = "moved"
      /\ UNCHANGED <<up, signal, declared, twice, live, promoted, pyc, pass, unfetched, failures, staging, swapped,
                     spawned, kept, clean>>
  BY DEF MoveAside, boot, install, history
<1>1. InstallTypeOK' /\ PassKeeps' /\ StagingIsFetched'
  BY <1>0 DEF InstallInv, InstallTypeOK, PassKeeps, StagingIsFetched, Passing, Installed, Dirs
<1>2. StagingIsWhole' /\ MarkerIsTrue' /\ MarkerIsDeclared'
  BY <1>0 DEF InstallInv, StagingIsWhole, MarkerIsTrue, MarkerIsDeclared, Dirs, Passing
<1>3. KeepsInstalled' /\ OnlyWholeTrees' /\ DropsAreShared' /\ DeDeclaredGoes'
  BY <1>0 DEF InstallInv, KeepsInstalled, OnlyWholeTrees, DropsAreShared, DeDeclaredGoes
<1>. QED
  BY <1>1, <1>2, <1>3 DEF InstallInv

\* The second rename puts the staged tree, with its marker if that could be
\* written, in the place of the live one.
LEMMA MoveInStep ==
  ASSUME InstallInv, NEW written \in BOOLEAN, MoveIn(written)
  PROVE  InstallInv'
<1>0. /\ stage = "moved" /\ stage' = "drop"
      /\ live' = staging /\ promoted' \in {NoMarker, Marked(Dirs(staging))} /\ pyc' = {} /\ swapped' = TRUE
      /\ spawned' \in {spawned, "orphaned"} /\ staging' = Empty
      /\ UNCHANGED <<up, signal, declared, twice, pass, unfetched, failures, kept, clean>>
  BY DEF MoveIn, boot, history
<1>1. Dirs(staging) \in SUBSET Name
  BY DEF Dirs
<1>2. promoted' \in Marker /\ (promoted'.known => promoted'.names = Dirs(staging))
  BY <1>0, <1>1, MarkerFacts
<1>3. InstallTypeOK' /\ PassKeeps' /\ StagingIsFetched'
  BY <1>0, <1>2, TreeFacts DEF InstallInv, InstallTypeOK, PassKeeps, StagingIsFetched, Passing
<1>4. StagingIsWhole' /\ OnlyWholeTrees' /\ DropsAreShared'
  BY <1>0, TreeFacts DEF InstallInv, StagingIsWhole, OnlyWholeTrees, DropsAreShared, Empty
<1>5. MarkerIsTrue'
  BY <1>0, <1>2, TreeFacts DEF MarkerIsTrue, Dirs
<1>6. failures = {} => Dirs(staging) \subseteq declared
  BY <1>0 DEF InstallInv, StagingIsFetched, Dirs
<1>7. MarkerIsDeclared'
  BY <1>0, <1>2, <1>6 DEF MarkerIsDeclared, Passing
<1>8. DeDeclaredGoes'
  BY <1>0, <1>6, TreeFacts DEF DeDeclaredGoes, Dirs
<1>9. KeepsInstalled'
  BY <1>0, Covered DEF KeepsInstalled
<1>. QED
  BY <1>3, <1>4, <1>5, <1>7, <1>8, <1>9 DEF InstallInv

\* What is known of a tree that was lost.
LEMMA LoseFacts ==
  ASSUME InstallInv, Lose
  PROVE  /\ live' = Empty /\ kept' = Empty /\ pyc' = {} /\ promoted' = NoMarker
         /\ MarkerIsTrue' /\ OnlyWholeTrees' /\ DropsAreShared'
         /\ live' \in [Name -> TreeContent] /\ kept' \in [Name -> TreeContent]
         /\ promoted' \in Marker
<1>1. /\ live' = Empty /\ kept' = Empty /\ pyc' = {} /\ promoted' = NoMarker
  BY DEF Lose
<1>2. \A n \in Name : live'[n] = NoTree
  BY <1>1 DEF Empty
<1>. QED
  BY <1>1, <1>2, TreeFacts, MarkerFacts DEF MarkerIsTrue, OnlyWholeTrees, DropsAreShared

\* The second rename fails, and the old tree comes back or is lost.
LEMMA MoveFailsStep ==
  ASSUME InstallInv, NEW restored \in BOOLEAN, MoveFails(restored)
  PROVE  InstallInv'
<1>0. /\ stage \in {"swap", "moved"} /\ stage' = "drop" /\ staging' = Empty
      /\ UNCHANGED <<up, signal, declared, twice, pass, unfetched, failures, swapped, spawned, clean>>
      /\ Lose \/ UNCHANGED <<live, promoted, pyc, kept>>
  BY DEF MoveFails, boot
<1>1. kept = live /\ ~swapped
  BY <1>0 DEF InstallInv, PassKeeps, Passing
<1>2. StagingIsWhole' /\ StagingIsFetched' /\ PassKeeps' /\ MarkerIsDeclared' /\ DeDeclaredGoes'
  BY <1>0, <1>1, TreeFacts DEF StagingIsWhole, Empty, StagingIsFetched, PassKeeps, Passing,
                               MarkerIsDeclared, DeDeclaredGoes
<1>3. CASE Lose
  <2>1. InstallTypeOK'
    BY <1>0, <1>3, LoseFacts, TreeFacts DEF InstallInv, InstallTypeOK
  <2>2. KeepsInstalled'
    BY <1>3, LoseFacts DEF KeepsInstalled
  <2>. QED
    BY <1>2, <1>3, <2>1, <2>2, LoseFacts DEF InstallInv
<1>4. CASE UNCHANGED <<live, promoted, pyc, kept>>
  <2>1. InstallTypeOK'
    BY <1>0, <1>4, TreeFacts DEF InstallInv, InstallTypeOK
  <2>2. KeepsInstalled' /\ OnlyWholeTrees' /\ DropsAreShared' /\ MarkerIsTrue'
    BY <1>1, <1>4 DEF InstallInv, KeepsInstalled, OnlyWholeTrees, DropsAreShared, MarkerIsTrue, Dirs
  <2>. QED
    BY <1>2, <2>1, <2>2 DEF InstallInv
<1>. QED
  BY <1>0, <1>3, <1>4

\* A raw drop adds what the shared directory has and no source names.
LEMMA RawDropStep ==
  ASSUME InstallInv, NEW n \in Name, NEW whole \in BOOLEAN, RawDrop(n, whole)
  PROVE  InstallInv'
<1>0. /\ stage = "drop" /\ n \in Shared /\ live[n] = NoTree
      /\ live' = [live EXCEPT ![n] = IF whole THEN SharedTree ELSE TornTree]
      /\ UNCHANGED <<up, signal, declared, twice, promoted, pyc, stage, pass, unfetched, failures, staging, swapped,
                     spawned, kept, clean>>
  BY DEF RawDrop, boot, install, history
<1>1. /\ live'[n] \in {SharedTree, TornTree} /\ live' \in [Name -> TreeContent]
      /\ \A m \in Name : m # n => live'[m] = live[m]
  BY <1>0, TreeFacts DEF InstallInv, InstallTypeOK
<1>2. InstallTypeOK'
  BY <1>0, <1>1 DEF InstallInv, InstallTypeOK
<1>3. PassKeeps' /\ StagingIsFetched' /\ StagingIsWhole' /\ MarkerIsDeclared'
  BY <1>0 DEF InstallInv, PassKeeps, StagingIsFetched, StagingIsWhole, MarkerIsDeclared, Passing
<1>4. MarkerIsTrue'
  BY <1>0, <1>1, TreeFacts DEF InstallInv, MarkerIsTrue, Dirs
<1>5. KeepsInstalled' /\ OnlyWholeTrees' /\ DropsAreShared' /\ DeDeclaredGoes'
  BY <1>0, <1>1, TreeFacts DEF InstallInv, InstallTypeOK, KeepsInstalled, OnlyWholeTrees, DropsAreShared, DeDeclaredGoes
<1>. QED
  BY <1>2, <1>3, <1>4, <1>5 DEF InstallInv

\* A crash leaves the live tree, or none where it fell between the renames.
LEMMA CrashStep == InstallInv /\ Crash => InstallInv'
<1> SUFFICES ASSUME InstallInv, Crash PROVE InstallInv'
  OBVIOUS
<1>0. /\ stage' = "down" /\ staging' = Empty /\ unfetched' = {} /\ failures' = {} /\ swapped' = FALSE
      /\ spawned' = "none" /\ pass' = 1 /\ clean' = FALSE
      /\ signal' = FALSE /\ declared' = {} /\ twice' = FALSE /\ UNCHANGED up
      /\ Lose \/ (kept' = Empty /\ UNCHANGED <<live, promoted, pyc>>)
  BY DEF Crash
<1>1. /\ StagingIsWhole' /\ StagingIsFetched' /\ PassKeeps' /\ MarkerIsDeclared'
      /\ KeepsInstalled' /\ DeDeclaredGoes'
  BY <1>0, TreeFacts DEF StagingIsWhole, Empty, StagingIsFetched, PassKeeps, Passing,
                         MarkerIsDeclared, KeepsInstalled, DeDeclaredGoes
<1>2. CASE Lose
  <2>1. InstallTypeOK'
    BY <1>0, <1>2, LoseFacts, TreeFacts DEF InstallInv, InstallTypeOK
  <2>. QED
    BY <1>1, <1>2, <2>1, LoseFacts DEF InstallInv
<1>3. CASE kept' = Empty /\ UNCHANGED <<live, promoted, pyc>>
  <2>1. InstallTypeOK'
    BY <1>0, <1>3, TreeFacts DEF InstallInv, InstallTypeOK
  <2>2. OnlyWholeTrees' /\ DropsAreShared' /\ MarkerIsTrue'
    BY <1>3 DEF InstallInv, OnlyWholeTrees, DropsAreShared, MarkerIsTrue, Dirs
  <2>. QED
    BY <1>1, <2>1, <2>2 DEF InstallInv
<1>. QED
  BY <1>0, <1>2, <1>3

\* A server writes bytecode, or a source moves upstream.
LEMMA WorldStep ==
  ASSUME InstallInv, NEW n \in Name, Import(n) \/ Publish(n)
  PROVE  InstallInv'
<1>1. UNCHANGED <<signal, declared, twice, live, promoted, stage, pass, unfetched, failures,
                  staging, swapped, spawned, kept, clean>>
  BY DEF Import, Publish, boot, install, history
<1>2. CASE Import(n)
  BY <1>1, <1>2, SameTrees DEF Import, InstallInv, InstallTypeOK
<1>3. CASE Publish(n)
  <2>1. up[n] + 1 \in Revision
    BY <1>3, PluginAssumption DEF Publish, InstallInv, InstallTypeOK, Revision
  <2>2. up' \in [Name -> Revision] /\ pyc' = pyc
    BY <1>3, <2>1 DEF Publish, InstallInv, InstallTypeOK
  <2>. QED
    BY <1>1, <2>2, SameTrees DEF InstallInv, InstallTypeOK
<1>. QED
  BY <1>2, <1>3

\* The invariant of the trees holds at the start ...
LEMMA InstallInvInit == InstallInit => InstallInv
<1> SUFFICES ASSUME InstallInit PROVE InstallInv
  OBVIOUS
<1>1. 1 \in Revision
  BY PluginAssumption DEF Revision
<1>2. InstallTypeOK
  BY <1>1, TreeFacts, MarkerFacts DEF InstallInit, InstallTypeOK
<1>3. \A n \in Name : live[n] = NoTree /\ staging[n] = NoTree
  BY DEF InstallInit, Empty
<1>4. PassKeeps /\ StagingIsFetched /\ MarkerIsDeclared /\ KeepsInstalled /\ DeDeclaredGoes
  BY DEF InstallInit, PassKeeps, StagingIsFetched, MarkerIsDeclared, KeepsInstalled, DeDeclaredGoes,
         Passing
<1>5. StagingIsWhole /\ MarkerIsTrue /\ OnlyWholeTrees /\ DropsAreShared
  BY <1>3, TreeFacts, MarkerFacts DEF InstallInit, StagingIsWhole, MarkerIsTrue, OnlyWholeTrees, DropsAreShared
<1>. QED
  BY <1>2, <1>4, <1>5 DEF InstallInv

\* ... and every step of the installation keeps it.
LEMMA InstallInvStep == InstallInv /\ InstallNext => InstallInv'
<1> SUFFICES ASSUME InstallInv, InstallNext PROVE InstallInv'
  OBVIOUS
<1>. QED
  BY BootBeginsStep, DroppedStep, CarryForwardStep, FetchStep, RawDropStep, WorldStep, CompareStep,
     MoveAsideStep, MoveInStep, MoveFailsStep, ServeStep, CrashStep DEF InstallNext

\* The action properties, from the invariant before the step.
LEMMA ReportStep ==
  ASSUME InstallInv, InstallNext, stage' = "drop", stage \in {"compare", "moved"}, swapped'
  PROVE  \A n \in Installed : live'[n] = staging[n]
<1>0. ~swapped
  BY DEF InstallInv, PassKeeps, Passing
<1>1. CASE \E readable \in BOOLEAN : Compare(readable)
  BY <1>0, <1>1, MatchFacts DEF Compare
<1>2. CASE \E written \in BOOLEAN : MoveIn(written)
  BY <1>2 DEF MoveIn
<1>3. ASSUME NEW restored \in BOOLEAN, MoveFails(restored) PROVE FALSE
  BY <1>0, <1>3 DEF MoveFails
<1>4. CASE MoveAside \/ Crash \/ Serve \/ Settle \/ BootBegins \/ NothingStaged
  BY <1>4 DEF MoveAside, Crash, Serve, Settle, BootBegins, NothingStaged
<1>5. CASE CarryForward \/ CarryAborts
  BY <1>5 DEF CarryForward, CarryAborts
<1>6. ASSUME NEW n \in Name, NEW direct \in BOOLEAN, NEW clone \in BOOLEAN,
             NEW subpath \in BOOLEAN, NEW copied \in BOOLEAN,
             FetchSource(n, direct, clone, subpath, copied)
      PROVE  FALSE
  BY <1>6 DEF FetchSource
<1>7. ASSUME NEW n \in Name, NEW whole \in BOOLEAN, RawDrop(n, whole) PROVE FALSE
  BY <1>7 DEF RawDrop
<1>8. ASSUME NEW n \in Name, Import(n) \/ Publish(n) PROVE FALSE
  BY <1>8 DEF Import, Publish
<1>. QED
  BY <1>1, <1>2, <1>3, <1>4, <1>5, <1>6, <1>7, <1>8 DEF InstallNext

\* After a pass that promoted every source, a swap has a source that moved, or
\* counts what was dropped beside them for want of a marker.
LEMMA SwapStep ==
  ASSUME InstallInv, clean, Compare(TRUE), stage' = "swap"
  PROVE  \/ \E n \in Dirs(staging) : staging[n] # kept[n]
         \/ ~promoted.known /\ LiveOnly \cap Shared # {}
<1>1. stage = "compare" /\ ~Matches
  BY DEF Compare
<1>2. kept = live
  BY <1>1 DEF InstallInv, PassKeeps, Passing
<1>3. failures # {} => LiveOnly = {}
  BY <1>1 DEF InstallInv, StagingIsFetched, LiveOnly
<1>4. failures = {} => \A n \in declared : n \in Name /\ n \in Dirs(staging)
  BY <1>1, TreeFacts DEF InstallInv, InstallTypeOK, StagingIsFetched, Installed, Passing, Dirs
<1>5. promoted.known => DeDeclared = {}
  BY <1>1, <1>3, <1>4 DEF InstallInv, MarkerIsDeclared, Passing, DeDeclared, LiveOnly
<1>6. ASSUME ~promoted.known, DeDeclared # {} PROVE LiveOnly \cap Shared # {}
  <2>1. PICK n \in Dirs(live) : n \notin Dirs(staging)
    BY <1>6 DEF DeDeclared, LiveOnly
  <2>2. n \in Name /\ n \notin declared /\ live[n].kind # "rev" /\ live[n] # NoTree
    BY <1>1, <1>3, <1>4, <2>1 DEF InstallInv, MarkerIsDeclared, Passing, LiveOnly, Dirs
  <2>3. live[n] \in TreeContent
    BY <2>2 DEF InstallInv, InstallTypeOK
  <2>4. live[n] \in {SharedTree, TornTree}
    BY <2>2, <2>3 DEF TreeContent, NoTree, SharedTree, TornTree
  <2>5. n \in Shared
    BY <2>2, <2>4 DEF InstallInv, OnlyWholeTrees, DropsAreShared
  <2>. QED
    BY <2>1, <2>5 DEF LiveOnly
<1>7. CASE DeDeclared = {}
  <2>1. PICK n \in Dirs(staging) : ~Same(n)
    BY <1>1, <1>7 DEF Matches
  <2>. QED
    BY <1>2, <2>1, EqualIsSame
<1>. QED
  BY <1>5, <1>6, <1>7

(***************************************************************************)
(* The files the plugins own.                                              *)
(***************************************************************************)

LivePlugins == {p \in Contributor : rev[p] # 0}

\* A plugin is being installed.
Busy == step \notin {"idle", "next"}
Settled(p) == ~(Busy /\ p = who)

\* A record names only what its plugin wrote, and the record of an installation
\* only what this revision wrote.
LedgerIsOwn ==
    \A p \in Contributor :
        /\ \A z \in Path : ledger[p].files[z] # None => ledger[p].files[z].by = p
        /\ ledger[p].block # None => ledger[p].block.by = p

GotIsCurrent ==
    /\ round \subseteq LivePlugins /\ (step = "idle" => round = {})
    /\ Busy => /\ rev[who] # 0 /\ who \notin round
               /\ \A z \in Path : got.files[z] \in {None, Current}
               /\ got.block \in {None, Current}

\* Unless an installation was cut short, what a plugin wrote is in its record ...
DiskIsRecorded ==
    \A p \in Contributor \ cut : Settled(p) =>
        /\ \A z \in Path : disk[z].by = p => disk[z] = ledger[p].files[z]
        /\ block[p].by = p => block[p] = ledger[p].block

\* ... and while it is installed in its new record, or still to be handled.
Awaits(z) ==
    \/ step \in {"memory", "append"}
    \/ step = "skills" /\ (z \in remaining \/ DirOf[z] = "claude")
    \/ step = "setup" /\ DirOf[z] = "claude"
    \/ step = "claude" /\ z \in remaining

InstallIsRecorded ==
    Busy /\ who \notin cut =>
        /\ \A z \in Path : disk[z].by = who =>
              disk[z] = got.files[z] \/ (disk[z] = Previous.files[z] /\ Awaits(z))
        /\ block[who].by = who =>
              IF step = "memory" THEN block[who] = Previous.block
              ELSE step # "append" /\ block[who] = got.block

\* What a round has installed is of the revision that is live.
Fresh(p) ==
    /\ \A z \in Path : disk[z].by = p => disk[z] = Of(p, rev[p])
    /\ block[p].by = p => block[p] = Of(p, rev[p])

RoundIsFresh ==
    step # "idle" =>
        \A p \in LivePlugins \ cut : p \notin round /\ Settled(p) => Fresh(p)

\* A malformed settings.json is rendered anew in the first undisturbed round,
\* if a live plugin has a server.
FileIsRepaired ==
    ~valid => /\ calm >= 2 => LivePlugins \cap Mcp = {}
              /\ step # "idle" /\ calm >= 1 => LivePlugins \cap Mcp \subseteq round

\* In the second the records come to name only what is contributed now, and in
\* the third nothing is taken out any more.
Contributed(p) == Hooks[p][rev[p]]

RecordsSettle ==
    /\ step = "idle" /\ calm >= 3 /\ valid => \A p \in LivePlugins : ledger[p].hooks \subseteq Contributed(p)
    /\ step # "idle" /\ valid =>
          /\ calm >= 3 => \A p \in LivePlugins : ledger[p].hooks \subseteq Contributed(p)
          /\ calm = 2 => \A p \in LivePlugins : p \notin round /\ Settled(p) => ledger[p].hooks \subseteq Contributed(p)
          /\ calm >= 2 /\ step = "persist" => got.hooks \subseteq Contributed(who)

HandlersSettle ==
    /\ calm = 4 /\ valid => \A p \in LivePlugins : Contributed(p) \subseteq hooks
    /\ calm = 3 /\ step # "idle" /\ valid =>
          /\ \A p \in LivePlugins : p \notin round /\ Settled(p) => Contributed(p) \subseteq hooks
          /\ step = "persist" => Contributed(who) \subseteq hooks

OwnInv ==
    /\ LedgerIsOwn /\ GotIsCurrent
    /\ DiskIsRecorded /\ InstallIsRecorded /\ RoundIsFresh /\ StaleHasCause

HandlerInv == FileIsRepaired /\ RecordsSettle /\ HandlersSettle

FilesInv == FilesTypeOK /\ OwnInv /\ HandlerInv

\* What a text says of who wrote it.
LEMMA TextFacts ==
  /\ None \in Text /\ User \in Text /\ Torn \in Text /\ Written \subseteq Text
  /\ \A p \in Contributor : None.by # p /\ User.by # p /\ Torn.by # p
  /\ \A t \in Written : t.by \in Contributor /\ t # None
  /\ \A p \in Contributor, r \in Rev : Of(p, r) \in Written /\ Of(p, r).by = p
BY FilesAssumption DEF None, User, Torn, Text, Written, Of

\* The record that names nothing.
LEMMA EmptyRecord ==
  /\ NoContribution \in Contribution /\ NoContribution.block = None /\ NoContribution.hooks = {}
  /\ \A z \in Path : NoContribution.files[z] = None
BY DEF NoContribution, Contribution

\* The parts of a record.
LEMMA RecordFacts ==
  ASSUME NEW c \in Contribution
  PROVE  /\ c.files \in [Path -> {None} \cup Written] /\ c.block \in {None} \cup Written
         /\ c.hooks \in SUBSET Handler
         /\ \A b \in {None} \cup Written : /\ [c EXCEPT !.block = b] \in Contribution
                                           /\ [c EXCEPT !.block = b].block = b
                                           /\ [c EXCEPT !.block = b].files = c.files
                                           /\ [c EXCEPT !.block = b].hooks = c.hooks
         /\ \A h \in SUBSET Handler : /\ [c EXCEPT !.hooks = h] \in Contribution
                                      /\ [c EXCEPT !.hooks = h].hooks = h
                                      /\ [c EXCEPT !.hooks = h].files = c.files
                                      /\ [c EXCEPT !.hooks = h].block = c.block
BY DEF Contribution

\* A file more in a record.
LEMMA RecordFile ==
  ASSUME NEW c \in Contribution, NEW x \in Path, NEW t \in {None} \cup Written
  PROVE  /\ [c EXCEPT !.files[x] = t] \in Contribution
         /\ [c EXCEPT !.files[x] = t].files = [c.files EXCEPT ![x] = t]
         /\ [c EXCEPT !.files[x] = t].block = c.block
         /\ [c EXCEPT !.files[x] = t].hooks = c.hooks
BY DEF Contribution

\* Of the revision that is installed.
LEMMA CurrentFacts ==
  ASSUME FilesTypeOK, rev[who] # 0
  PROVE  /\ Current \in Written /\ Current.by = who /\ Shipped \in SUBSET Path
         /\ Hooks[who][rev[who]] \in SUBSET Handler
         /\ \A p \in LivePlugins : rev[p] \in Rev
<1>1. \A p \in Contributor : rev[p] # 0 => rev[p] \in Rev
  BY FilesAssumption DEF FilesTypeOK, Rev
<1>2. who \in Contributor /\ rev[who] \in Rev
  BY <1>1 DEF FilesTypeOK
<1>. QED
  BY <1>1, <1>2, TextFacts, FilesAssumption DEF Current, Shipped, LivePlugins

\* The counters stay in their bounds.
LEMMA CountersTyped ==
  /\ events \in 0..MaxEvents /\ Happens => events' \in 0..MaxEvents
  /\ Disturbs => calm' \in 0..4
BY FilesAssumption DEF Happens, Disturbs

\* The types of the files, the settings and the records.
LEMMA FilesTypeStep ==
  ASSUME FilesTypeOK, GotIsCurrent, FilesNext
  PROVE  FilesTypeOK'
<1> USE DEF FilesTypeOK, settings, plugin
<1>0. /\ got.files \in [Path -> {None} \cup Written] /\ ledger[who] \in Contribution
      /\ \A p \in Contributor : ledger[p].hooks \in SUBSET Handler
  BY RecordFacts
<1>1. CASE RoundBegins
  BY <1>1 DEF RoundBegins
<1>2. ASSUME NEW p \in Contributor, Installs(p) PROVE FilesTypeOK'
  <2>1. hooks' \in SUBSET Handler /\ valid' \in BOOLEAN
    BY <1>2 DEF Installs, RegistersServers
  <2>2. servers' \in SUBSET Contributor
    BY <1>2 DEF Installs, RegistersServers, Servers
  <2>. QED
    BY <1>2, <2>1, <2>2, EmptyRecord DEF Installs
<1>3. CASE RemovesBlock
  <2>1. BlockLeft(who, Previous) \in Text
    BY TextFacts DEF BlockLeft
  <2>. QED
    BY <1>3, <2>1 DEF RemovesBlock
<1>4. CASE AppendsBlock
  <2>1. Current \in Text /\ Current \in Written
    BY <1>4, CurrentFacts, TextFacts DEF AppendsBlock, GotIsCurrent, Busy
  <2>2. got' \in Contribution
    BY <1>4, <2>1, RecordFacts DEF AppendsBlock
  <2>3. block' \in [Contributor -> Text]
    BY <1>4, <2>1 DEF AppendsBlock, Appended
  <2>4. remaining' \in SUBSET Path
    BY <1>4 DEF AppendsBlock, Scope
  <2>. QED
    BY <1>4, <2>2, <2>3, <2>4 DEF AppendsBlock
<1>5. ASSUME NEW x \in Path, Handles(x) PROVE FilesTypeOK'
  <2>1. Current \in Text /\ Current \in Written
    BY <1>5, CurrentFacts, TextFacts DEF Handles, GotIsCurrent, Busy
  <2>2. got' \in Contribution
    BY <1>5, <2>1, RecordFile DEF Handles, Copies, Removes, Preserves
  <2>3. disk' \in [Path -> Text]
    BY <1>5, <2>1, TextFacts DEF Handles, Copies, Removes, Preserves
  <2>. QED
    BY <1>5, <2>2, <2>3 DEF Handles
<1>6. CASE SkillsDone \/ ClaudeDone
  BY <1>6 DEF SkillsDone, ClaudeDone
<1>7. ASSUME NEW ok \in BOOLEAN, SetupEnds(ok) PROVE FilesTypeOK'
  BY <1>7 DEF SetupEnds, Scope
<1>8. CASE PrivilegedAborts
  BY <1>8, EmptyRecord, CountersTyped DEF PrivilegedAborts
<1>9. CASE Merges
  <2>1. Hooks[who][rev[who]] \in SUBSET Handler
    BY <1>9, CurrentFacts DEF Merges, GotIsCurrent, Busy
  <2>2. got' \in Contribution
    <3>1. (Hooks[who][rev[who]] \ HooksLeft(Previous)) \in SUBSET Handler /\ Previous.hooks \in SUBSET Handler
      BY <2>1, <1>0 DEF Previous
    <3>2. got' = [got EXCEPT !.hooks = Hooks[who][rev[who]] \ HooksLeft(Previous)]
          \/ got' = [got EXCEPT !.hooks = Previous.hooks]
      BY <1>9 DEF Merges, Merge
    <3>3. \A h \in SUBSET Handler : [got EXCEPT !.hooks = h] \in Contribution
      <4>1. got \in Contribution
        OBVIOUS
      <4>. QED
        BY <4>1, RecordFacts
    <3>. QED
      BY <3>1, <3>2, <3>3
  <2>3. hooks' \in SUBSET Handler
    BY <1>9, <2>1 DEF Merges, Merge, HooksLeft
  <2>. QED
    BY <1>9, <2>2, <2>3 DEF Merges
<1>10. CASE Persists
  BY <1>10, EmptyRecord DEF Persists
<1>11. CASE Fails
  BY <1>11, EmptyRecord, CountersTyped DEF Fails
<1>12. CASE RoundEnds
  BY <1>12 DEF RoundEnds
<1>13. CASE InstallKilled
  <2>1. disk' \in [Path -> Text] /\ block' \in [Contributor -> Text]
    BY <1>13, TextFacts DEF InstallKilled
  <2>. QED
    BY <1>13, <2>1, EmptyRecord, CountersTyped DEF InstallKilled
<1>14. ASSUME NEW p \in Contributor, Uninstalls(p) PROVE FilesTypeOK'
  <2>1. disk' \in [Path -> Text]
    BY <1>14, TextFacts DEF Uninstalls, FileLeft
  <2>2. block' \in [Contributor -> Text]
    BY <1>14, TextFacts DEF Uninstalls, BlockLeft
  <2>3. hooks' \in SUBSET Handler /\ servers' \in SUBSET Contributor
    BY <1>14 DEF Uninstalls, HooksLeft
  <2>. QED
    <3>1. 0 \in 0..MaxRev
      BY FilesAssumption
    <3>2. rev' \in [Contributor -> 0..MaxRev] /\ ledger' \in [Contributor -> Contribution]
      BY <1>14, <3>1, EmptyRecord DEF Uninstalls
    <3>3. calm' \in 0..4
      BY <1>14, CountersTyped DEF Uninstalls
    <3>. QED
      BY <1>14, <2>1, <2>2, <2>3, <3>2, <3>3 DEF Uninstalls
<1>15. ASSUME NEW p \in Contributor, NEW r \in 0..MaxRev, Arrives(p, r) PROVE FilesTypeOK'
  BY <1>15, CountersTyped DEF Arrives
<1>16. ASSUME NEW x \in Path, UserWrites(x) \/ UserDeletes(x) PROVE FilesTypeOK'
  <2>1. disk' \in [Path -> Text]
    BY <1>16, TextFacts DEF UserWrites, UserDeletes
  <2>. QED
    BY <1>16, <2>1, CountersTyped DEF UserWrites, UserDeletes
<1>17. ASSUME NEW p \in Contributor, UserEditsBlock(p) PROVE FilesTypeOK'
  <2>1. block' \in [Contributor -> Text]
    BY <1>17, TextFacts DEF UserEditsBlock
  <2>. QED
    BY <1>17, <2>1, CountersTyped DEF UserEditsBlock
<1>18. CASE UserEditsSettings
  <2>1. hooks' \in SUBSET Handler /\ valid' \in BOOLEAN
    BY <1>18 DEF UserEditsSettings
  <2>. QED
    BY <1>18, <2>1, CountersTyped DEF UserEditsSettings
<1>. QED
  BY <1>1, <1>2, <1>3, <1>4, <1>5, <1>6, <1>7, <1>8, <1>9, <1>10, <1>11, <1>12, <1>13, <1>14,
     <1>15, <1>16, <1>17, <1>18 DEF FilesNext

\* The steps that move an installation on, or edit the settings, and leave the
\* files, the blocks and the records alone.
LEMMA OwnControlStep ==
  ASSUME FilesTypeOK, OwnInv,
         RoundBegins \/ SkillsDone \/ ClaudeDone \/ RoundEnds \/ Merges \/ UserEditsSettings
           \/ \E ok \in BOOLEAN : SetupEnds(ok)
  PROVE  OwnInv'
<1>0. UNCHANGED <<rev, disk, block, ledger, who, cut>>
  BY DEF RoundBegins, SkillsDone, ClaudeDone, RoundEnds, Merges, UserEditsSettings, SetupEnds, plugin
<1>1. got'.files = got.files /\ got'.block = got.block
  <2>1. CASE UNCHANGED got
    BY <2>1
  <2>2. CASE Merges
    <3>1. got \in Contribution
      BY DEF FilesTypeOK
    <3>2. \E h : got' = [got EXCEPT !.hooks = h]
      BY <2>2 DEF Merges, Merge
    <3>. QED
      BY <3>1, <3>2 DEF Contribution
  <2>. QED
    BY <2>1, <2>2 DEF RoundBegins, SkillsDone, ClaudeDone, RoundEnds, UserEditsSettings, SetupEnds, plugin
<1> USE <1>0, <1>1 DEF OwnInv
<1>2. LedgerIsOwn'
  BY DEF LedgerIsOwn
<1>3. CASE RoundBegins
  <2>0. step = "idle" /\ step' = "next" /\ round' = LivePlugins
    BY <1>3 DEF RoundBegins, LivePlugins
  <2>1. GotIsCurrent' /\ InstallIsRecorded' /\ RoundIsFresh' /\ StaleHasCause'
    BY <2>0 DEF GotIsCurrent, Busy, InstallIsRecorded, RoundIsFresh, StaleHasCause, LivePlugins
  <2>2. DiskIsRecorded'
    BY <2>0 DEF DiskIsRecorded, Settled, Busy
  <2>. QED
    BY <1>2, <2>1, <2>2
<1>4. CASE RoundEnds
  <2>0. step = "next" /\ step' = "idle" /\ round = {} /\ round' = {}
    BY <1>4 DEF RoundEnds
  <2>1. GotIsCurrent' /\ InstallIsRecorded' /\ RoundIsFresh'
    BY <2>0 DEF GotIsCurrent, Busy, InstallIsRecorded, RoundIsFresh, LivePlugins
  <2>2. DiskIsRecorded'
    BY <2>0 DEF DiskIsRecorded, Settled, Busy
  <2>3. StaleHasCause'
    BY <2>0 DEF RoundIsFresh, Fresh, Settled, Busy, StaleHasCause, LivePlugins
  <2>. QED
    BY <1>2, <2>1, <2>2, <2>3
<1>5. CASE SkillsDone \/ ClaudeDone \/ Merges \/ \E ok \in BOOLEAN : SetupEnds(ok)
  <2>0. /\ Busy /\ Busy' /\ UNCHANGED round /\ step # "idle" /\ step' # "idle"
        /\ step \notin {"memory", "append"} /\ step' \notin {"memory", "append"}
    BY <1>5 DEF SkillsDone, ClaudeDone, Merges, SetupEnds, Busy
  <2>1. GotIsCurrent' /\ DiskIsRecorded' /\ StaleHasCause' /\ RoundIsFresh'
    BY <2>0 DEF GotIsCurrent, Current, DiskIsRecorded, Settled, StaleHasCause, RoundIsFresh, Fresh,
                LivePlugins
  <2>2. \A z \in Path : Awaits(z) /\ disk[z] = Previous.files[z] /\ Previous.files[z] # None => Awaits(z)'
    <3>1. \A z \in Path : DirOf[z] \in SkillDir \cup {"claude"}
      BY FilesAssumption
    <3>. QED
      BY <1>5, <3>1 DEF SkillsDone, ClaudeDone, Merges, SetupEnds, Awaits, Scope
  <2>3. who \notin cut => \A z \in Path : disk[z].by = who => disk[z] # None
    BY TextFacts DEF FilesTypeOK
  <2>4. InstallIsRecorded'
    BY <2>0, <2>2, <2>3 DEF InstallIsRecorded, Previous
  <2>. QED
    BY <1>2, <2>1, <2>4
<1>6. CASE UserEditsSettings
  <2>0. UNCHANGED <<step, round, remaining, got>> /\ (step = "idle" => calm' = 1)
    BY <1>6 DEF UserEditsSettings, Disturbs, plugin
  <2>. QED
    BY <1>2, <2>0 DEF GotIsCurrent, Busy, Current, DiskIsRecorded, InstallIsRecorded, RoundIsFresh,
                      StaleHasCause, Settled, Fresh, Awaits, Previous, LivePlugins
<1>. QED
  BY <1>3, <1>4, <1>5, <1>6

\* What someone else does to the files and blocks.
LEMMA OwnUserStep ==
  ASSUME FilesTypeOK, OwnInv,
         \/ \E x \in Path : UserWrites(x) \/ UserDeletes(x)
         \/ \E p \in Contributor : UserEditsBlock(p)
  PROVE  OwnInv'
<1>0. /\ UNCHANGED <<rev, ledger, who, cut, step, round, remaining, got>>
      /\ step = "idle" => calm' = 1
  BY DEF UserWrites, UserDeletes, UserEditsBlock, plugin, Disturbs
<1>1. \A p \in Contributor, z \in Path : disk'[z].by = p => disk'[z] = disk[z]
  BY TextFacts DEF FilesTypeOK, UserWrites, UserDeletes, UserEditsBlock
<1>2. \A p, q \in Contributor : block'[q].by = p => block'[q] = block[q]
  BY TextFacts DEF FilesTypeOK, UserWrites, UserDeletes, UserEditsBlock
<1>3. who \in Contributor
  BY DEF FilesTypeOK
<1> USE <1>0, <1>1, <1>2, <1>3 DEF OwnInv
<1>4. LedgerIsOwn' /\ GotIsCurrent' /\ StaleHasCause'
  BY DEF LedgerIsOwn, GotIsCurrent, Busy, Current, LivePlugins, StaleHasCause
<1>5. DiskIsRecorded'
  BY DEF DiskIsRecorded, Settled, Busy
<1>6. InstallIsRecorded'
  BY DEF InstallIsRecorded, Busy, Previous, Awaits
<1>7. RoundIsFresh'
  BY DEF RoundIsFresh, Fresh, Settled, Busy, LivePlugins
<1>. QED
  BY <1>4, <1>5, <1>6, <1>7

\* An installation begins with everything its plugin wrote in the old record.
LEMMA InstallsStep ==
  ASSUME FilesTypeOK, OwnInv, NEW p \in Contributor, Installs(p)
  PROVE  OwnInv'
<1>0. /\ UNCHANGED <<rev, disk, block, ledger, cut>>
      /\ step = "next" /\ step' = "memory" /\ p \in round /\ who' = p /\ round' = round \ {p}
      /\ got' = NoContribution
  BY DEF Installs
<1> USE <1>0 DEF OwnInv
<1>1. LedgerIsOwn' /\ StaleHasCause'
  BY DEF LedgerIsOwn, StaleHasCause
<1>2. GotIsCurrent'
  BY EmptyRecord DEF GotIsCurrent, Busy, LivePlugins
<1>3. DiskIsRecorded'
  BY DEF DiskIsRecorded, Settled, Busy
<1>4. InstallIsRecorded'
  BY DEF InstallIsRecorded, DiskIsRecorded, Settled, Busy, Previous, Awaits
<1>5. RoundIsFresh'
  BY DEF RoundIsFresh, Fresh, Settled, Busy, LivePlugins
<1>. QED
  BY <1>1, <1>2, <1>3, <1>4, <1>5

\* The old block goes, where it is still as it was written.
LEMMA RemovesBlockStep ==
  ASSUME FilesTypeOK, OwnInv, RemovesBlock
  PROVE  OwnInv'
<1>0. /\ UNCHANGED <<rev, disk, ledger, cut, who, round, remaining, got>>
      /\ step = "memory" /\ step' = "append"
      /\ block' = [block EXCEPT ![who] = BlockLeft(who, Previous)]
  BY DEF RemovesBlock
<1> USE <1>0 DEF OwnInv
<1>1. LedgerIsOwn' /\ StaleHasCause' /\ GotIsCurrent'
  BY DEF LedgerIsOwn, StaleHasCause, GotIsCurrent, Busy, Current, LivePlugins
<1>2. /\ who \in Contributor /\ \A q \in Contributor \ {who} : block'[q] = block[q]
      /\ block'[who] = BlockLeft(who, Previous)
  BY DEF FilesTypeOK
<1>3. DiskIsRecorded'
  BY <1>2 DEF DiskIsRecorded, Settled, Busy
<1>4. InstallIsRecorded'
  <2>1. who \notin cut => block'[who].by # who
    BY <1>2, TextFacts DEF InstallIsRecorded, Busy, BlockLeft
  <2>. QED
    BY <2>1 DEF InstallIsRecorded, Busy, Previous, Awaits
<1>5. RoundIsFresh'
  BY <1>2 DEF RoundIsFresh, Fresh, Settled, Busy, LivePlugins
<1>. QED
  BY <1>1, <1>3, <1>4, <1>5

\* Every file the old record names is in the scope of the copy that begins.
LEMMA AppendsBlockStep ==
  ASSUME FilesTypeOK, OwnInv, AppendsBlock
  PROVE  OwnInv'
<1>0. /\ UNCHANGED <<rev, disk, ledger, cut, who, round>>
      /\ step = "append" /\ step' = "skills"
      /\ block' = [block EXCEPT ![who] = Appended(who, Current)]
      /\ got' = [got EXCEPT !.block = IF block[who] = None THEN Current ELSE None]
      /\ remaining' = Scope({d \in SkillDir : ~Refused(d)})
  BY DEF AppendsBlock
<1> USE <1>0 DEF OwnInv
<1>1. LedgerIsOwn' /\ StaleHasCause'
  BY DEF LedgerIsOwn, StaleHasCause
<1>2. /\ who \in Contributor /\ \A q \in Contributor \ {who} : block'[q] = block[q]
      /\ block'[who] = Appended(who, Current)
  BY DEF FilesTypeOK
<1>3. got'.files = got.files /\ got'.block = IF block[who] = None THEN Current ELSE None
  <2>1. got \in Contribution
    BY DEF FilesTypeOK
  <2>. QED
    BY <2>1 DEF Contribution
<1>4. GotIsCurrent'
  BY <1>3 DEF GotIsCurrent, Busy, Current, LivePlugins
<1>5. DiskIsRecorded'
  BY <1>2 DEF DiskIsRecorded, Settled, Busy
<1>6. InstallIsRecorded'
  <2>1. \A z \in Path : Previous.files[z] # None => Awaits(z)'
    <3>1. \A z \in Path : DirOf[z] \in SkillDir \cup {"claude"}
      BY FilesAssumption
    <3>. QED
      BY <3>1 DEF Awaits, Scope, Refused
  <2>2. who \notin cut => \A z \in Path : disk[z].by = who =>
           disk[z] = got.files[z] \/ (disk[z] = Previous.files[z] /\ Previous.files[z] # None)
    BY <1>2, TextFacts DEF InstallIsRecorded, Busy
  <2>3. who \notin cut /\ block'[who].by = who => block'[who] = got'.block
    BY <1>2, <1>3 DEF InstallIsRecorded, Busy, Appended
  <2>. QED
    BY <1>3, <2>1, <2>2, <2>3 DEF InstallIsRecorded, Busy, Previous
<1>7. RoundIsFresh'
  BY <1>2 DEF RoundIsFresh, Fresh, Settled, Busy, LivePlugins
<1>. QED
  BY <1>1, <1>4, <1>5, <1>6, <1>7

\* A file that is handled is gone, or in the new record.
LEMMA HandlesStep ==
  ASSUME FilesTypeOK, OwnInv, NEW x \in Path, Handles(x)
  PROVE  OwnInv'
<1>0. /\ UNCHANGED <<rev, block, ledger, cut, who, round, step>>
      /\ step \in {"skills", "claude"} /\ Busy /\ remaining' = remaining \ {x}
      /\ Copies(x) \/ Removes(x) \/ Preserves(x)
  BY DEF Handles, Busy
<1> USE <1>0 DEF OwnInv
<1>1. LedgerIsOwn' /\ StaleHasCause'
  BY DEF LedgerIsOwn, StaleHasCause
<1>2. who \in Contributor /\ Current \in Written /\ Current.by = who /\ rev[who] # 0
  BY CurrentFacts DEF FilesTypeOK, GotIsCurrent
<1>3. got'.block = got.block /\ \A z \in Path \ {x} : got'.files[z] = got.files[z]
  <2>1. got \in Contribution
    BY DEF FilesTypeOK
  <2>2. [got EXCEPT !.files[x] = Current].files = [got.files EXCEPT ![x] = Current]
        /\ [got EXCEPT !.files[x] = Current].block = got.block
    BY <1>2, <2>1, RecordFile
  <2>3. got.files \in [Path -> {None} \cup Written]
    BY <2>1, RecordFacts
  <2>. QED
    BY <2>2, <2>3 DEF Copies, Removes, Preserves
<1>4. Copies(x) => got'.files[x] = Current
  <2>1. got \in Contribution
    BY DEF FilesTypeOK
  <2>. QED
    BY <1>2, <2>1, RecordFile, RecordFacts DEF Copies
<1>5. \A z \in Path \ {x} : disk'[z] = disk[z]
  BY DEF FilesTypeOK, Copies, Removes, Preserves
<1>6. Copies(x) => disk'[x] = Current
  BY DEF FilesTypeOK, Copies
<1>7. Removes(x) => disk'[x] = None /\ got' = got
  BY DEF FilesTypeOK, Removes
<1>8. \A q \in Contributor \ {who} : disk'[x].by = q => disk'[x] = disk[x]
  BY <1>2, <1>6, <1>7, TextFacts DEF Preserves
<1>9. GotIsCurrent'
  <2>1. got'.files[x] \in {None, Current}
    BY <1>4, <1>7 DEF Preserves, GotIsCurrent
  <2>. QED
    BY <1>3, <2>1 DEF GotIsCurrent, Busy, Current, LivePlugins
<1>10. DiskIsRecorded'
  BY <1>5, <1>8 DEF DiskIsRecorded, Settled, Busy
<1>11. InstallIsRecorded'
  <2>1. who \notin cut /\ disk'[x].by = who => disk'[x] = got'.files[x]
    <3>1. CASE Copies(x)
      BY <3>1, <1>4, <1>6
    <3>2. CASE Removes(x)
      BY <3>2, <1>2, <1>7, TextFacts
    <3>3. CASE Preserves(x)
      BY <3>3, <1>2, TextFacts DEF Preserves, MayWrite, InstallIsRecorded
    <3>. QED
      BY <3>1, <3>2, <3>3
  <2>2. \A z \in Path \ {x} : Awaits(z) => Awaits(z)'
    BY DEF Awaits
  <2>3. who \notin cut => \A z \in Path \ {x} : disk'[z].by = who =>
           disk'[z] = got'.files[z] \/ (disk'[z] = Previous'.files[z] /\ Awaits(z)')
    BY <1>3, <1>5, <2>2 DEF InstallIsRecorded, Previous
  <2>4. who \notin cut /\ block'[who].by = who => step \notin {"memory", "append"} /\ block'[who] = got'.block
    BY <1>3 DEF InstallIsRecorded
  <2>. QED
    BY <2>1, <2>3, <2>4 DEF InstallIsRecorded
<1>12. RoundIsFresh'
  BY <1>5, <1>8 DEF RoundIsFresh, Fresh, Settled, Busy, LivePlugins
<1>. QED
  BY <1>1, <1>9, <1>10, <1>11, <1>12

\* The new record takes the place of the old one when nothing is left to handle.
LEMMA PersistsStep ==
  ASSUME FilesTypeOK, OwnInv, Persists
  PROVE  OwnInv'
<1>0. /\ UNCHANGED <<rev, disk, block, cut, who, round>>
      /\ step = "persist" /\ step' = "next" /\ Busy
      /\ ledger' = [ledger EXCEPT ![who] = got]
  BY DEF Persists, Busy
<1> USE <1>0 DEF OwnInv
<1>1. /\ who \in Contributor /\ \A q \in Contributor \ {who} : ledger'[q] = ledger[q]
      /\ ledger'[who] = got /\ rev[who] # 0 /\ Current.by = who
  BY CurrentFacts DEF FilesTypeOK, GotIsCurrent
<1>2. LedgerIsOwn'
  BY <1>1 DEF LedgerIsOwn, GotIsCurrent
<1>3. GotIsCurrent' /\ StaleHasCause' /\ InstallIsRecorded'
  BY DEF GotIsCurrent, Busy, StaleHasCause, InstallIsRecorded, LivePlugins
<1>4. who \notin cut => /\ \A z \in Path : disk[z].by = who => disk[z] = got.files[z]
                        /\ block[who].by = who => block[who] = got.block
  BY DEF InstallIsRecorded, Awaits
<1>5. DiskIsRecorded'
  <2>1. \A q \in Contributor \ cut : q # who =>
          /\ \A z \in Path : disk[z].by = q => disk[z] = ledger'[q].files[z]
          /\ block[q].by = q => block[q] = ledger'[q].block
    BY <1>1 DEF DiskIsRecorded, Settled
  <2>. QED
    BY <1>1, <1>4, <2>1 DEF DiskIsRecorded
<1>6. who \notin cut => Fresh(who)
  <2>1. /\ \A z \in Path : got.files[z] \in {None, Of(who, rev[who])}
        /\ got.block \in {None, Of(who, rev[who])} /\ None.by # who
    BY <1>1, TextFacts DEF GotIsCurrent, Current
  <2>. QED
    BY <1>4, <2>1 DEF Fresh
<1>7. RoundIsFresh'
  BY <1>6 DEF RoundIsFresh, Fresh, Settled, Busy, LivePlugins
<1>. QED
  BY <1>2, <1>3, <1>5, <1>7

\* An installation that is cut short.
LEMMA OwnCutStep ==
  ASSUME FilesTypeOK, OwnInv, PrivilegedAborts \/ Fails \/ InstallKilled
  PROVE  OwnInv'
<1>0. /\ UNCHANGED <<rev, who>> /\ step # "idle" /\ step' \in {"idle", "next"} /\ round' \in {{}, round}
      /\ (step' = "idle" => round' = {} /\ calm' = 1) /\ cut' = IF step = "next" THEN cut ELSE cut \cup {who}
  BY DEF PrivilegedAborts, Fails, InstallKilled
<1>1. who \in Contributor
  BY DEF FilesTypeOK
<1> USE <1>0, <1>1 DEF OwnInv
<1>2. \A q \in Contributor \ cut' : /\ ledger'[q] = ledger[q]
                                    /\ \A z \in Path : disk'[z].by = q => disk'[z] = disk[z]
                                    /\ block'[q].by = q => block'[q] = block[q]
                                    /\ Settled(q)
  <2>1. \A q \in Contributor \ cut' : ledger'[q] = ledger[q] /\ Settled(q)
    BY DEF PrivilegedAborts, Fails, InstallKilled, FilesTypeOK, Settled, Busy
  <2>2. CASE PrivilegedAborts \/ Fails
    BY <2>1, <2>2 DEF PrivilegedAborts, Fails
  <2>3. CASE InstallKilled
    <3>1. \A q \in Contributor, z \in Path : disk'[z].by = q => disk'[z] = disk[z]
      BY <2>3, TextFacts DEF InstallKilled, FilesTypeOK
    <3>2. \A q \in Contributor : block'[q].by = q => block'[q] = block[q]
      BY <2>3, TextFacts DEF InstallKilled, FilesTypeOK
    <3>. QED
      BY <2>1, <3>1, <3>2
  <2>. QED
    BY <2>2, <2>3
<1>3. LedgerIsOwn'
  <2>1. UNCHANGED ledger \/ (ledger' = [ledger EXCEPT ![who] = got] /\ step = "setup")
    BY DEF PrivilegedAborts, Fails, InstallKilled
  <2>2. step = "setup" => /\ \A z \in Path : got.files[z] # None => got.files[z].by = who
                          /\ got.block # None => got.block.by = who
    BY CurrentFacts DEF GotIsCurrent, Busy
  <2>3. \A q \in Contributor : ledger'[q] = ledger[q] \/ (q = who /\ ledger'[q] = got /\ step = "setup")
    BY <2>1 DEF FilesTypeOK
  <2>. QED
    BY <2>2, <2>3 DEF LedgerIsOwn
<1>4. GotIsCurrent' /\ InstallIsRecorded' /\ StaleHasCause'
  BY DEF GotIsCurrent, Busy, InstallIsRecorded, StaleHasCause, LivePlugins
<1>5. cut \subseteq cut'
  OBVIOUS
<1>6. DiskIsRecorded'
  <2>1. \A q \in Contributor \ cut' :
          /\ \A z \in Path : disk[z].by = q => disk[z] = ledger[q].files[z]
          /\ block[q].by = q => block[q] = ledger[q].block
    BY <1>2, <1>5 DEF DiskIsRecorded
  <2>. QED
    BY <1>2, <2>1 DEF DiskIsRecorded
<1>7. RoundIsFresh'
  <2>1. step' # "idle" => round' = round
    BY DEF PrivilegedAborts, Fails, InstallKilled
  <2>2. step' # "idle" => \A q \in LivePlugins \ cut' : q \notin round' => Fresh(q)
    BY <1>2, <1>5, <2>1 DEF RoundIsFresh, LivePlugins
  <2>3. \A q \in LivePlugins \ cut' : Fresh(q) => Fresh(q)'
    BY <1>2 DEF Fresh, LivePlugins
  <2>. QED
    BY <2>2, <2>3 DEF RoundIsFresh, LivePlugins
<1>. QED
  BY <1>3, <1>4, <1>6, <1>7

\* A removal takes out all that its record names, which is all there is.
LEMMA UninstallsStep ==
  ASSUME FilesTypeOK, OwnInv, NEW p \in Contributor, Uninstalls(p)
  PROVE  /\ OwnInv'
         /\ p \notin cut => (\A z \in Path : disk'[z].by # p) /\ block'[p].by # p
<1>0. /\ UNCHANGED <<step, who, round, remaining, got, cut>>
      /\ step = "idle" /\ calm' = 1
      /\ block' = [block EXCEPT ![p] = BlockLeft(p, ledger[p])]
      /\ disk' = [x \in Path |-> FileLeft(x, ledger[p])]
      /\ ledger' = [ledger EXCEPT ![p] = NoContribution]
  BY DEF Uninstalls, Disturbs, plugin
<1> USE <1>0 DEF OwnInv
<1>1. /\ \A q \in Contributor \ {p} : ledger'[q] = ledger[q] /\ block'[q] = block[q]
      /\ ledger'[p] = NoContribution /\ block'[p] = BlockLeft(p, ledger[p])
      /\ \A z \in Path : disk'[z] = FileLeft(z, ledger[p])
  BY DEF FilesTypeOK
<1>2. \A q \in Contributor, z \in Path : disk'[z].by = q => disk'[z] = disk[z]
  BY <1>1, TextFacts DEF FileLeft
<1>3. p \notin cut => (\A z \in Path : disk'[z].by # p) /\ block'[p].by # p
  BY <1>1, TextFacts DEF DiskIsRecorded, Settled, Busy, FileLeft, BlockLeft
<1>4. LedgerIsOwn'
  BY <1>1, EmptyRecord DEF LedgerIsOwn
<1>5. GotIsCurrent' /\ InstallIsRecorded' /\ StaleHasCause' /\ RoundIsFresh'
  BY DEF GotIsCurrent, Busy, InstallIsRecorded, StaleHasCause, RoundIsFresh, LivePlugins
<1>6. DiskIsRecorded'
  BY <1>1, <1>2, <1>3 DEF DiskIsRecorded, Settled, Busy
<1>. QED
  BY <1>3, <1>4, <1>5, <1>6

\* Another revision arrives between two rounds.
LEMMA ArrivesStep ==
  ASSUME FilesTypeOK, OwnInv, NEW p \in Contributor, NEW r \in 0..MaxRev, Arrives(p, r)
  PROVE  OwnInv'
<1>0. /\ UNCHANGED <<disk, block, ledger, step, who, round, remaining, got, cut>>
      /\ step = "idle" /\ calm' = 1
  BY DEF Arrives, Disturbs, plugin
<1> USE <1>0 DEF OwnInv
<1>1. LedgerIsOwn' /\ DiskIsRecorded'
  BY DEF LedgerIsOwn, DiskIsRecorded, Settled, Busy
<1>2. GotIsCurrent' /\ InstallIsRecorded' /\ StaleHasCause' /\ RoundIsFresh'
  BY DEF GotIsCurrent, Busy, InstallIsRecorded, StaleHasCause, RoundIsFresh, LivePlugins
<1>. QED
  BY <1>1, <1>2

\* Every step keeps what the records say of the files.
LEMMA OwnInvStep ==
  ASSUME FilesTypeOK, OwnInv, FilesNext
  PROVE  OwnInv'
BY OwnControlStep, OwnUserStep, InstallsStep, RemovesBlockStep, AppendsBlockStep, HandlesStep,
   PersistsStep, OwnCutStep, UninstallsStep, ArrivesStep DEF FilesNext

\* A step that starts the count again.
LEMMA CountAgainStep ==
  ASSUME FilesTypeOK, calm' = 0 \/ (calm' = 1 /\ step' = "idle")
  PROVE  HandlerInv'
BY DEF HandlerInv, FileIsRepaired, RecordsSettle, HandlersSettle

\* The steps that start the count again.
LEMMA CountsAgain ==
  ASSUME \/ PrivilegedAborts \/ Fails \/ InstallKilled \/ UserEditsSettings
         \/ \E p \in Contributor : \/ Uninstalls(p) \/ UserEditsBlock(p)
                                  \/ \E r \in 0..MaxRev : Arrives(p, r)
         \/ \E x \in Path : UserWrites(x) \/ UserDeletes(x)
  PROVE  calm' = 0 \/ (calm' = 1 /\ step' = "idle")
BY DEF PrivilegedAborts, Fails, InstallKilled, UserEditsSettings, Uninstalls, UserEditsBlock, Arrives,
       UserWrites, UserDeletes, Disturbs, plugin

\* The steps of an installation that leave the settings and the records alone.
LEMMA HandlerQuietStep ==
  ASSUME FilesTypeOK, HandlerInv,
         \/ RemovesBlock \/ AppendsBlock \/ SkillsDone \/ ClaudeDone
         \/ \E ok \in BOOLEAN : SetupEnds(ok)
         \/ \E x \in Path : Handles(x)
  PROVE  HandlerInv'
<1>1. /\ UNCHANGED <<rev, ledger, hooks, valid, calm, who, round>>
      /\ Busy /\ Busy' /\ step # "idle" /\ step' # "idle" /\ step' # "persist"
  BY DEF RemovesBlock, AppendsBlock, SkillsDone, ClaudeDone, SetupEnds, Handles, settings, Busy
<1>2. FileIsRepaired'
  BY <1>1 DEF HandlerInv, FileIsRepaired, LivePlugins
<1>3. RecordsSettle'
  BY <1>1 DEF HandlerInv, RecordsSettle, Contributed, Settled, LivePlugins
<1>4. HandlersSettle'
  BY <1>1 DEF HandlerInv, HandlersSettle, Contributed, Settled, LivePlugins
<1>. QED
  BY <1>2, <1>3, <1>4 DEF HandlerInv

\* A round begins with every live plugin still to install.
LEMMA HandlerBeginsStep ==
  ASSUME FilesTypeOK, HandlerInv, RoundBegins
  PROVE  HandlerInv'
<1>1. /\ UNCHANGED <<rev, ledger, hooks, valid, calm>>
      /\ step = "idle" /\ step' = "next" /\ round' = LivePlugins
  BY DEF RoundBegins, settings, LivePlugins
<1>2. FileIsRepaired'
  BY <1>1 DEF HandlerInv, FileIsRepaired, LivePlugins
<1>3. RecordsSettle'
  BY <1>1 DEF HandlerInv, RecordsSettle, Contributed, LivePlugins
<1>4. HandlersSettle'
  BY <1>1 DEF HandlerInv, HandlersSettle, Contributed, LivePlugins
<1>. QED
  BY <1>2, <1>3, <1>4 DEF HandlerInv

\* An installation renders its server, and repairs the file.
LEMMA HandlerInstallsStep ==
  ASSUME FilesTypeOK, OwnInv, HandlerInv, NEW p \in Contributor, Installs(p)
  PROVE  HandlerInv'
<1>1. /\ UNCHANGED <<rev, ledger, calm>> /\ who' = p /\ round' = round \ {p} /\ p \in round
      /\ step = "next" /\ step' = "memory"
  BY DEF Installs
<1>2. valid => UNCHANGED <<hooks, valid>>
  BY DEF Installs, RegistersServers, settings
<1>3. ~valid' => ~valid /\ p \notin Mcp
  BY DEF Installs, RegistersServers, Servers, settings
<1>4. valid' /\ calm >= 2 => valid
  <2>1. ~valid /\ valid' => p \in Mcp
    BY DEF Installs, RegistersServers, Servers, settings
  <2>2. p \in LivePlugins
    BY <1>1 DEF OwnInv, GotIsCurrent
  <2>. QED
    BY <2>1, <2>2 DEF HandlerInv, FileIsRepaired
<1>5. FileIsRepaired'
  BY <1>1, <1>3 DEF HandlerInv, FileIsRepaired, LivePlugins
<1>6. \A q \in LivePlugins' : q \notin round' /\ Settled(q)' => q \in LivePlugins /\ q \notin round /\ Settled(q)
  BY <1>1 DEF Settled, Busy, LivePlugins
<1>7. RecordsSettle'
  <2>1. calm \in 0..4
    BY DEF FilesTypeOK
  <2>2. \A q : Contributed(q)' = Contributed(q)
    BY <1>1 DEF Contributed
  <2>3. LivePlugins' = LivePlugins
    BY <1>1 DEF LivePlugins
  <2>. QED
    BY <1>1, <1>4, <1>6, <2>1, <2>2, <2>3 DEF HandlerInv, RecordsSettle
<1>8. HandlersSettle'
  BY <1>1, <1>2, <1>4, <1>6 DEF HandlerInv, HandlersSettle, Contributed, LivePlugins
<1>. QED
  BY <1>5, <1>7, <1>8 DEF HandlerInv

\* What a merge takes out in a settled round it puts back.
LEMMA HandlerMergesStep ==
  ASSUME FilesTypeOK, OwnInv, HandlerInv, Merges
  PROVE  HandlerInv'
<1>1. /\ UNCHANGED <<rev, ledger, valid, calm, who, round>>
      /\ step = "merge" /\ step' = "persist" /\ Busy /\ Busy'
  BY DEF Merges, Busy
<1>2. who \in LivePlugins
  BY <1>1 DEF OwnInv, GotIsCurrent, LivePlugins, FilesTypeOK
<1>3. valid => hooks' = (hooks \ ledger[who].hooks) \cup Contributed(who)
  BY DEF Merges, Merge, HooksLeft, Previous, Contributed
<1>4. valid => got'.hooks \subseteq Contributed(who)
  <2>1. got \in Contribution
    BY DEF FilesTypeOK
  <2>2. valid => \E h : h \subseteq Contributed(who) /\ got' = [got EXCEPT !.hooks = h]
    BY DEF Merges, Merge, Contributed
  <2>. QED
    BY <2>1, <2>2 DEF Contribution
<1>5. FileIsRepaired'
  BY <1>1 DEF HandlerInv, FileIsRepaired, LivePlugins
<1>6. RecordsSettle'
  BY <1>1, <1>4 DEF HandlerInv, RecordsSettle, Contributed, Settled, LivePlugins
<1>7. valid /\ calm \in {3, 4} => hooks \subseteq hooks' /\ Contributed(who) \subseteq hooks'
  <2>1. valid /\ calm \in {3, 4} => ledger[who].hooks \subseteq Contributed(who)
    BY <1>1, <1>2 DEF HandlerInv, RecordsSettle
  <2>. QED
    BY <1>3, <2>1
<1>8. HandlersSettle'
  BY <1>1, <1>7 DEF HandlerInv, HandlersSettle, Contributed, Settled, LivePlugins
<1>. QED
  BY <1>5, <1>6, <1>8 DEF HandlerInv

\* The record of a merge names only what its plugin contributes.
LEMMA HandlerPersistsStep ==
  ASSUME FilesTypeOK, OwnInv, HandlerInv, Persists
  PROVE  HandlerInv'
<1>1. /\ UNCHANGED <<rev, hooks, valid, calm, who, round>>
      /\ step = "persist" /\ step' = "next" /\ Busy /\ ledger' = [ledger EXCEPT ![who] = got]
  BY DEF Persists, settings, Busy
<1>2. \A q \in LivePlugins : (q # who /\ ledger'[q] = ledger[q] /\ Settled(q)) \/ (q = who /\ ledger'[q] = got)
  BY <1>1 DEF FilesTypeOK, LivePlugins, Settled
<1>3. FileIsRepaired'
  BY <1>1 DEF HandlerInv, FileIsRepaired, LivePlugins
<1>4. RecordsSettle'
  <2>1. calm \in 0..4 /\ LivePlugins' = LivePlugins /\ \A q : Contributed(q)' = Contributed(q)
    BY <1>1 DEF FilesTypeOK, LivePlugins, Contributed
  <2>. QED
    BY <1>1, <1>2, <2>1 DEF HandlerInv, RecordsSettle
<1>5. HandlersSettle'
  BY <1>1, <1>2 DEF HandlerInv, HandlersSettle, Contributed, LivePlugins
<1>. QED
  BY <1>3, <1>4, <1>5 DEF HandlerInv

\* A round that ends has installed every live plugin.
LEMMA HandlerEndsStep ==
  ASSUME FilesTypeOK, HandlerInv, RoundEnds
  PROVE  HandlerInv'
<1>1. /\ UNCHANGED <<rev, hooks, valid, ledger>> /\ calm \in 0..4
      /\ step = "next" /\ step' = "idle" /\ round = {} /\ calm' = IF calm < 4 THEN calm + 1 ELSE calm
  BY DEF RoundEnds, settings, FilesTypeOK
<1>2. \A q : Settled(q)
  BY <1>1 DEF Settled, Busy
<1>3. LivePlugins' = LivePlugins /\ \A q : Contributed(q)' = Contributed(q)
  BY <1>1 DEF LivePlugins, Contributed
<1>4. FileIsRepaired'
  BY <1>1, <1>3 DEF HandlerInv, FileIsRepaired
<1>5. RecordsSettle'
  BY <1>1, <1>2, <1>3 DEF HandlerInv, RecordsSettle
<1>6. HandlersSettle'
  BY <1>1, <1>2, <1>3 DEF HandlerInv, HandlersSettle
<1>. QED
  BY <1>4, <1>5, <1>6 DEF HandlerInv

\* The invariant of the files holds at the start ...
LEMMA FilesInvInit ==
  FilesInit => FilesInv
<1> SUFFICES ASSUME FilesInit PROVE FilesInv
  OBVIOUS
<1> USE FilesAssumption DEF FilesInit
<1>1. FilesTypeOK
  BY TextFacts, EmptyRecord DEF FilesTypeOK
<1>2. OwnInv
  <2>1. LedgerIsOwn /\ GotIsCurrent /\ InstallIsRecorded /\ RoundIsFresh /\ StaleHasCause
    BY EmptyRecord DEF LedgerIsOwn, GotIsCurrent, Busy, InstallIsRecorded, RoundIsFresh, StaleHasCause
  <2>2. DiskIsRecorded
    BY TextFacts DEF DiskIsRecorded
  <2>. QED
    BY <2>1, <2>2 DEF OwnInv
<1>3. HandlerInv
  BY DEF HandlerInv, FileIsRepaired, RecordsSettle, HandlersSettle
<1>. QED
  BY <1>1, <1>2, <1>3 DEF FilesInv

\* ... and every step of a round, of a removal or of the user keeps it.
LEMMA FilesInvStep ==
  FilesInv /\ FilesNext => FilesInv'
<1> SUFFICES ASSUME FilesInv, FilesNext PROVE FilesInv'
  OBVIOUS
<1> USE DEF FilesInv
<1>1. FilesTypeOK' /\ OwnInv'
  BY FilesTypeStep, OwnInvStep DEF OwnInv
<1>2. HandlerInv'
  BY CountAgainStep, CountsAgain, HandlerQuietStep, HandlerBeginsStep, HandlerInstallsStep,
     HandlerMergesStep, HandlerPersistsStep, HandlerEndsStep DEF FilesNext
<1>. QED
  BY <1>1, <1>2

\* What settles is what HooksSettle says.
LEMMA SettledHooks ==
  FilesInv => HooksSettle /\ StaleHasCause
BY DEF FilesInv, HandlerInv, HandlersSettle, OwnInv, HooksSettle, LivePlugins, Contributed

\* A file that is changed is the plugin's that is installed, or removed.
LEMMA OnlyItsOwnStep ==
  ASSUME FilesInv, FilesNext, NEW x \in Path, disk[x] # None, disk'[x] # disk[x]
  PROVE  \/ UserWrites(x) \/ UserDeletes(x)
         \/ step # "idle" /\ disk[x].by = who
         \/ step = "idle" /\ \E p \in Contributor : disk[x].by = p /\ Uninstalls(p)
<1> USE DEF FilesInv, FilesTypeOK
<1>0. who \in Contributor
  OBVIOUS
<1>1. MayWrite(x) => disk[x].by = who
  BY <1>0 DEF MayWrite, Previous, OwnInv, LedgerIsOwn
<1>2. ASSUME NEW z \in Path, UserWrites(z) \/ UserDeletes(z) PROVE z = x
  BY <1>2 DEF UserWrites, UserDeletes
<1>3. ASSUME NEW z \in Path, Handles(z) PROVE step # "idle" /\ disk[x].by = who
  <2>1. z = x /\ MayWrite(x)
    BY <1>3 DEF Handles, Copies, Removes, Preserves
  <2>. QED
    BY <1>1, <1>3, <2>1 DEF Handles
<1>4. CASE InstallKilled
  <2>1. step # "idle" /\ MayWrite(x)
    BY <1>4 DEF InstallKilled
  <2>. QED
    BY <1>1, <2>1
<1>5. ASSUME NEW p \in Contributor, Uninstalls(p) PROVE step = "idle" /\ disk[x].by = p
  <2>1. disk'[x] = FileLeft(x, ledger[p]) /\ step = "idle"
    BY <1>5 DEF Uninstalls
  <2>. QED
    BY <2>1 DEF FileLeft, OwnInv, LedgerIsOwn
<1>6. \/ InstallKilled \/ \E p \in Contributor : Uninstalls(p)
      \/ \E z \in Path : Handles(z) \/ UserWrites(z) \/ UserDeletes(z)
  BY DEF FilesNext, RoundBegins, RemovesBlock, AppendsBlock, SkillsDone, PrivilegedAborts, ClaudeDone,
         Merges, Persists, Fails, RoundEnds, SetupEnds, Installs, UserEditsBlock, Arrives, UserEditsSettings
<1>. QED
  BY <1>2, <1>3, <1>4, <1>5, <1>6

\* Only a removal empties a record, or an installation that found nothing of
\* its own to write.
LEMMA CleanUninstallStep ==
  ASSUME FilesInv, FilesNext, NEW p \in Contributor \ cut,
         step = "idle", ledger[p] # NoContribution, ledger'[p] = NoContribution
  PROVE  (\A x \in Path : disk'[x].by # p) /\ block'[p].by # p
<1> USE DEF FilesInv, FilesTypeOK
<1>1. PICK q \in Contributor : Uninstalls(q)
  BY DEF FilesNext, RoundBegins, RemovesBlock, AppendsBlock, SkillsDone, PrivilegedAborts, ClaudeDone,
         Merges, Persists, Fails, RoundEnds, SetupEnds, Installs, UserEditsBlock, Arrives, UserEditsSettings,
         InstallKilled, Handles, UserWrites, UserDeletes
<1>2. q = p
  BY <1>1 DEF Uninstalls
<1>. QED
  BY <1>1, <1>2, UninstallsStep

(***************************************************************************)
(* The parts together.                                                     *)
(***************************************************************************)

ProvInv == BootInv /\ InstallInv /\ FilesInv /\ focus \in {"life", "trees", "files"}

\* The life of the process stands still while another part takes the steps ...
LEMMA BootStutters == BootInv /\ UNCHANGED bootVars => BootInv'
<1> SUFFICES ASSUME BootInv, UNCHANGED bootVars PROVE BootInv'
  OBVIOUS
<1>0. /\ UNCHANGED <<process, phase, ready>> /\ UNCHANGED <<attempt, registered, minted, token, report, lost>>
      /\ UNCHANGED <<delivered, markers, greeting, greeted, unmarked, places>>
      /\ UNCHANGED <<bound, poller, message, slow>>
      /\ UNCHANGED <<offered, staged, conf, marker, left, dirty>>
      /\ UNCHANGED <<kernel, usable, others, legacy, base, last, migrated, failed, early>>
      /\ UNCHANGED <<tree, record, plan, note, due>>
  BY DEF bootVars, net, prompt, poll, relay, mailbox, wake
<1>1. BootTypeOK'
  <2>1. UNCHANGED <<trouble, boots, preparing>>
    BY <1>0 DEF process
  <2>. QED
    BY <1>0, <2>1 DEF BootInv, BootTypeOK, RelayTypeOK, MailboxTypeOK, WakeTypeOK
<1>2. InOrder' /\ RelayVouches' /\ WholeConfig'
  BY <1>0 DEF process, BootInv, InOrder, RelayVouches, WholeConfig
<1>3. CopyHasCause' /\ LatestIsServed'
  BY <1>0 DEF process, BootInv, CopyHasCause, LatestIsServed, At, Resolve, Newest
<1>4. DueIsPlanned' /\ NeverSilent'
  BY <1>0 DEF process, BootInv, DueIsPlanned, NeverSilent
<1>5. GreetingIsMarked' /\ PromptOnce'
  BY <1>0 DEF process, BootInv, GreetingIsMarked, PromptOnce, Pending
<1>6. TokenHasCause' /\ ReportIsAuthorized' /\ PollerHasCause' /\ DropHasCause'
  BY <1>0 DEF process, BootInv, TokenHasCause, ReportIsAuthorized, PollerHasCause, DropHasCause
<1>. QED
  BY <1>1, <1>2, <1>3, <1>4, <1>5, <1>6 DEF BootInv

\* ... and so do the trees ...
LEMMA TreesStutter == InstallInv /\ UNCHANGED installVars => InstallInv'
BY DEF installVars, InstallInv, InstallTypeOK, PassKeeps, StagingIsFetched, StagingIsWhole, MarkerIsTrue,
       MarkerIsDeclared, KeepsInstalled, OnlyWholeTrees, DropsAreShared, DeDeclaredGoes, Installed, Dirs

\* ... and the files.
LEMMA FilesStutter == FilesInv /\ UNCHANGED filesVars => FilesInv'
<1> SUFFICES ASSUME FilesInv, UNCHANGED filesVars PROVE FilesInv'
  OBVIOUS
<1>0. UNCHANGED <<rev, disk, block, hooks, servers, valid, ledger, step, who, round, remaining, got,
                  calm, cut, events>>
  BY DEF filesVars, settings, plugin
<1>1. FilesTypeOK'
  BY <1>0 DEF FilesInv, FilesTypeOK
<1>2. LedgerIsOwn' /\ GotIsCurrent' /\ StaleHasCause'
  BY <1>0 DEF FilesInv, OwnInv, LedgerIsOwn, GotIsCurrent, StaleHasCause, LivePlugins, Busy, Current
<1>3. DiskIsRecorded' /\ InstallIsRecorded' /\ RoundIsFresh'
  BY <1>0 DEF FilesInv, OwnInv, DiskIsRecorded, InstallIsRecorded, RoundIsFresh, Settled, Busy, Awaits,
              Fresh, Previous, LivePlugins
<1>4. HandlerInv'
  BY <1>0 DEF FilesInv, HandlerInv, FileIsRepaired, RecordsSettle, HandlersSettle, Contributed, LivePlugins,
              Settled, Busy
<1>. QED
  BY <1>1, <1>2, <1>3, <1>4 DEF FilesInv, OwnInv

\* The invariants of the parts hold together from the start ...
LEMMA ProvInvInit == Init => ProvInv
BY BootInvInit, InstallInvInit, FilesInvInit DEF Init, ProvInv

\* ... and whichever part takes the next step keeps its own.
LEMMA ProvInvStep == ProvInv /\ [Next]_vars => ProvInv'
<1> SUFFICES ASSUME ProvInv, [Next]_vars PROVE ProvInv'
  OBVIOUS
<1>1. UNCHANGED focus
  BY DEF Next, vars
<1>2. BootNext \/ UNCHANGED bootVars
  BY DEF Next, vars
<1>3. InstallNext \/ UNCHANGED installVars
  BY DEF Next, vars
<1>4. FilesNext \/ UNCHANGED filesVars
  BY DEF Next, vars
<1>. QED
  BY <1>1, <1>2, <1>3, <1>4, BootInvStep, InstallInvStep, FilesInvStep,
     BootStutters, TreesStutter, FilesStutter DEF ProvInv

\* The inductive invariant holds in every reachable state.
LEMMA ProvInductive == Spec => []ProvInv
BY ProvInvInit, ProvInvStep, PTL DEF Spec

\* The state has the declared types.
THEOREM ProvisioningTyped == Spec => []TypeOK
<1>1. ProvInv => TypeOK
  BY DEF ProvInv, BootInv, InstallInv, FilesInv, TypeOK
<1>. QED
  BY <1>1, ProvInductive, PTL

\* A boot goes on only with every file of the bundle its environment names,
\* whatever was unpacked, cut short or acknowledged before.
THEOREM ConfigIsWhole == Spec => []WholeConfig
<1>1. ProvInv => WholeConfig
  BY DEF ProvInv, BootInv
<1>. QED
  BY <1>1, ProvInductive, PTL

\* The workspace reads the state that was written last, through opt-outs,
\* unwritable volumes and migrations that fail half way.
THEOREM LatestServed == Spec => []LatestIsServed
<1>1. ProvInv => LatestIsServed
  BY DEF ProvInv, BootInv
<1>. QED
  BY <1>1, ProvInductive, PTL

\* Over any number of boots no new plugin is forgotten without a word, and the
\* first prompt is sent once.
THEOREM UserTold == Spec => []UserIsTold
<1>1. ProvInv => UserIsTold
  BY DEF ProvInv, BootInv, UserIsTold
<1>. QED
  BY <1>1, ProvInductive, PTL

\* The install report carries the token, and no polled message is dropped
\* before the listener is there.
THEOREM PlatformServed == Spec => []PlatformIsServed
<1>1. ProvInv => PlatformIsServed
  BY DEF ProvInv, BootInv, PlatformIsServed
<1>. QED
  BY <1>1, ProvInductive, PTL

\* No pass loses a declared plugin that was there when it began.
THEOREM InstalledKept == Spec => []KeepsInstalled
<1>1. ProvInv => KeepsInstalled
  BY DEF ProvInv, InstallInv
<1>. QED
  BY <1>1, ProvInductive, PTL

\* The plugins directory holds whole trees, of declared plugins.
THEOREM TreesDeclared == Spec => []TreeIsDeclared
<1>1. ProvInv => TreeIsDeclared
  BY DEF ProvInv, InstallInv, TreeIsDeclared
<1>. QED
  BY <1>1, ProvInductive, PTL

\* A pass that reports a promotion has made it, and no second pass swaps the
\* tree under the servers unless a source has moved.
THEOREM SwapsAreJust == Spec => SwapIsJust
<1>1. ProvInv /\ [Next]_vars =>
        [ stage' = "drop" /\ stage \in {"compare", "moved"} /\ swapped' =>
            \A n \in Installed : live'[n] = staging[n] ]_installVars
  <2> SUFFICES ASSUME ProvInv, [Next]_vars, ~(UNCHANGED installVars),
                      stage' = "drop", stage \in {"compare", "moved"}, swapped'
               PROVE  \A n \in Installed : live'[n] = staging[n]
    OBVIOUS
  <2>1. InstallInv /\ InstallNext
    BY DEF ProvInv, Next, vars
  <2>. QED
    BY <2>1, ReportStep
<1>2. ProvInv /\ [Next]_vars =>
        [ clean /\ Compare(TRUE) /\ stage' = "swap" =>
            \/ \E n \in Dirs(staging) : staging[n] # kept[n]
            \/ ~promoted.known /\ LiveOnly \cap Shared # {} ]_installVars
  BY SwapStep DEF ProvInv
<1>. QED
  BY <1>1, <1>2, ProvInductive, PTL DEF Spec, SwapIsJust, ReportIsTrue, NoNeedlessSwap

\* What a plugin leaves in place after a round is of its live revision.
THEOREM StaleExplained == Spec => []StaleHasCause
<1>1. ProvInv => StaleHasCause
  BY DEF ProvInv, FilesInv, OwnInv
<1>. QED
  BY <1>1, ProvInductive, PTL

\* After three undisturbed rounds every handler of every live plugin is there,
\* whatever they share and in whatever order they are installed.
THEOREM HooksSettled == Spec => []HooksSettle
<1>1. ProvInv => HooksSettle
  BY SettledHooks DEF ProvInv
<1>. QED
  BY <1>1, ProvInductive, PTL

\* An installation or a removal touches only what its own plugin wrote, and a
\* removal leaves nothing of it.
THEOREM FilesOwned == Spec => OwnsItsFiles
<1>1. ProvInv /\ [Next]_vars =>
        [ \A x \in Path : disk[x] # None /\ disk'[x] # disk[x] =>
            \/ UserWrites(x) \/ UserDeletes(x)
            \/ step # "idle" /\ disk[x].by = who
            \/ step = "idle" /\ \E p \in Contributor : disk[x].by = p /\ Uninstalls(p) ]_filesVars
  <2> SUFFICES ASSUME ProvInv, [Next]_vars, ~(UNCHANGED filesVars)
               PROVE  \A x \in Path : disk[x] # None /\ disk'[x] # disk[x] =>
                        \/ UserWrites(x) \/ UserDeletes(x)
                        \/ step # "idle" /\ disk[x].by = who
                        \/ step = "idle" /\ \E p \in Contributor : disk[x].by = p /\ Uninstalls(p)
    OBVIOUS
  <2>1. FilesInv /\ FilesNext
    BY DEF ProvInv, Next, vars
  <2>. QED
    BY <2>1, OnlyItsOwnStep
<1>2. ProvInv /\ [Next]_vars =>
        [ \A p \in Contributor \ cut :
            step = "idle" /\ ledger[p] # NoContribution /\ ledger'[p] = NoContribution =>
            /\ \A x \in Path : disk'[x].by # p
            /\ block'[p].by # p ]_filesVars
  <2> SUFFICES ASSUME ProvInv, [Next]_vars, ~(UNCHANGED filesVars)
               PROVE  \A p \in Contributor \ cut :
                        step = "idle" /\ ledger[p] # NoContribution /\ ledger'[p] = NoContribution =>
                        /\ \A x \in Path : disk'[x].by # p
                        /\ block'[p].by # p
    OBVIOUS
  <2>1. FilesInv /\ FilesNext
    BY DEF ProvInv, Next, vars
  <2>. QED
    BY <2>1, CleanUninstallStep
<1>. QED
  BY <1>1, <1>2, ProvInductive, PTL DEF Spec, OwnsItsFiles, OnlyItsOwn, CleanUninstall
=============================================================================
