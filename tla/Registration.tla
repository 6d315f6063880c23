----------------------------- MODULE Registration -----------------------------
(***************************************************************************)
(* Orchestrators register evidence in the database whose schema Migrations     *)
(* builds: the check of the ledger, the files on disk, the per-install secret  *)
(* that keys devices, and one transaction (READ COMMITTED) of upserts that     *)
(* other orchestrators' transactions may block.                               *)
(*                                                                         *)
(* A row is its unique key with one attribute: a device's and a location's     *)
(* none, an item's its device, a derivative's its last path.                  *)
(***************************************************************************)
EXTENDS Migrations

CONSTANTS
  Procs,            \* orchestrator processes
  Backups,          \* what a process may be given: decrypted backups as they lie on disk
  MaxRegistrations, \* bound: registrations begun
  MaxLosses,        \* bound: losses of the secret file, in a reinstall for instance
  None

\* sidecar: it verifies against its manifest.  A derivative is the content root
\* its marker names and what made it, or None where it is not complete.  The phone
\* is named by Info.plist, which is content like the rest.
ASSUME RegistrationAssumption ==
  /\ \A b \in Backups : {"content", "phone", "place", "sidecar", "decrypt", "ileapp", "crash"} = DOMAIN b
  /\ \A a, b \in Backups : a.content = b.content => a.phone = b.phone
  /\ {MaxRegistrations, MaxLosses} \subseteq Nat

VARIABLES
  rows,   \* committed rows: [key, val]
  events, \* committed evidence_events: [about, by], by the registration that wrote it
  secret, \* the device-key.secret file, or None
  proc,   \* process -> its registration
  begun,  \* registrations begun
  losses

regVars == <<rows, events, secret, proc, begun, losses>>
vars == <<migVars, regVars>>

NoTx == [locks |-> {}, new |-> {}, said |-> {}]
Idle == [pc |-> "idle", in |-> None, n |-> 0, key |-> None, device |-> None, tx |-> NoTx]
InTx == {"known", "device", "item", "raced", "location", "decrypted", "ileapp", "crash", "commit"}

\* Types; and only an open transaction holds rows back from the others.
RegTypeOK ==
  /\ \A row \in rows : DOMAIN row = {"key", "val"}
  /\ \A a, b \in rows : a.key = b.key => a = b
  /\ secret \in 0 .. MaxRegistrations \cup {None} /\ begun \in 0 .. MaxRegistrations
  /\ \A p \in Procs :
       /\ proc[p].pc \in InTx \cup {"idle", "verify", "link", "read", "done"}
       /\ proc[p].pc \notin InTx => proc[p].tx = NoTx
       /\ \A q \in Procs \ {p} : proc[p].tx.locks \cap proc[q].tx.locks = {}
TypeOK == MigTypeOK /\ RegTypeOK

Init ==
  /\ MigInit /\ rows = {} /\ events = {} /\ secret = None
  /\ proc = [p \in Procs |-> Idle] /\ begun = 0 /\ losses = 0

Goes(p, s) == proc' = [proc EXCEPT ![p] = s]
LeavesOpen(p) == Goes(p, [Idle EXCEPT !.tx = proc[p].tx]) \* slip: no ROLLBACK
Ends(p) == Goes(p, Idle)
At(p, pc) == proc[p].pc = pc
DbStays == UNCHANGED <<rows, events>>
Stays == DbStays /\ UNCHANGED <<secret, begun, losses>>

-------------------------------------------------------------------------------
(* Before the transaction. *)

\* migrationRefusal: refused where a migration is pending, or nothing on record.
Upgraded == ledger = Files
\* Bound: with the whole ledger there, migrate.py can change nothing any more.
QuietRunners == \A r \in Runners : runner[r].pc \in Ended
Start(p, b) ==
  /\ proc[p].pc \in {"idle", "done"} /\ begun < MaxRegistrations /\ begun' = begun + 1
  /\ booted = 0 /\ Upgraded /\ QuietRunners
  /\ Goes(p, [Idle EXCEPT !.pc = "verify", !.in = b, !.n = begun'])
  /\ DbStays /\ UNCHANGED <<secret, losses>>
Verify(p) ==
  /\ At(p, "verify") /\ Stays
  /\ IF proc[p].in.sidecar
     THEN Goes(p, [proc[p] EXCEPT !.pc = IF secret = None THEN "link" ELSE "read"])
     ELSE Ends(p)
\* The secret drawn is linked into place, unless another's is there by now.
Clobbers(n) == n \* slip: the staged secret is renamed into place
Linked(n) == IF secret = None THEN n ELSE secret
Link(p) ==
  /\ At(p, "link") /\ secret' = Linked(proc[p].n)
  /\ Goes(p, [proc[p] EXCEPT !.pc = "read"])
  /\ DbStays /\ UNCHANGED <<begun, losses>>
\* Each derivative must be of this evidence: the decrypt always, the others
\* where their marker is there.
OfTheEvidence(b) ==
  /\ b.decrypt # None /\ b.decrypt.root = b.content
  /\ \A m \in {b.ileapp, b.crash} \ {None} : m.root = b.content
Read(p) ==
  /\ At(p, "read") /\ Stays
  /\ IF secret # None /\ OfTheEvidence(proc[p].in)
     THEN Goes(p, [proc[p] EXCEPT !.pc = "known", !.key = <<proc[p].in.phone, secret>>])
     ELSE Ends(p)

-------------------------------------------------------------------------------
(* The transaction. *)

Row(key, val) == [key |-> key, val |-> val]
Seen(p) == {row \in rows : \A new \in proc[p].tx.new : new.key # row.key} \cup proc[p].tx.new
Find(p, key) == {row \in Seen(p) : row.key = key}
\* An insert waits while another open transaction has its key.
Waits(p, key) == \E q \in Procs \ {p} : key \in proc[q].tx.locks
Event(p, key) == [about |-> key, by |-> proc[p].n]

Puts(p, row, said, s) ==
  Goes(p, [s EXCEPT !.tx = [locks |-> @.locks \cup {row.key},
                            new |-> {old \in @.new : old.key # row.key} \cup {row},
                            said |-> @.said \cup said]])
\* ON CONFLICT DO UPDATE; an event where the row is new (xmax = 0).
Said(p, key) == IF Find(p, key) = {} THEN {Event(p, key)} ELSE {}
Upsert(p, key, val, said, next) ==
  /\ ~Waits(p, key) /\ Stays
  /\ Puts(p, Row(key, val), said, [proc[p] EXCEPT !.pc = next])

Content(p) == proc[p].in.content
ItemKey(p) == <<"item", Content(p)>>
LocationKey(p) == <<"location", Content(p), proc[p].in.place>>
DecryptKey(p) == <<"decrypted", Content(p), None, proc[p].in.decrypt.prov>>
IleappKeyAlone(p) == <<"ileapp_output", Content(p), None, proc[p].in.ileapp.prov>> \* slip: no parent
IleappKey(p) == <<"ileapp_output", Content(p), DecryptKey(p), proc[p].in.ileapp.prov>>
CrashKey(p) == <<"crash_reports", Content(p), None, proc[p].in.crash.prov>>

\* Evidence that is registered keeps its device.
Known(p) ==
  LET found == Find(p, ItemKey(p)) IN
  /\ At(p, "known") /\ Stays
  /\ IF found # {}
     THEN \E row \in found : Goes(p, [proc[p] EXCEPT !.pc = "location", !.device = row.val])
     ELSE Goes(p, [proc[p] EXCEPT !.pc = "device"])
Device(p) ==
  /\ At(p, "device")
  /\ Upsert(p, <<"device", proc[p].key>>, None, {}, "item")
\* ON CONFLICT DO NOTHING: the other registration has committed meanwhile.
Item(p) ==
  /\ At(p, "item") /\ ~Waits(p, ItemKey(p)) /\ Stays
  /\ IF Find(p, ItemKey(p)) = {}
     THEN Puts(p, Row(ItemKey(p), proc[p].key), {Event(p, ItemKey(p))},
               [proc[p] EXCEPT !.pc = "location", !.device = proc[p].key])
     ELSE Goes(p, [proc[p] EXCEPT !.pc = "raced"])
Raced(p) ==
  /\ At(p, "raced") /\ Stays
  /\ \E row \in Find(p, ItemKey(p)) :
       Goes(p, [proc[p] EXCEPT !.pc = "location", !.device = row.val])
Location(p) ==
  /\ At(p, "location")
  /\ Upsert(p, LocationKey(p), None, Said(p, LocationKey(p)), "decrypted")
Decrypted(p) ==
  /\ At(p, "decrypted")
  /\ Upsert(p, DecryptKey(p), proc[p].in.place, Said(p, DecryptKey(p)), "ileapp")
\* A derivative that is not complete is passed over.
Absent(p, marker, next) == marker = None /\ Stays /\ Goes(p, [proc[p] EXCEPT !.pc = next])
Ileapp(p) ==
  /\ At(p, "ileapp")
  /\ \/ Absent(p, proc[p].in.ileapp, "crash")
     \/ /\ proc[p].in.ileapp # None
        /\ Upsert(p, IleappKey(p), proc[p].in.place, Said(p, IleappKey(p)), "crash")
Crash(p) ==
  /\ At(p, "crash")
  /\ \/ Absent(p, proc[p].in.crash, "commit")
     \/ /\ proc[p].in.crash # None
        /\ Upsert(p, CrashKey(p), proc[p].in.place, Said(p, CrashKey(p)), "commit")
Commit(p) ==
  /\ At(p, "commit")
  /\ rows' = Seen(p) /\ events' = events \cup proc[p].tx.said
  /\ Goes(p, [proc[p] EXCEPT !.pc = "done", !.tx = NoTx])
  /\ UNCHANGED <<secret, begun, losses>>
\* Killed, disconnected or failed: the transaction is rolled back.
Fails(p) == proc[p].pc \notin {"idle", "done"} /\ Ends(p) /\ Stays

\* The secret goes, while nobody registers.
LoseSecret ==
  /\ losses < MaxLosses /\ losses' = losses + 1 /\ secret # None /\ secret' = None
  /\ \A p \in Procs : proc[p].pc \in {"idle", "done"}
  /\ DbStays /\ UNCHANGED <<proc, begun>>

Step(p) ==
  \/ Verify(p) \/ Link(p) \/ Read(p)
  \/ Known(p) \/ Device(p) \/ Item(p) \/ Raced(p) \/ Location(p) \/ Decrypted(p) \/ Ileapp(p)
  \/ Crash(p) \/ Commit(p)
RegNext ==
  \/ \E p \in Procs : (\E b \in Backups : Start(p, b)) \/ Step(p) \/ Fails(p)
  \/ LoseSecret

Next == (MigNext /\ UNCHANGED regVars) \/ (RegNext /\ UNCHANGED migVars)
Spec == Init /\ [][Next]_vars
\* A transaction under way goes on, once what it waits for lets it.
FairSpec == Spec /\ \A p \in Procs : WF_vars(Step(p) /\ UNCHANGED migVars)

-------------------------------------------------------------------------------
(* Properties. *)

Recorded(key) == {row \in rows : row.key = key}
Kinds(row) == row.key[1]

\* Nothing is registered in a schema that is not whole: the ledger the
\* orchestrator trusts instead of the schema does not mislead it ("a database
\* behind the code fails deep inside registration", main.ts).
NothingBeforeSchema == rows # {} => \A f \in Files : Whole(f)

\* The custody log tells each item, location and derivative once, by whichever
\* registration made it, and tells of nothing else.
EachToldOnce ==
  LET told == {row.key : row \in {r \in rows : Kinds(r) # "device"}} IN
  /\ {e.about : e \in events} = told
  /\ \A d, e \in events : d.about = e.about => d = e

\* What a registration hands to a run is in the database, whoever wrote it: the
\* item with this device, and derivatives of this item, of the kind and by the
\* tool the markers name, iLEAPP's made from this very decrypt.
HandedOverIsThere ==
  \A p \in Procs : proc[p].pc = "done" =>
    /\ Recorded(ItemKey(p)) = {Row(ItemKey(p), proc[p].device)}
    /\ Recorded(LocationKey(p)) # {} /\ Recorded(DecryptKey(p)) # {}
    /\ proc[p].in.ileapp # None =>
         \E row \in rows : /\ Kinds(row) = "ileapp_output" /\ row.key[2] = Content(p)
                           /\ row.key[3] = DecryptKey(p) /\ row.key[4] = proc[p].in.ileapp.prov
    /\ proc[p].in.crash # None => Recorded(CrashKey(p)) # {}

\* One phone is one device, and no device is left without evidence, for as long
\* as the secret is kept: racing first uses end with one secret ("exactly one
\* secret wins", loadDeviceSecret).
OneDevicePerPhone ==
  losses = 0 =>
    LET devices == {row \in rows : Kinds(row) = "device"} IN
    /\ \A a, b \in devices : a.key[2][1] = b.key[2][1] => a = b
    /\ \A d \in devices : \E row \in rows : Kinds(row) = "item" /\ row.val = d.key[2]

\* A registration is sound, however many run at once, on whatever schema and
\* wherever one stops: it has the whole schema, tells each thing once, and hands
\* over what is there.
RegistrationIsSound == TypeOK /\ NothingBeforeSchema /\ EachToldOnce /\ HandedOverIsThere

\* A registration under way ends: no two wait for each other's rows.
EveryRegistrationEnds == \A p \in Procs : At(p, "known") ~> proc[p].pc \in {"idle", "done"}
================================================================================
