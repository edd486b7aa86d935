-------------------------- MODULE PreferenceStore --------------------------
(***************************************************************************)
(* The remembered preferences of one shopper: the store with its fallback  *)
(* (src/app/memory/store.py), the commands that change it                  *)
(* (src/app/memory/commands.py) and their callers in                       *)
(* src/app/api/server.py and src/app/agent/main_agent.py.                  *)
(*                                                                         *)
(* A command reads the whole record, changes it and writes it back, with   *)
(* an await before each; nothing locks the record.  The primary store is   *)
(* Redis or PostgreSQL; outside production a store in memory stands in     *)
(* for each of its operations that fails.                                  *)
(***************************************************************************)
EXTENDS Integers, Sequences, FiniteSets

CONSTANTS
    Clients,            \* requests and research tasks that carry commands
    Values,             \* preference values (a field with its value)
    CommandLists        \* what one request may carry: sequences of [action, value]

MemoryCommands == [action : {"remember", "forget"}, value : Values]

ASSUME PreferenceAssumption == CommandLists \subseteq Seq(MemoryCommands)

VARIABLES
    production,
    primary,    \* the record in the primary store
    fallback,   \* the record in the memory of the process
    disclosed,  \* _fallback_reason is set: the status no longer says "durable"
    client,     \* client[p]: the commands p executes and the record it read
    expected,   \* history: the commands so far, applied one after the other
    raced       \* history: a record was written back after another write to it

preferenceVars == <<production, primary, fallback, disclosed, client, expected, raced>>

NoRequest == [pc |-> "idle", list |-> <<>>, read |-> {}, changed |-> FALSE]

-----------------------------------------------------------------------------
(* _update_record and execute_memory_commands on a record *)

UpdateReplaces(record, c) == IF c.action = "remember" THEN {c.value} ELSE record \ {c.value}
Update(record, c) ==
    IF c.action = "remember" THEN record \cup {c.value} ELSE record \ {c.value}

Updates(record, list) ==
    LET after[i \in 0 .. Len(list)] ==
            IF i = 0 THEN record ELSE Update(after[i - 1], list[i])
    IN  after[Len(list)]

-----------------------------------------------------------------------------
(* ResilientPreferenceStore: an operation on the primary, or instead of it *)

\* _fallback_or_raise
FallsBackSilently == ~production /\ UNCHANGED disclosed
FallsBack == ~production /\ disclosed' = TRUE
Raises == production /\ UNCHANGED disclosed

BeginCommands(p) ==
    /\ client[p].pc = "idle"
    /\ \E list \in CommandLists :
          client' = [client EXCEPT ![p] = [NoRequest EXCEPT !.pc = "get", !.list = list]]
    /\ UNCHANGED <<production, primary, fallback, disclosed, expected, raced>>

Fetched(p, record) == client' = [client EXCEPT ![p].pc = "put", ![p].read = record,
                                               ![p].changed = FALSE]
Ends(p) == client' = [client EXCEPT ![p] = NoRequest]

Get(p) ==
    /\ client[p].pc = "get"
    /\ \/ Fetched(p, primary) /\ UNCHANGED disclosed
       \/ FallsBack /\ Fetched(p, fallback)
       \/ Raises /\ Ends(p)
    /\ UNCHANGED <<production, primary, fallback, expected, raced>>

\* A write takes effect: the other clients' records are out of date.
Outdated(p) == [q \in Clients |-> IF q = p THEN NoRequest
                                  ELSE [client[q] EXCEPT !.changed = client[q].pc = "put"]]
Written(p) ==
    /\ expected' = Updates(expected, client[p].list)
    /\ raced' = (raced \/ client[p].changed)
    /\ client' = Outdated(p)

\* put, or delete of an empty record.  An error of the primary may come after its write.
Put(p) ==
    /\ client[p].pc = "put"
    /\ LET record == Updates(client[p].read, client[p].list)
       IN  \/ primary' = record /\ Written(p) /\ UNCHANGED <<fallback, disclosed>>
           \/ FallsBack /\ fallback' = record /\ Written(p) /\ primary' \in {primary, record}
           \/ Raises /\ Ends(p) /\ UNCHANGED <<primary, fallback, expected, raced>>
           \/ Raises /\ primary' = record /\ Written(p) /\ UNCHANGED fallback
    /\ UNCHANGED production

\* DELETE removes the record without reading it; the fallback's only if the primary fails.
DeleteRecord ==
    /\ \/ primary' = {} /\ UNCHANGED <<fallback, disclosed>>
       \/ FallsBack /\ fallback' = {} /\ primary' \in {primary, {}}
       \/ Raises /\ primary' = {} /\ UNCHANGED fallback
    /\ expected' = {}
    /\ client' = [q \in Clients |-> [client[q] EXCEPT !.changed = client[q].pc = "put"]]
    /\ UNCHANGED <<production, raced>>

\* preference_ttl_seconds after the last write.
Expire ==
    /\ primary # {}
    /\ primary' = {} /\ expected' = {}
    /\ client' = [q \in Clients |-> [client[q] EXCEPT !.changed = client[q].pc = "put"]]
    /\ UNCHANGED <<production, fallback, disclosed, raced>>

\* A restart empties the memory and with it the reason the status gave.  Only what commands
\* did while the store was called degraded may be gone then: the shopper was told.
PreferenceRestart ==
    /\ fallback' = {} /\ disclosed' = FALSE
    /\ client' = [q \in Clients |-> NoRequest]
    /\ expected' = IF disclosed THEN primary ELSE expected
    /\ raced' = (raced /\ ~disclosed)
    /\ UNCHANGED <<production, primary>>

PreferenceInit ==
    /\ production \in BOOLEAN
    /\ primary = {} /\ fallback = {} /\ expected = {}
    /\ disclosed = FALSE /\ raced = FALSE
    /\ client = [p \in Clients |-> NoRequest]

PreferenceNext ==
    \/ \E p \in Clients : BeginCommands(p) \/ Get(p) \/ Put(p)
    \/ DeleteRecord \/ Expire \/ PreferenceRestart

PreferenceSpec == PreferenceInit /\ [][PreferenceNext]_preferenceVars

-----------------------------------------------------------------------------
(* Properties *)

PreferenceTypeOK ==
    /\ {production, disclosed, raced} \subseteq BOOLEAN
    /\ {primary, fallback, expected} \subseteq SUBSET Values
    /\ \A p \in Clients : /\ client[p].pc \in {"idle", "get", "put"}
                          /\ client[p].read \subseteq Values

\* As long as the status calls the store durable, the durable record is what the commands
\* so far make of it, through failures and restarts: all of them, or after a restart that ended
\* a degraded time those since.  Excepted is the lost update: a command
\* wrote back a record that had been changed since it read it.
DurableUnlessRaced == ~disclosed /\ ~raced => primary = expected

=============================================================================
