--------------------------- MODULE IdempotencyStore ---------------------------
(* The bounded store of results by command_id (idempotency.py) that Vision keeps
   for captures and Control for actuations.  An OrderedDict is a sequence, least
   recently used entry first.                                                  *)
EXTENDS Naturals, Sequences

CONSTANT StoreCapacity  \* entries kept (4096)

ASSUME StoreAssumption == StoreCapacity \in Nat \ {0}

Entry(command, digest, result) ==
    [command |-> command, digest |-> digest, result |-> result]

Known(store, command) == \E i \in DOMAIN store : store[i].command = command
Position(store, command) == CHOOSE i \in DOMAIN store : store[i].command = command
EntryOf(store, command) == store[Position(store, command)]
\* A command has one entry at most.
Without(store, command) ==
    LET i == Position(store, command)
    IN  IF Known(store, command)
        THEN SubSeq(store, 1, i - 1) \o SubSeq(store, i + 1, Len(store)) ELSE store

Inspect(store, command, digest) ==
    IF ~Known(store, command) THEN "NEW"
    ELSE IF EntryOf(store, command).digest = digest THEN "REPLAY" ELSE "CONFLICT"

\* inspect moves what it finds to the end, a conflict too.
Inspected(store, command) ==
    IF Known(store, command)
    THEN Append(Without(store, command), EntryOf(store, command)) ELSE store

\* remember; it raises when Inspect says CONFLICT.
Remembered(store, command, digest, result) ==
    LET entries == Append(Without(store, command), Entry(command, digest, result))
    IN  IF Len(entries) > StoreCapacity THEN Tail(entries) ELSE entries
===============================================================================
