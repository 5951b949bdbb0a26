--------------------------- MODULE TargetStorage ---------------------------
(***************************************************************************)
(* The targets that serve payload views: a memory and a register bank, each *)
(* one versioned cell (stdlib/src/memory.cpp, stdlib/src/register_bank.cpp). *)
(* Indices of data bytes count from 1 here, addresses from 0.               *)
(***************************************************************************)
EXTENDS PayloadViews

MemoryCell == <<<<0, "Memory">>, "bytes">>
BankCell == <<<<0, "Bank">>, "bytes">>

\* The payload as a target sees it: data comes from its cell.
Incoming(t, k) == [request[k[1]] EXCEPT !.data = ReadCell(t, <<k, "data">>)]

\* validate_target_access
Serves(s, k) ==
    /\ Resolved(segment[s], k)
    /\ k[2] = "Target"
    /\ request[k[1]].command = "Read" => views[k].writable

WellEnabled(p) == Range(p.enable) \subseteq {0, 255}

-----------------------------------------------------------------------------
(* Memory *)

\* validate_transfer
InMemory(p) ==
    /\ p.data # <<>>
    /\ p.width > 0
    /\ WellEnabled(p)
    /\ p.address < MemorySize
    /\ Min({Len(p.data), p.width}) <= MemorySize - p.address

\* The address of a data byte wraps at the streaming width.
ByteAt(p, j) == p.address + ((j - 1) % p.width)

MemoryRead(memory, p) ==
    [j \in DOMAIN p.data |-> IF Enabled(p, j) THEN memory[ByteAt(p, j)] ELSE p.data[j]]

\* Bytes are stored in order, so the last enabled one stays.
MemoryWritten(memory, p) ==
    FoldLeft(LAMBDA m, j : IF Enabled(p, j) THEN [m EXCEPT ![ByteAt(p, j)] = p.data[j]] ELSE m,
             memory, [j \in DOMAIN p.data |-> j])

MemoryTransfer(s, k) ==
    LET t == segment[s]
        p == Incoming(t, k)
        memory == ReadCell(t, MemoryCell)
    IN /\ Serves(s, k)
       /\ p.command # "Ignore"
       /\ InMemory(p)
       /\ InSegment(s, IF p.command = "Read" THEN BufferedData(t, k, MemoryRead(memory, p))
                       ELSE WriteAll(t, MemoryCell :> MemoryWritten(memory, p)))

\* write_bytes; debug_transfer cuts the data at the end of the memory instead.
MemoryStore(s, a, data, enable) ==
    LET t == segment[s]
        p == [address |-> a, data |-> data, width |-> Len(data), enable |-> enable]
    IN /\ t.open
       /\ InMemory(p)
       /\ InSegment(s, WriteAll(t, MemoryCell :> MemoryWritten(ReadCell(t, MemoryCell), p)))

\* clear and reset: the initial contents are zero here.
MemoryReset(s) ==
    /\ segment[s].open
    /\ InSegment(s, WriteAll(segment[s], MemoryCell :> [a \in 0..(MemorySize - 1) |-> {}]))

-----------------------------------------------------------------------------
(* Register bank: its cell is the set of the bits <<register, byte, bit>> that are one *)

\* physical, and the logical index of a bit of a byte: the order of the bytes
\* of a register depends on its endianness.
Logical(r, byte, b) ==
    (IF r.endian = "Little" THEN byte ELSE r.bytes - 1 - byte) * BitsPerByte + b

\* The bits of a field of register i
FieldBits(i, f) ==
    {<<n, byte, b>> \in {i} \X (0..(Registers[i].bytes - 1)) \X Bits :
        Logical(Registers[i], byte, b) \in f.lsb..(f.lsb + f.width - 1)}

BitsWith(kinds) ==
    UNION {UNION {FieldBits(i, f) : f \in {g \in Registers[i].fields : g.access \in kinds}} :
                i \in DOMAIN Registers}

ReadClear == BitsWith({"RC"})
BitsStored == BitsWith({"RW", "WO"})
BitsCleared == BitsWith({"W1C"})
BitsSettable == BitsWith({"RW", "WO", "W1S"})
Readable == BitsWith({"RO", "RW", "W1C", "W1S", "RC"})

\* locate
Located(a) ==
    {i \in DOMAIN Registers : a >= Registers[i].offset /\ a - Registers[i].offset < Registers[i].bytes}

InBank(p) ==
    /\ p.data # <<>>
    /\ p.width >= Len(p.data)
    /\ WellEnabled(p)
    /\ \E i \in Located(p.address) : LET r == Registers[i] IN
        /\ Len(p.data) <= r.bytes - (p.address - r.offset)
        /\ Len(p.data) \in r.allowed
        /\ p.address % (IF r.alignment = 0 THEN Len(p.data) ELSE r.alignment) = 0

\* The bits that the enabled bytes of an access name
Named(p) ==
    LET i == CHOOSE n \in Located(p.address) : TRUE
    IN {<<i, p.address - Registers[i].offset + j - 1, b>> :
            <<j, b>> \in {<<n, c>> \in (DOMAIN p.data) \X Bits : Enabled(p, n)}}

\* The incoming bits
Given(p) ==
    LET i == CHOOSE n \in Located(p.address) : TRUE
    IN {<<i, p.address - Registers[i].offset + j - 1, b>> :
            <<j, b>> \in {<<n, c>> \in (DOMAIN p.data) \X Bits : c \in p.data[n]}}

BankWritten(bank, p) ==
    LET named == Named(p)
        given == Given(p) \cap named
        lost == (named \cap BitsStored) \cup (given \cap BitsCleared)
    IN (bank \ lost) \cup (given \cap BitsSettable)

BankRead(bank, p) ==
    LET i == CHOOSE n \in Located(p.address) : TRUE
        byte(j) == p.address - Registers[i].offset + j - 1
    IN [j \in DOMAIN p.data |->
            IF Enabled(p, j) THEN {b \in Bits : <<i, byte(j), b>> \in bank \cap Readable}
                             ELSE p.data[j]]

\* Mutant of ClearedBy: disabled bytes are cleared too.
ClearedByAny(p) == Named([p EXCEPT !.enable = <<>>]) \cap ReadClear

\* Reading clears the read-to-clear bits of the enabled bytes.
ClearedBy(p) == Named(p) \cap ReadClear

\* What a segment does to the bits that readers are owed
Account(t, lowered, raised, reported) ==
    [t EXCEPT !.lowered = @ \cup lowered,
              !.raised = (@ \ lowered) \cup raised,
              !.reported = @ \cup (reported \ t.raised)]

BankAccess(s, k) ==
    LET t == segment[s]
        p == Incoming(t, k)
        bank == ReadCell(t, BankCell)
        seen == Named(p) \cap bank \cap ReadClear
        reading == (<<k, "data">> :> Masked(request[k[1]], BankRead(bank, p))) @@
                   (IF ClearedBy(p) = {} THEN <<>> ELSE BankCell :> bank \ ClearedBy(p))
        after == WriteAll(t, reading)
    IN /\ Serves(s, k)
       /\ p.command # "Ignore"
       /\ InBank(p)
       /\ InSegment(s, CASE p.command = "Write" -> WriteAll(t, BankCell :> BankWritten(bank, p))
                         [] after = t -> t
                         [] OTHER -> Account(after, seen, {}, seen))

\* stage_field_update: the model's way of raising bits
UpdateField(s, i, f, on) ==
    LET t == segment[s]
        bank == ReadCell(t, BankCell)
        bits == FieldBits(i, f)
        after == WriteAll(t, BankCell :> IF on THEN bank \cup bits ELSE bank \ bits)
    IN /\ t.open
       /\ InSegment(s, IF BankCell \notin DOMAIN after.writes THEN t
                       ELSE Account(after, bits \cap ReadClear, IF on THEN bits \cap ReadClear ELSE {}, {}))

\* reset; poke of a whole register does the same to its bits.
BankReset(s) ==
    LET t == WriteAll(segment[s], BankCell :> {})
    IN /\ segment[s].open
       /\ InSegment(s, IF BankCell \notin DOMAIN t.writes THEN t ELSE Account(t, ReadClear, {}, {}))

-----------------------------------------------------------------------------

StorageInit ==
    /\ request \in [ViewHops -> Requests]
    /\ views = <<>>
    /\ cells = (MemoryCell :> [a \in 0..(MemorySize - 1) |-> {}]) @@ (BankCell :> {})
    /\ segment = [s \in PayloadSegments |-> Closed]
    /\ epochNow = 0
    /\ rule = [registered |-> FALSE, requestAllowed |-> FALSE, responseAllowed |-> FALSE,
               responseWritable |-> FALSE, requestRequired |-> FALSE, responseRequired |-> FALSE]
    /\ sent = [h \in ViewHops |-> {}]
    /\ owed = [bits |-> {}, twice |-> {}]

Accesses ==
    [stage : {"Call", "Return"}, phase : {"begin_req", "begin_resp"}, permit : BOOLEAN,
     sync : {"Accepted", "Updated", "Completed"}, returned : Phases]

\* Accesses that differ in nothing that matters are tried once.
SupplyingAccess == CHOOSE access \in Accesses : SuppliesResponse(access)
PermittedAccess == CHOOSE access \in Accesses : access.permit

SegmentsNext ==
    \E s \in PayloadSegments : OpenSegment(s) \/ CommitCells(s) \/ DiscardCells(s)

ViewsNext ==
    \/ SegmentsNext
    \/ MoveEpoch
    \/ \E r \in Rules : RegisterExtension(r)
    \/ \E k \in ViewHops \X Sides :
        \/ \E e \in {"None", "x"}, w \in {k[2] = "Target", FALSE} : CreateView(k, e, w)
        \/ EraseView(k)
        \/ \E s \in PayloadSegments :
            \/ BufferData(s, k, [j \in DOMAIN request[k[1]].data |-> {}])
            \/ BufferStatus(s, k, "Ok", PermittedAccess)
            \/ BufferDmi(s, k, TRUE, PermittedAccess)
            \/ BufferExtension(s, k, "y", PermittedAccess)
            \/ ProjectResponse(s, k, SupplyingAccess)
            \/ \E response \in sent[k[1]] : DeliverResponse(s, k, response, SupplyingAccess)

TargetsNext ==
    \/ SegmentsNext
    \/ \E s \in PayloadSegments :
        \/ MemoryReset(s) \/ BankReset(s)
        \/ \E p \in Requests : MemoryStore(s, p.address, p.data, p.enable)
        \/ \E i \in DOMAIN Registers : \E f \in Registers[i].fields, on \in BOOLEAN :
            UpdateField(s, i, f, on)
        \/ \E k \in ViewHops \X Sides : MemoryTransfer(s, k) \/ BankAccess(s, k)

-----------------------------------------------------------------------------
(* Properties *)


\* A read-to-clear bit that was raised is reported by one committed read, and
\* none is lost: the bank holds the bits that are still owed.  A memory gives
\* back what was written to it: of the bytes of a stream that share an address,
\* the last enabled one.
TargetsExact ==
    /\ owed.twice = {}
    /\ cells[BankCell] \cap ReadClear = owed.bits
    /\ \A p \in {q \in Requests : InMemory(q)} :
        LET memory == MemoryWritten(cells[MemoryCell], p)
            Sharing(j) == {i \in DOMAIN p.data : Enabled(p, i) /\ ByteAt(p, i) = ByteAt(p, j)}
            back == MemoryRead(memory, [p EXCEPT !.enable = <<>>])
        IN \A j \in DOMAIN p.data :
            back[j] = IF Sharing(j) = {} THEN cells[MemoryCell][ByteAt(p, j)] ELSE p.data[Max(Sharing(j))]

=============================================================================
