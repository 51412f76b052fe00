----------------------------- MODULE ByteBuffer -----------------------------
(* demonware::byte_buffer: values written one after the other into a string   *)
(* of bytes, each behind a byte with its type while use_data_types_ is set,   *)
(* and read back through the same cursor.  The functions of the class are     *)
(* operators here: a write returns the buffer it leaves, a read the set of    *)
(* its outcomes, for where the code reads a local it has not initialised the  *)
(* outcome is whatever the local held.                                        *)
EXTENDS Naturals, Sequences

(* The byte in front of a value of each kind, and the bytes of the value. *)
Tag == [bool |-> 1, byte |-> 2, ubyte |-> 3, int16 |-> 5, uint16 |-> 6,
        int32 |-> 7, uint32 |-> 8, int64 |-> 9, uint64 |-> 10, float |-> 13,
        string |-> 16, blob |-> 19, struct |-> 23]

Width == [bool |-> 1, byte |-> 1, ubyte |-> 1, int16 |-> 2, uint16 |-> 2,
          int32 |-> 4, uint32 |-> 4, int64 |-> 8, uint64 |-> 8, float |-> 4]

(* buffer_, current_byte_ and use_data_types_. *)
Buffer(bytes) == [bytes |-> bytes, at |-> 0, types |-> TRUE]

(* A std::uint32_t as the four bytes it has in memory, and back. *)
Word(n) == <<n % 256, (n \div 256) % 256, (n \div 65536) % 256, n \div 16777216>>
Number(w) == w[1] + 256 * w[2] + 65536 * w[3] + 16777216 * w[4]

-----------------------------------------------------------------------------

Write(b, s) == [b EXCEPT !.bytes = @ \o s, !.at = @ + Len(s)]

WriteDataType(b, tag) == IF b.types THEN Write(b, <<tag>>) ELSE b

WriteFixed(b, kind, v) == Write(WriteDataType(b, Tag[kind]), v)

WriteString(b, v) == Write(WriteDataType(b, Tag.string), Append(v, 0))

(* write_blob and write_struct. *)
WriteSized(b, kind, v) ==
    Write(WriteFixed(WriteDataType(b, Tag[kind]), "uint32", Word(Len(v))), v)

(* write_array: count items of a kind, their bytes in raw.  The header turns  *)
(* the types on for the size only.                                            *)
WriteArrayHeader(b, kind, count) ==
    LET typed == Write(b, <<Tag[kind] + 100>>)
        sized == WriteFixed([typed EXCEPT !.types = TRUE], "uint32", Word(count * Width[kind]))
        counted == WriteFixed([sized EXCEPT !.types = FALSE], "uint32", Word(count))
    IN  [counted EXCEPT !.types = b.types]

WriteArray(b, kind, count, raw) ==
    LET header == WriteArrayHeader([b EXCEPT !.types = FALSE], kind, count)
    IN  [Write(header, raw) EXCEPT !.types = b.types]

-----------------------------------------------------------------------------

(* What a read tells its caller (ok, val), where it leaves the buffer, and    *)
(* whether it stayed inside of it.                                            *)
Result(ok, val, b) == [ok |-> ok, val |-> val, b |-> b, inside |-> TRUE]
Outside(b) == [ok |-> TRUE, val |-> <<>>, b |-> b, inside |-> FALSE]

(* Mutant of Read: what is left is taken for what was asked. *)
ReadShort(b, n) ==
    LET there == IF b.at + n > Len(b.bytes) THEN Len(b.bytes) - b.at ELSE n
    IN  Result(TRUE, SubSeq(b.bytes, b.at + 1, b.at + there), [b EXCEPT !.at = @ + there])

Read(b, n) ==
    IF b.at + n > Len(b.bytes)
    THEN Result(FALSE, <<>>, b)
    ELSE Result(TRUE, SubSeq(b.bytes, b.at + 1, b.at + n), [b EXCEPT !.at = @ + n])

(* read_data_type compares a local that a read past the end leaves unset. *)
ReadDataType(b, tag) ==
    LET r == Read(b, 1)
    IN  IF ~b.types THEN {Result(TRUE, <<>>, b)}
        ELSE IF r.ok THEN {Result(r.val = <<tag>>, <<>>, r.b)}
        ELSE {Result(ok, <<>>, b) : ok \in BOOLEAN}

ReadFixed(b, kind) ==
    {IF t.ok THEN Read(t.b, Width[kind]) ELSE t : t \in ReadDataType(b, Tag[kind])}

(* strlen stops at the first zero, at the latest at the one that std::string  *)
(* keeps behind its last byte; a cursor behind that one is not checked.       *)
StringAt(b) ==
    LET ends == {i \in (b.at + 1) .. Len(b.bytes) : b.bytes[i] = 0}
                    \cup {Len(b.bytes) + 1}
        end == CHOOSE i \in ends : \A j \in ends : i <= j
    IN  IF b.at > Len(b.bytes)
        THEN Outside(b)
        ELSE Result(TRUE, SubSeq(b.bytes, b.at + 1, end - 1), [b EXCEPT !.at = end])

ReadString(b) ==
    {IF t.ok THEN StringAt(t.b) ELSE t : t \in ReadDataType(b, Tag.string)}

(* read_blob and read_struct do not look at the result of reading the size. *)
SizedAt(size) ==
    LET n == Number(size.val)
        whole == size.ok /\ size.b.at + n <= Len(size.b.bytes)
    IN  IF whole THEN Read(size.b, n) ELSE Outside(size.b)

ReadSized(b, kind) ==
    LET tags == ReadDataType(b, Tag[kind])
    IN  {t \in tags : ~t.ok}
          \cup UNION {{SizedAt(s) : s \in ReadFixed(t.b, "uint32")} : t \in {u \in tags : u.ok}}

(* read_array of a map.  The header is read with the types on; a read that    *)
(* fails on the way leaves use_data_types_ as it is at that moment.  The size *)
(* of an element is a division by their number.                               *)
CountAt(size, restored) ==
    LET count == Read([size.b EXCEPT !.types = FALSE], 4)
        n == Number(count.val)
    IN  IF ~count.ok THEN count
        ELSE IF n = 0 THEN Outside(count.b)
        ELSE Result(TRUE, <<n, Number(size.val) \div n>>, [count.b EXCEPT !.types = restored])

ReadArrayHeader(b, kind) ==
    LET tags == ReadDataType([b EXCEPT !.types = TRUE], Tag[kind] + 100)
        sizes == UNION {ReadFixed(t.b, "uint32") : t \in {u \in tags : u.ok}}
    IN  {t \in tags : ~t.ok} \cup {IF s.ok THEN CountAt(s, b.types) ELSE s : s \in sizes}

PairsAt(header, kind, restored) ==
    LET width == Width[kind]
        pairs == header.val[1] \div 2
        there == (Len(header.b.bytes) - header.b.at) \div width
        all == Read(header.b, 2 * pairs * width)
    IN  IF header.val[2] # width THEN Result(FALSE, <<>>, header.b)
        ELSE IF all.ok THEN [all EXCEPT !.b.types = restored]
        ELSE Result(FALSE, <<>>, [header.b EXCEPT !.at = @ + there * width])

ReadArray(b, kind) ==
    {IF h.ok /\ h.inside THEN PairsAt(h, kind, b.types) ELSE h :
        h \in ReadArrayHeader([b EXCEPT !.types = FALSE], kind)}
=============================================================================
