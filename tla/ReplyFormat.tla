---------------------------- MODULE ReplyFormat ----------------------------
(* The answers of the emulated services on the wire: service_reply::send      *)
(* writes a header and the records of the answer into a byte_buffer, field by *)
(* field, and the client reads them back, as the deserialize functions that   *)
(* stand beside each serialize do.  The bytes may be cut short on the way.  A *)
(* field that cannot be read does not stop the reading of the next one:       *)
(* deserialize looks at no result.                                            *)
EXTENDS ByteBuffer, SequencesExt

CONSTANTS
    Sample(_, _, _),   \* the bytes of a field: its kind, its place in the record, and
    Variants,          \* which of the samples of a record
    MaxObjects,        \* records in one answer
    CutObjects         \* an answer of at most as many records may arrive cut

VARIABLES
    state,      \* of the answer: "none", "sending", "arrived"
    unwritten,  \* the fields that send is about to write
    objects,    \* the types of the records behind them
    wire,       \* the byte_buffer of the service
    sent,       \* history: the fields written, and where each begins
    plan,       \* the fields the client reads, in order
    strayed,    \* history: the answer holds a record that is not read as it is written
    inStep,     \* history: the fields of the plan in front of the first such record
    whole,      \* all bytes of the answer arrive
    buffer,     \* the byte_buffer of the client
    log         \* the results of its reads so far

writer == <<unwritten, objects, wire, sent>>
client == <<plan, strayed, inStep, whole>>
replyVars == <<state, writer, client, buffer, log>>

-----------------------------------------------------------------------------
(* A call of a read or write function: the kind of the value and the member.  *)

Bool(member) == [kind |-> "bool", member |-> member]
Char(member) == [kind |-> "byte", member |-> member]
Ubyte(member) == [kind |-> "ubyte", member |-> member]
Uint16(member) == [kind |-> "uint16", member |-> member]
Int32(member) == [kind |-> "int32", member |-> member]
Uint32(member) == [kind |-> "uint32", member |-> member]
Int64(member) == [kind |-> "int64", member |-> member]
Uint64(member) == [kind |-> "uint64", member |-> member]
Float(member) == [kind |-> "float", member |-> member]
String(member) == [kind |-> "string", member |-> member]
Blob(member) == [kind |-> "blob", member |-> member]
Struct(member) == [kind |-> "struct", member |-> member]
Tags(member) == [kind |-> "tags", member |-> member]
Raw4(member) == [kind |-> "raw4", member |-> member]

(* The records: what serialize writes and what deserialize reads, in order.   *)
(* Addresses switch the types off for their fields and restore them.          *)
Record(written, read) == [typed |-> TRUE, written |-> written, read |-> read]
Address(written, read) == [typed |-> FALSE, written |-> written, read |-> read]

StorageRecords ==
    [bdFileData |-> Record(<<Blob("file_data")>>, <<Blob("file_data")>>),
     bdFileInfo |-> Record(
        <<Uint32("file_size"), Uint64("file_id"), Uint32("create_time"), Uint32("modified_time"),
          Bool("priv"), Uint64("owner_id"), String("file_name")>>,
        <<Uint32("file_size"), Uint64("file_id"), Uint32("create_time"), Uint32("modified_time"),
          Bool("priv"), Uint64("owner_id"), String("file_name")>>),
     bdFileQueryResult |-> Record(
        <<Uint64("user_id"), String("platform"), String("file_name"), Uint32("error_code"),
          Blob("file_data")>>,
        <<Uint64("user_id"), String("platform"), String("file_name"), Uint32("error_code"),
          Blob("file_data")>>),
     bdTimeStamp |-> Record(<<Uint32("unix_time")>>, <<Uint32("unix_time")>>)]

FileRecords ==
    [bdFile |-> Record(
        <<Uint64("owner_id"), String("platform"), String("file_name"), Uint32("unk"), Blob("data")>>,
        <<Uint64("owner_id"), String("platform"), String("file_name"), Uint32("unk"), Blob("data")>>),
     bdFile2 |-> Record(
        <<Uint32("unk1"), Uint32("unk2"), Uint32("unk3"), Bool("priv"), Uint64("owner_id"),
          String("platform"), String("file_name"), Blob("data")>>,
        <<Uint32("unk1"), Uint32("unk2"), Uint32("unk3"), Bool("priv"), Uint64("owner_id"),
          String("platform"), String("file_name"), Blob("data")>>),
     bdContextUserStorageFileInfo |-> Record(
        <<Uint32("create_time"), Uint32("modifed_time"), Bool("priv"), Uint64("owner_id"),
          String("account_type"), String("file_name")>>,
        <<Uint32("create_time"), Uint32("modifed_time"), Bool("priv"), Uint64("owner_id"),
          String("account_type"), String("file_name")>>)]

DMLWritten ==
    <<String("country_code"), String("country"), String("region"), String("city"),
      Float("latitude"), Float("longitude")>>

(* Mutant of DMLRead: two members of one type are swapped. *)
DMLReadSwapped ==
    <<String("country_code"), String("country"), String("region"), String("city"),
      Float("longitude"), Float("latitude")>>

DMLRead ==
    <<String("country_code"), String("country"), String("region"), String("city"),
      Float("latitude"), Float("longitude")>>

DMLRecords ==
    [bdDMLInfo |-> Record(DMLWritten, DMLRead),
     bdDMLRawData |-> Record(DMLWritten \o <<Uint32("asn"), String("timezone")>>,
                             DMLRead \o <<Uint32("asn"), String("timezone")>>)]

(* deserialize forgets checksum_matched_. *)
StatRecords ==
    [bdPerformanceValue |-> Record(<<Uint64("user_id"), Int64("performance")>>,
                                   <<Uint64("user_id"), Int64("performance")>>),
     bdDDLChecksumResult |-> Record(<<String("checksum"), Bool("checksum_matched")>>,
                                    <<String("checksum")>>)]

(* deserialize forgets session_id_ and num_players_. *)
MatchRecords ==
    [bdSessionID |-> Record(<<Blob("session_id")>>, <<Blob("session_id")>>),
     bdMatchMakingInfo |-> Record(
        <<Blob("host_addr"), Blob("session_id"), Uint32("game_type"), Uint32("max_players"),
          Uint32("num_players")>>,
        <<Blob("host_addr"), Uint32("game_type"), Uint32("max_players")>>),
     bdPublicProfileInfo |-> Record(<<Uint64("entity_id"), Int32("version"), Blob("ddl")>>,
                                    <<Uint64("entity_id"), Int32("version"), Blob("ddl")>>)]

(* An address is written if its family is AF_INET, and read if the family of  *)
(* the object it is read into is, as the constructor leaves it.               *)
InetAddr(inet) == IF inet THEN <<Raw4("c_addr")>> ELSE <<>>
Addr(inet) == InetAddr(inet) \o <<Uint16("port")>>
FiveAddrs == Addr(TRUE) \o Addr(TRUE) \o Addr(TRUE) \o Addr(TRUE) \o Addr(TRUE)

(* The first n of five local addresses are AF_INET; writing ends with the     *)
(* first that is not.                                                         *)
CommonAddrWritten(n, public) ==
    IF n < 5 THEN SubSeq(FiveAddrs, 1, 2 * n) \o Addr(FALSE)
             ELSE FiveAddrs \o Addr(public) \o <<Char("nat_type")>>

CommonAddrRead == FiveAddrs \o Addr(TRUE) \o <<Ubyte("nat_type")>>

AddressRecords ==
    [bdInetAddr |-> Address(InetAddr(TRUE), InetAddr(TRUE)),
     bdAddr |-> Address(Addr(TRUE), Addr(TRUE)),
     bdCommonAddr |-> Address(CommonAddrWritten(5, TRUE), CommonAddrRead)]

(* The same with an address of another family among those written.            *)
ForeignRecords ==
    [bdInetAddrForeign |-> Address(InetAddr(FALSE), InetAddr(TRUE)),
     bdAddrForeign |-> Address(Addr(FALSE), Addr(TRUE)),
     bdCommonAddrLocal1 |-> Address(CommonAddrWritten(0, TRUE), CommonAddrRead),
     bdCommonAddrLocal2 |-> Address(CommonAddrWritten(1, TRUE), CommonAddrRead),
     bdCommonAddrLocal3 |-> Address(CommonAddrWritten(2, TRUE), CommonAddrRead),
     bdCommonAddrLocal4 |-> Address(CommonAddrWritten(3, TRUE), CommonAddrRead),
     bdCommonAddrLocal5 |-> Address(CommonAddrWritten(4, TRUE), CommonAddrRead),
     bdCommonAddrPublic |-> Address(CommonAddrWritten(5, FALSE), CommonAddrRead)]

(* Those that only the iw4 client has.                                        *)
TierWritten == <<Uint32("tier0"), Uint32("tier1"), Uint32("tier2"), Uint32("tier3"), Uint32("confidence")>>
TierRead == <<Uint32("tier0"), Uint32("tier1"), Uint32("tier2"), Uint32("tier3"), Uint32("confidence")>>

IW4Results ==
    [bdStringResult |-> Record(<<String("content")>>, <<String("content")>>),
     bdUInt64Result |-> Record(<<Uint64("value")>>, <<Uint64("value")>>),
     bdBoolResult |-> Record(<<Bool("value")>>, <<Bool("value")>>),
     bdDMLHierarchicalInfo |-> Record(
        DMLWritten \o <<Uint32("asn"), String("timezone")>> \o TierWritten,
        DMLRead \o <<Uint32("asn"), String("timezone")>> \o TierRead)]

(* bdFileMetaData has no deserialize, and that of bdTaskResult reads nothing.  *)
IW4Storage ==
    [bdFileMetaData |-> Record(
        <<Uint64("file_id"), Uint32("create_time"), Uint32("modified_time"), Uint32("file_size"),
          Uint64("owner_id"), String("owner_name"), Uint16("file_slot"), String("file_name"),
          String("url"), Uint16("category"), Blob("metadata"), Uint32("summary_file_size"),
          Tags("tags"), Uint32("num_copies_made"), Uint64("origin_id")>>,
        <<>>),
     bdURL |-> Record(
        <<String("url"), Uint16("server_type"), String("server_index"), Uint64("file_id")>>,
        <<String("url"), Uint16("server_type"), String("server_index"), Uint64("file_id")>>),
     bdStructedDataBuffer |-> Record(<<Struct("structed_data_protobuffer")>>,
                                     <<Struct("structed_data_protobuffer")>>)]

Tables == {StorageRecords, FileRecords, DMLRecords, StatRecords, MatchRecords, AddressRecords,
           ForeignRecords, IW4Results, IW4Storage}
Records == [name \in UNION {DOMAIN t : t \in Tables} |->
              (CHOOSE t \in Tables : name \in DOMAIN t)[name]]

(* Where deserialize does not read what serialize wrote.                      *)
OutOfStep ==
    {"bdDDLChecksumResult", "bdMatchMakingInfo", "bdFileMetaData"} \cup DOMAIN ForeignRecords

-----------------------------------------------------------------------------

Field(call, typed, val) ==
    [kind |-> call.kind, member |-> call.member, typed |-> typed, val |-> val]

RecordFields(name, v) ==
    LET r == Records[name]
    IN  [i \in DOMAIN r.written |->
           Field(r.written[i], r.typed, Sample(r.written[i].kind, i, v))]

Typed(calls, vals) == [i \in DOMAIN calls |-> Field(calls[i], TRUE, vals[i])]

(* What send puts in front of the records, and which of them it writes. *)
Header(error) ==
    Typed(<<Uint64("transaction_id"), Uint32("error"), Ubyte("type")>>,
          <<Word(7) \o Word(0), Word(error), <<5>>>>)

(* Mutant of Counts: the second one in front of no records as well. *)
CountsTwice(n) == Typed(<<Uint32("size"), Uint32("size")>>, <<Word(n), Word(n)>>)

Counts(n) == IF n = 0 THEN Typed(<<Uint32("size")>>, <<Word(0)>>)
                      ELSE Typed(<<Uint32("size"), Uint32("size")>>, <<Word(n), Word(n)>>)

Written(error, structed, names) ==
    IF error # 0 THEN <<>>
    ELSE IF structed /\ names # <<>> THEN <<Head(names)>>
    ELSE names

Preamble(error, structed, names) ==
    Header(error) \o (IF error # 0 THEN Typed(<<Uint64("transaction_id")>>, <<Word(7) \o Word(0)>>)
                      ELSE IF structed THEN <<>>
                      ELSE Counts(Len(names)))

WriteField(b, f) ==
    LET flagged == [b EXCEPT !.types = b.types /\ f.typed]
        done == CASE f.kind = "string" -> WriteString(flagged, f.val)
                  [] f.kind \in {"blob", "struct"} -> WriteSized(flagged, f.kind, f.val)
                  [] f.kind = "raw4" -> Write(flagged, f.val)
                  [] f.kind = "tags" -> WriteArray(flagged, "uint64", Len(f.val) \div 8, f.val)
                  [] OTHER -> WriteFixed(flagged, f.kind, f.val)
    IN  [done EXCEPT !.types = b.types]

(* The read function for the next field. *)
ReadField(b, f) ==
    LET flagged == [b EXCEPT !.types = b.types /\ f.typed]
        outcomes == CASE f.kind = "string" -> ReadString(flagged)
                      [] f.kind \in {"blob", "struct"} -> ReadSized(flagged, f.kind)
                      [] f.kind = "raw4" -> {Read(flagged, 4)}
                      [] OTHER -> ReadFixed(flagged, f.kind)
    IN  IF f.typed THEN outcomes ELSE {[r EXCEPT !.b.types = b.types] : r \in outcomes}

(* What the client reads: the numbers in front, whose shape the error, its    *)
(* task and the count of the records tell it, and the records of its task.    *)
ClientPreamble(error, structed, some) ==
    <<Uint64("transaction_id"), Uint32("error"), Ubyte("type")>>
      \o (IF error # 0 THEN <<Uint64("transaction_id")>>
          ELSE IF structed THEN <<>>
          ELSE IF some THEN <<Uint32("size"), Uint32("size")>>
          ELSE <<Uint32("size")>>)

Reading(calls, typed) ==
    [i \in DOMAIN calls |-> [kind |-> calls[i].kind, member |-> calls[i].member, typed |-> typed]]

RecordReads(name) == Reading(Records[name].read, Records[name].typed)

-----------------------------------------------------------------------------

(* What a field of each kind is: a value of its width, a string without zeros *)
(* (write_string ends at the first), a size that an int holds, pairs of tags. *)
Octet == 0 .. 255
MaxSize == 2147483647
Fixed == DOMAIN Width
IsOfKind(val, kind) ==
    /\ val \in Seq(Octet)
    /\ kind \in Fixed => Len(val) = Width[kind]
    /\ kind = "raw4" => Len(val) = 4
    /\ kind = "string" => \A i \in DOMAIN val : val[i] # 0
    /\ kind \in {"blob", "struct", "tags"} => Len(val) <= MaxSize
    /\ kind = "tags" => Len(val) % 16 = 0

ASSUME SampleAssumption ==
    /\ MaxObjects \in Nat
    /\ \A name \in DOMAIN Records, v \in Variants :
          \A i \in DOMAIN Records[name].written :
             LET kind == Records[name].written[i].kind
             IN  IsOfKind(Sample(kind, i, v), kind)

ReplyInit ==
    /\ state = "none" /\ unwritten = <<>> /\ objects = <<>> /\ wire = Buffer(<<>>)
    /\ sent = <<>> /\ plan = <<>> /\ strayed = FALSE /\ inStep = 0 /\ whole = TRUE
    /\ buffer = Buffer(<<>>) /\ log = <<>>

(* service_reply::send begins with the numbers in front of the records.       *)
SendBegins(error, structed, names) ==
    /\ state = "none"
    /\ state' = "sending"
    /\ unwritten' = Preamble(error, structed, names)
    /\ objects' = Written(error, structed, names)
    /\ plan' = Reading(ClientPreamble(error, structed, names # <<>>), TRUE)
    /\ inStep' = Len(plan')
    /\ whole' \in (IF Len(names) <= CutObjects THEN BOOLEAN ELSE {TRUE})
    /\ UNCHANGED <<wire, sent, strayed, buffer, log>>

(* The next record: what its serialize writes, and its deserialize reads.     *)
Serialize(v) ==
    /\ unwritten = <<>> /\ objects # <<>>
    /\ unwritten' = RecordFields(Head(objects), v)
    /\ plan' = plan \o RecordReads(Head(objects))
    /\ strayed' = (strayed \/ Head(objects) \in OutOfStep)
    /\ inStep' = IF strayed' THEN inStep ELSE Len(plan')
    /\ objects' = Tail(objects)
    /\ UNCHANGED <<state, wire, sent, whole, buffer, log>>

WriteNext ==
    /\ unwritten # <<>>
    /\ wire' = WriteField(wire, Head(unwritten))
    /\ sent' = Append(sent, [field |-> Head(unwritten), at |-> wire.at])
    /\ unwritten' = Tail(unwritten)
    /\ UNCHANGED <<state, objects, client, buffer, log>>

(* The answer arrives, or the beginning of it.                                *)
Arrive ==
    /\ state = "sending" /\ unwritten = <<>> /\ objects = <<>>
    /\ state' = "arrived"
    /\ \E n \in 0 .. Len(wire.bytes) :
          /\ whole <=> n = Len(wire.bytes)
          /\ buffer' = Buffer(SubSeq(wire.bytes, 1, n))
    /\ UNCHANGED <<writer, client, log>>

(* One read of the client.  One that leaves the buffer ends the model of it.  *)
MoreToRead == Len(log) < Len(plan) /\ \A i \in DOMAIN log : log[i].inside

ReadNext ==
    /\ state = "arrived" /\ MoreToRead
    /\ \E r \in ReadField(buffer, plan[Len(log) + 1]) :
          /\ buffer' = r.b
          /\ log' = Append(log, [ok |-> r.ok, val |-> r.val, inside |-> r.inside])
    /\ UNCHANGED <<state, writer, client>>

Answers == UNION {[1 .. n -> DOMAIN Records] : n \in 0 .. MaxObjects}

ReplyNext ==
    \/ \E error \in {0, 1}, structed \in BOOLEAN, names \in Answers :
          SendBegins(error, structed, names)
    \/ \E v \in Variants : Serialize(v)
    \/ WriteNext \/ Arrive \/ ReadNext

ReplySpec == ReplyInit /\ [][ReplyNext]_replyVars

-----------------------------------------------------------------------------

(* Until the first read that fails, what a read stores in a member is what    *)
(* was written from that member: in front of a record that is out of step no  *)
(* value lands in another member.  Of an answer cut short a string may be the *)
(* beginning of the one written, and a string or a blob may be read from      *)
(* outside of the buffer, but no number is made up.                           *)
ComesBack(read, f) ==
    \/ read.inside /\ read.val = f.val
    \/ ~whole /\ f.kind = "string" /\ IsPrefix(read.val, f.val)
    \/ ~whole /\ f.kind \in {"blob", "struct"} /\ ~read.inside

FieldsComeBack ==
    \A i \in DOMAIN log :
        i <= inStep /\ (\A j \in 1 .. i : log[j].ok) =>
            /\ i <= Len(sent)
            /\ plan[i].member = sent[i].field.member
            /\ ComesBack(log[i], sent[i].field)

(* An answer without a record out of step that arrived whole is used up to    *)
(* its last byte: its counts are those of the records behind them, and no     *)
(* read of it fails.                                                          *)
AnswerIsUsedUp ==
    state = "arrived" /\ whole /\ ~MoreToRead /\ ~strayed =>
        /\ buffer.at = Len(buffer.bytes)
        /\ \A i \in DOMAIN log : log[i].ok
=============================================================================
