------------------------------- MODULE Marshal -------------------------------
(***************************************************************************)
(* XDR objects and their marshaling: the traits of cxx/xdrpp/xdrpp/types.h,*)
(* the code that xdrc generates for structs and unions (xdrc/gen_hh.cc),   *)
(* the archives of marshal.h, clear.h, and the framing of a message by     *)
(* message_t, write_message and read_message.                              *)
(*                                                                         *)
(* A type is a name that Def maps to a record, and an object is a value in *)
(* memory: a union object keeps apart its discriminant and the member that *)
(* has been constructed.  A message is a sequence of bytes; a byte has     *)
(* Base values, so that a word, of four bytes, is a number below Base^4,   *)
(* the model's 2^32.  The machine is big-endian or not.  Every behaviour   *)
(* marshals some objects, lets the peer or the network replace parts of    *)
(* the message, and unmarshals it into objects that held something else;   *)
(* or it clears, assigns or switches objects.                              *)
(***************************************************************************)
EXTENDS Integers, FiniteSets, SequencesExt

CONSTANTS
    Base,         \* values of a byte
    Def,          \* type |-> its definition, see Kinds
    Objects,      \* type |-> the objects a program has of it
    Valid(_, _),  \* whether the program's xdr::validate for a type takes an object of it
    ArgTypes,     \* the sequences of types that are marshaled together
    StackLimits,  \* values of marshaling_stack_limit
    ForeignWords, \* words that replace words of a message
    MaxDamage     \* bound on what happens to one message

Word == Base * Base * Base * Base
HighBit == Word \div 2

Kinds == {"int", "hyper", "bool", "opaque", "bytes", "vector", "array", "pointer", "struct", "union"}
Void == "void"
None == "none"

\* The bound of strings, opaques and vectors declared without one.
XDR_MAX_LEN == Word - 4
Unbounded == -1

\* The C++ type of a declaration: its bound is the maximum of a string or vector, and
\* the length of an array.
decl_type(type, qual, bound) ==
    LET max == IF bound = Unbounded THEN XDR_MAX_LEN ELSE bound IN
    CASE type = "string" \/ (type = "opaque" /\ qual = "VEC") -> [kind |-> "bytes", max |-> max]
      [] type = "opaque" /\ qual = "ARRAY" -> [kind |-> "opaque", len |-> bound]
      [] type \notin {"string", "opaque"} /\ qual = "PTR" -> [kind |-> "pointer", elem |-> type]
      [] type \notin {"string", "opaque"} /\ qual = "ARRAY" -> [kind |-> "array", elem |-> type, len |-> bound]
      [] type \notin {"string", "opaque"} /\ qual = "VEC" -> [kind |-> "vector", elem |-> type, max |-> max]

\* A byte has a bit for the flag of the last fragment besides the two of len & 3.
ASSUME ConstantsAssumption ==
    /\ Base \in Nat /\ Base % 8 = 0 /\ MaxDamage \in Nat
    /\ \A t \in DOMAIN Def : Def[t].kind \in Kinds
    /\ ForeignWords \subseteq 0..(Word - 1) /\ StackLimits \subseteq 0..(Word - 1)

VARIABLES
    big,     \* XDRPP_WORDS_BIGENDIAN
    limit,   \* marshaling_stack_limit
    types,   \* the types of the arguments
    src,     \* the objects marshaled
    dst,     \* the objects unmarshaled into
    stage,   \* what comes next: marshal, receive, unmarshal, or nothing
    wire,    \* the bytes between write_message and read_message
    damage,  \* counter for the bound
    msg,     \* the data of the message_t at the receiver
    err,     \* the exception of the last operation, or None
    did      \* the last operation, and for unmarshal where it stopped reading

vars == <<big, limit, types, src, dst, stage, wire, damage, msg, err, did>>

-----------------------------------------------------------------------------
(* Unions, as gen_hh.cc writes them for the arms that parse.yy numbers. *)

\* An object: its discriminant, the number of the member constructed (0 and -1: none),
\* and that member.
Union(tag, arm, val) == [tag |-> tag, arm |-> arm, val |-> val]

FieldNo(arms, i) ==
    IF arms[i].type = Void THEN 0 ELSE Cardinality({j \in 1..i : arms[j].type # Void})

\* _xdr_field_number, and the switch of _xdr_with_mem_ptr, which finds the same arm.
Named(arms, which) == {i \in DOMAIN arms : which \in arms[i].cases}
Matching(arms, which) ==
    IF Named(arms, which) # {} THEN Named(arms, which) ELSE {i \in DOMAIN arms : arms[i].default}
Numbered(arms, hits) == IF hits = {} THEN -1 ELSE FieldNo(arms, CHOOSE i \in hits : TRUE)
FieldNumber(t, which) == Numbered(Def[t].arms, Matching(Def[t].arms, which))

MemberType(t, number) ==
    LET arms == Def[t].arms IN
    arms[CHOOSE i \in DOMAIN arms : arms[i].type # Void /\ FieldNo(arms, i) = number].type

\* A discriminant is an int, an enum or a bool.
Tag(t, n) == IF Def[Def[t].tag].kind = "bool" THEN n # 0 ELSE n
TagNumber(t, x) == IF Def[Def[t].tag].kind # "bool" THEN x ELSE IF x THEN 1 ELSE 0

\* What the default constructor makes of an object; that of a union takes 0 for its
\* discriminant and constructs the member of that arm, if there is such an arm.
RECURSIVE Default(_)

\* field_constructor: a union with a new member, if its arm has one.
Fresh(t, which, number) ==
    Union(which, number, IF number > 0 THEN Default(MemberType(t, number)) ELSE <<>>)

Default(t) ==
    LET d == Def[t] IN
    CASE d.kind \in {"int", "hyper"} -> 0
      [] d.kind = "bool" -> FALSE
      [] d.kind = "opaque" -> [i \in 1..d.len |-> 0]
      [] d.kind \in {"bytes", "vector", "pointer"} -> <<>>
      [] d.kind = "array" -> [i \in 1..d.len |-> Default(d.elem)]
      [] d.kind = "struct" -> [i \in DOMAIN d.fields |-> Default(d.fields[i])]
      [] d.kind = "union" ->
            Fresh(t, 0, FieldNumber(t, 0))

\* _xdr_discriminant: a change of arm destroys the member and constructs the other.
Discriminate_KeepsMember(t, u, which) == [u EXCEPT !.tag = which]
Discriminate(t, u, which) ==
    IF FieldNumber(t, which) = FieldNumber(t, u.tag) THEN [u EXCEPT !.tag = which]
    ELSE Fresh(t, which, FieldNumber(t, which))

-----------------------------------------------------------------------------
(* Bytes and words. *)

Digit(v, i) == (v \div Base^i) % Base
swap32(v) == Digit(v, 0) * Base^3 + Digit(v, 1) * Base^2 + Digit(v, 2) * Base + Digit(v, 3)

\* A uint32_t in the memory of this machine, and back.
InMemory(v) == [i \in 1..4 |-> Digit(v, IF big THEN 4 - i ELSE i - 1)]
FromMemory(b) ==
    LET at(i) == b[IF big THEN 4 - i ELSE i + 1] IN
    at(3) * Base^3 + at(2) * Base^2 + at(1) * Base + at(0)

swap32le_Never(v) == v
swap32le(v) == IF big THEN v ELSE swap32(v)

put32(v) == InMemory(swap32le(v))
get32(b) == swap32le(FromMemory(b))

\* The halves of a uint64_t in the order of memory; the swapping archive takes the
\* second first.
u32(v) == IF big THEN <<v \div Word, v % Word>> ELSE <<v % Word, v \div Word>>
put64(u) == IF big THEN put32(u[1]) \o put32(u[2]) ELSE put32(u[2]) \o put32(u[1])
get64(b) == get32(SubSeq(b, 1, 4)) * Word + get32(SubSeq(b, 5, 8))

Padding(n) == (4 - (n % 4)) % 4
put_bytes(b) == b \o [i \in 1..Padding(Len(b)) |-> 0]

-----------------------------------------------------------------------------
(* xdr_size: the traits' serial_size, below 0 if it throws xdr_bad_discriminant. *)

Throws == -(Word * Word)
Sum(s) == FoldLeft(LAMBDA x, y : x + y, 0, s)

\* Types whose traits have a fixed_size; there serial_size does not look at the object.
RECURSIVE FixedSize(_)
FixedSize(t) ==
    LET d == Def[t] IN
    CASE d.kind \in {"int", "bool"} -> 4
      [] d.kind = "hyper" -> 8
      [] d.kind = "opaque" -> d.len + Padding(d.len)
      [] d.kind = "array" -> d.len * FixedSize(d.elem)
      [] d.kind = "struct" -> Sum([i \in DOMAIN d.fields |-> FixedSize(d.fields[i])])
      [] OTHER -> Throws

RECURSIVE Size(_, _)

Sizes(ts, v) == Sum([i \in DOMAIN v |-> Size(ts[i], v[i])])
ContainerSize(d, v) == (IF d.kind = "array" THEN 0 ELSE 4) + Sizes([i \in DOMAIN v |-> d.elem], v)

UnionSize(t, number, val) ==
    CASE number < 0 -> Throws
      [] number = 0 -> 4
      [] number > 0 -> 4 + Size(MemberType(t, number), val)

VariableSize(t, v) ==
    LET d == Def[t] IN
    CASE d.kind = "bytes" -> 4 + Len(v) + Padding(Len(v))
      [] d.kind = "struct" -> Sizes(d.fields, v)
      [] d.kind = "union" -> UnionSize(t, FieldNumber(t, v.tag), v.val)
      [] OTHER -> ContainerSize(d, v)

OrVariable(fixed, t, v) == IF fixed >= 0 THEN fixed ELSE VariableSize(t, v)
Size(t, v) == OrVariable(FixedSize(t), t, v)

-----------------------------------------------------------------------------
(* xdr_put: an archive a is [buf, cap, lim, err], cap the size of the buffer. *)

Fail(a, e) == [a EXCEPT !.err = e]

\* The stack limit around the save or load of a class or container.  The decrement
\* wraps when it throws, and an exception from below leaves it decremented.
Enter(a) ==
    IF a.lim = 0 THEN Fail([a EXCEPT !.lim = Word - 1], "stack_overflow") ELSE [a EXCEPT !.lim = @ - 1]
Leave(a) == IF a.err = None THEN [a EXCEPT !.lim = @ + 1] ELSE a

\* check(n) and then the bytes, which may be padded beyond n.
PutRaw(a, n, bytes) ==
    IF n > a.cap - Len(a.buf) THEN Fail(a, "overflow") ELSE [a EXCEPT !.buf = @ \o bytes]

RECURSIVE Put(_, _, _)
PutAll(a, ts, vs) == FoldLeft(LAMBDA x, i : Put(x, ts[i], vs[i]), a, [i \in DOMAIN vs |-> i])

SaveContainer(a, d, v) ==
    PutAll(IF d.kind = "array" THEN a ELSE PutRaw(a, 4, put32(Len(v))), [i \in DOMAIN v |-> d.elem], v)

SaveMember(a, t, number, val) ==
    CASE number < 0 -> Fail(a, "bad_discriminant")
      [] number = 0 -> a
      [] number > 0 -> PutAll(a, <<MemberType(t, number)>>, <<val>>)
SaveUnion(a, t, v) ==
    SaveMember(PutAll(a, <<Def[t].tag>>, <<Tag(t, v.tag)>>), t, FieldNumber(t, v.tag), v.val)

\* The generated save of a struct, and those of containers and unions.
Save(a, t, v) ==
    CASE Def[t].kind = "struct" -> PutAll(a, Def[t].fields, v)
      [] Def[t].kind = "union" -> SaveUnion(a, t, v)
      [] OTHER -> SaveContainer(a, Def[t], v)

PutClass(a, t, v) == IF a.err # None THEN a ELSE Leave(Save(a, t, v))

Put(a, t, v) ==
    LET d == Def[t] IN
    CASE a.err # None -> a
      [] a.err = None /\ d.kind = "int" -> PutRaw(a, 4, put32(v))
      [] a.err = None /\ d.kind = "bool" -> PutRaw(a, 4, put32(IF v THEN 1 ELSE 0))
      [] a.err = None /\ d.kind = "hyper" -> PutRaw(a, 8, put64(u32(v)))
      [] a.err = None /\ d.kind = "opaque" -> PutRaw(a, d.len, put_bytes(v))
      [] a.err = None /\ d.kind = "bytes" -> PutRaw(a, 4 + Len(v), put32(Len(v)) \o put_bytes(v))
      [] OTHER -> PutClass(Enter(a), t, v)

\* xdr_to_msg and xdr_to_opaque.
PutSized(size, ts, vs) ==
    LET empty == [buf |-> <<>>, cap |-> size, lim |-> limit, err |-> None] IN
    IF size < 0 THEN Fail(empty, "bad_discriminant") ELSE PutAll(empty, ts, vs)
ToMsg(ts, vs) == PutSized(Sizes(ts, vs), ts, vs)

\* message_t::alloc, and write_message: the length as the sender's memory holds it.
Framed(data) == InMemory(swap32le(Len(data) + HighBit)) \o data

-----------------------------------------------------------------------------
(* xdr_get: an archive g is [pos, lim, err, obj], obj the object it loads into. *)

\* What is at the pointer; behind the end of the message is other memory.
Bytes(g, n) == [i \in 1..n |-> IF g.pos + i <= Len(msg) THEN msg[g.pos + i] ELSE 0]

Lacks(g, n) == n > Len(msg) - g.pos

\* get_bytes copies, and then finds padding that is not zero.
get_bytes(g, n) ==
    LET h == [g EXCEPT !.obj = Bytes(g, n)] IN
    IF \E i \in n+1..n + Padding(n) : Bytes(g, i)[i] # 0 THEN Fail(h, "should_be_zero")
    ELSE [h EXCEPT !.pos = @ + n + Padding(n)]

RECURSIVE Get(_, _)

\* The i-th part of the object, of type t.
Back(g, obj, i) == [g EXCEPT !.obj = [obj EXCEPT ![i] = g.obj]]
GetPart(g, i, t) ==
    IF g.err # None THEN g ELSE Back(Get([g EXCEPT !.obj = g.obj[i]], t), g.obj, i)
GetParts(g, ts) == FoldLeft(LAMBDA x, i : GetPart(x, i, ts[i]), g, [i \in DOMAIN ts |-> i])

\* Variable containers: elements beyond the new size go, those that are there are
\* loaded into, and extend_at appends the others one at a time.  Those of pointers, too,
\* are sequences here, of one element or none.
Shrunk_Not(obj, n) == obj
Shrunk(obj, n) == IF Len(obj) > n THEN SubSeq(obj, 1, n) ELSE obj

Extended(g, i, elem) ==
    IF g.err = None /\ i > Len(g.obj) THEN [g EXCEPT !.obj = Append(@, Default(elem))] ELSE g

\* check_size, which rejects the second element of a pointer too.
TooMany(d, n) == n > IF d.kind = "pointer" THEN 1 ELSE d.max

LoadCounted(g, obj, d) ==
    IF g.err # None \/ TooMany(d, g.obj)
    THEN [g EXCEPT !.err = IF @ # None THEN @ ELSE "overflow", !.obj = obj]
    ELSE FoldLeft(LAMBDA x, i : GetPart(Extended(x, i, d.elem), i, d.elem),
                  [g EXCEPT !.obj = Shrunk(obj, @)], [i \in 1..g.obj |-> i])

LoadElems(g, d) == LoadCounted(Get([g EXCEPT !.obj = 0], "int"), g.obj, d)

\* The discriminant is loaded first, and then the member of its arm.
LoadMember(g, obj, t) ==
    LET which == TagNumber(t, g.obj)
        h == [g EXCEPT !.obj = Discriminate(t, obj, which)]
        n == FieldNumber(t, which)
    IN CASE g.err # None -> [g EXCEPT !.obj = obj]
         [] g.err = None /\ n < 0 -> Fail([g EXCEPT !.obj = obj], "bad_discriminant")
         [] g.err = None /\ n = 0 -> h
         [] g.err = None /\ n > 0 -> GetPart(h, "val", MemberType(t, n))

\* xdr::validate, a template that a program may specialize for its structs and unions, at
\* the end of their generated load.
Validated_Not(g, t) == g
Validated(g, t) == IF g.err = None /\ ~Valid(t, g.obj) THEN Fail(g, "invariant_failed") ELSE g

LoadUnion(g, t) ==
    LoadMember(Get([g EXCEPT !.obj = Default(Def[t].tag)], Def[t].tag), g.obj, t)

Load(g, t) ==
    LET d == Def[t] IN
    CASE d.kind \in {"vector", "pointer"} -> LoadElems(g, d)
      [] d.kind = "array" -> GetParts(g, [i \in 1..d.len |-> d.elem])
      [] d.kind = "struct" -> Validated(GetParts(g, d.fields), t)
      [] d.kind = "union" -> Validated(LoadUnion(g, t), t)

\* Numbers and opaques, whose width is known.
Number(d, bytes) ==
    CASE d.kind = "int" -> get32(bytes)
      [] d.kind = "bool" -> get32(bytes) # 0
      [] d.kind = "hyper" -> get64(bytes)

GetFixed(g, d, width) ==
    IF Lacks(g, width) THEN Fail(g, "overflow")
    ELSE IF d.kind = "opaque" THEN get_bytes(g, width)
    ELSE [g EXCEPT !.pos = @ + width, !.obj = Number(d, Bytes(g, width))]

GetCounted(g, n, max) ==
    IF Lacks(g, n) \/ n > max THEN Fail(g, "overflow") ELSE get_bytes(g, n)

GetBytes(g, max) ==
    IF Lacks(g, 4) THEN Fail(g, "overflow")
    ELSE GetCounted([g EXCEPT !.pos = @ + 4], get32(Bytes(g, 4)), max)

GetClass(g, t) == IF g.err # None THEN g ELSE Leave(Load(g, t))

Get(g, t) ==
    LET d == Def[t] IN
    CASE d.kind = "bytes" -> GetBytes(g, d.max)
      [] d.kind \in {"int", "bool"} -> GetFixed(g, d, 4)
      [] d.kind = "hyper" -> GetFixed(g, d, 8)
      [] d.kind = "opaque" -> GetFixed(g, d, d.len)
      [] OTHER -> GetClass(Enter(g), t)

\* xdr_from_msg: the archive's constructor, its arguments in turn, and done().
Done(g) == IF g.err = None /\ g.pos # Len(msg) THEN Fail(g, "bad_message_size") ELSE g
FromMsg ==
    LET g == [pos |-> 0, lim |-> limit, err |-> None, obj |-> dst] IN
    IF Len(msg) % 4 # 0 THEN Fail(g, "bad_message_size") ELSE Done(GetParts(g, types))

-----------------------------------------------------------------------------
(* xdr_clear, an archive [err, obj] that runs the generated load, and assignment. *)

RECURSIVE Clear(_, _)
ClearPart(g, i, t) ==
    IF g.err # None THEN g ELSE Back(Clear([g EXCEPT !.obj = g.obj[i]], t), g.obj, i)
ClearParts(g, ts) == FoldLeft(LAMBDA x, i : ClearPart(x, i, ts[i]), g, [i \in DOMAIN ts |-> i])

\* Only a union whose arm for 0 has a member goes through load.
ClearUnion(g, t) ==
    LET h == [g EXCEPT !.obj = Discriminate(t, @, 0)]
        n == FieldNumber(t, 0)
    IN IF n > 0 THEN Validated(ClearPart(h, "val", MemberType(t, n)), t) ELSE h

Clear(g, t) ==
    LET d == Def[t] IN
    CASE d.kind = "array" -> ClearParts(g, [i \in 1..d.len |-> d.elem])
      [] d.kind = "struct" -> Validated(ClearParts(g, d.fields), t)
      [] d.kind = "union" -> ClearUnion(g, t)
      [] OTHER -> [g EXCEPT !.obj = Default(t)]

\* The generated operator=: within an arm the member is assigned, else it is destroyed
\* and the other copy-constructed; the discriminant follows.  thrown: there was no memory
\* for the copy, and the discriminant is the largest number.
AssignUnion(t, v, w, thrown) ==
    IF FieldNumber(t, v.tag) = FieldNumber(t, w.tag)
    THEN [v EXCEPT !.tag = w.tag, !.val = IF FieldNumber(t, w.tag) > 0 THEN w.val ELSE @]
    ELSE IF thrown THEN Union(HighBit - 1, -1, <<>>)
    ELSE Union(w.tag, FieldNumber(t, w.tag), w.val)

-----------------------------------------------------------------------------
(* operator== and operator<; those of vectors, arrays and strings are the library's. *)

\* The first part in which one of two sequences is less decides, or else the length.
Lexicographic(a, b, Before(_, _, _)) ==
    \E k \in DOMAIN b :
        /\ \A j \in 1..(k - 1) : j \in DOMAIN a /\ ~Before(j, a[j], b[j]) /\ ~Before(j, b[j], a[j])
        /\ k \in DOMAIN a => Before(k, a[k], b[k])

RECURSIVE Less(_, _, _)

LessUnion(t, a, b) ==
    LET n == FieldNumber(t, a.tag) IN
    a.tag < b.tag \/ (a.tag = b.tag /\ n > 0 /\ Less(MemberType(t, n), a.val, b.val))

Less(t, a, b) ==
    LET d == Def[t] IN
    CASE d.kind \in {"int", "hyper"} -> a < b
      [] d.kind = "bool" -> ~a /\ b
      [] d.kind \in {"bytes", "opaque"} -> Lexicographic(a, b, LAMBDA i, x, y : x < y)
      [] d.kind \in {"vector", "array", "pointer"} -> Lexicographic(a, b, LAMBDA i, x, y : Less(d.elem, x, y))
      [] d.kind = "struct" -> Lexicographic(a, b, LAMBDA i, x, y : Less(d.fields[i], x, y))
      [] d.kind = "union" -> LessUnion(t, a, b)

SameArm_AnyTag(t, a, b) == FieldNumber(t, a.tag) = FieldNumber(t, b.tag)
SameArm(t, a, b) == a.tag = b.tag

RECURSIVE Equal(_, _, _)

EqualUnion(t, a, b) ==
    LET n == FieldNumber(t, a.tag) IN
    SameArm(t, a, b) /\ (n > 0 => Equal(MemberType(t, n), a.val, b.val))

Equal(t, a, b) ==
    LET d == Def[t]
        parts(Type(_)) == Len(a) = Len(b) /\ \A i \in DOMAIN a : Equal(Type(i), a[i], b[i])
    IN CASE d.kind \in {"vector", "array", "pointer"} -> parts(LAMBDA i : d.elem)
         [] d.kind = "struct" -> parts(LAMBDA i : d.fields[i])
         [] d.kind = "union" -> EqualUnion(t, a, b)
         [] OTHER -> a = b

-----------------------------------------------------------------------------
(* What a program does with its objects, and what comes over the connection. *)

Tuples(ts) ==
    IF Len(ts) = 1 THEN {<<a>> : a \in Objects[ts[1]]}
    ELSE {<<a, b>> : a \in Objects[ts[1]], b \in Objects[ts[2]]}

Init ==
    /\ big \in BOOLEAN /\ limit \in StackLimits
    /\ types \in ArgTypes /\ src \in Tuples(types) /\ dst \in Tuples(types)
    /\ stage = "marshal" /\ wire = <<>> /\ msg = <<>> /\ damage = 0
    /\ err = None /\ did = [op |-> None, pos |-> 0]

Write(a) ==
    /\ err' = a.err /\ did' = [op |-> "marshal", pos |-> 0]
    /\ IF a.err = None THEN wire' = Framed(a.buf) /\ stage' = "receive" ELSE stage' = "end" /\ UNCHANGED wire
    /\ UNCHANGED <<big, limit, types, src, dst, damage, msg>>

Marshal == stage = "marshal" /\ Write(ToMsg(types, src))

\* A word in the order of the network.
Net(w) == [i \in 1..4 |-> Digit(w, 4 - i)]

\* The peer is another program, and the connection may end in a message.
Damage ==
    LET n == Len(wire) - 4
        header(k) == Net(HighBit + k)
    IN /\ stage = "receive" /\ damage < MaxDamage /\ n >= 0
       /\ damage' = damage + 1
       /\ \E w \in ForeignWords, i \in 0..(n \div 4) :
            wire' \in {SubSeq(wire, 1, n + 3),
                       header(n - 4) \o SubSeq(wire, 5, n), header(n - 1) \o SubSeq(wire, 5, n + 3),
                       header(n + 4) \o SubSeq(wire, 5, n + 4) \o Net(w),
                       SubSeq(wire, 1, 4 * i) \o Net(w) \o SubSeq(wire, 4 * i + 5, n + 4)}
       /\ UNCHANGED <<big, limit, types, src, dst, stage, msg, err, did>>

\* read_message: the test of the low bits comes before the length is in this machine's
\* byte order.
Receive ==
    LET header == FromMemory(SubSeq(wire, 1, 4))
        size == swap32le(header) - HighBit
        bad == Len(wire) < 4 \/ header % 4 # 0 \/ size < 0 \/ Len(wire) - 4 < size
    IN /\ stage = "receive"
       /\ err' = IF bad THEN "bad_message_size" ELSE None
       /\ msg' = IF bad THEN <<>> ELSE SubSeq(wire, 5, 4 + size)
       /\ stage' = IF bad THEN "end" ELSE "unmarshal"
       /\ did' = [op |-> "receive", pos |-> 0]
       /\ UNCHANGED <<big, limit, types, src, dst, wire, damage>>

Read(g) ==
    /\ dst' = g.obj /\ err' = g.err /\ did' = [op |-> "unmarshal", pos |-> g.pos]
    /\ UNCHANGED <<big, limit, types, src, wire, damage, msg>>

Unmarshal == stage = "unmarshal" /\ stage' = "end" /\ Read(FromMsg)

Update(op, e, objs) ==
    /\ stage = "marshal" /\ did' = [op |-> op, pos |-> 0]
    /\ err' = e /\ dst' = objs
    /\ UNCHANGED <<big, limit, types, src, wire, damage, msg>>

ClearAll ==
    LET g == ClearParts([err |-> None, obj |-> dst], types) IN
    Update("clear", g.err, g.obj) /\ UNCHANGED stage

AssignAll ==
    /\ Update("assign", None, [i \in DOMAIN dst |->
           IF Def[types[i]].kind = "union" THEN AssignUnion(types[i], dst[i], src[i], FALSE) ELSE src[i]])
    /\ UNCHANGED stage

\* The exception is the end of the object.
AssignThrows ==
    LET t == types[1] IN
    /\ Def[t].kind = "union" /\ FieldNumber(t, dst[1].tag) # FieldNumber(t, src[1].tag)
    /\ Update("assign", "bad_alloc", [dst EXCEPT ![1] = AssignUnion(t, @, src[1], TRUE)])
    /\ stage' = "end"

\* The setter of the discriminant, with or without validation.
Switch ==
    \E which \in ForeignWords, validate \in BOOLEAN :
        LET t == types[1]
            throws == validate /\ FieldNumber(t, which) < 0
        IN /\ Def[t].kind = "union"
           /\ Update("switch", IF throws THEN "bad_discriminant" ELSE None,
                     IF throws THEN dst ELSE [dst EXCEPT ![1] = Discriminate(t, @, which)])
           /\ UNCHANGED stage

Next ==
    \/ Marshal \/ Damage \/ Receive \/ Unmarshal
    \/ ClearAll \/ AssignAll \/ AssignThrows \/ Switch

Spec == Init /\ [][Next]_vars

-----------------------------------------------------------------------------
(* RFC 4506, without reference to the code: the words of an object.  For each the    *)
(* set of words that a reader takes for it; strict leaves only those of the RFC,     *)
(* which has 1 for TRUE where the library takes any word but 0.                      *)

Parts(v, Words(_)) == FlattenSeq([i \in DOMAIN v |-> Words(i)])
Chunks(b) ==
    LET at(i) == IF i \in DOMAIN b THEN b[i] ELSE 0 IN
    [k \in 1..((Len(b) + 3) \div 4) |->
        {((at(4*k - 3) * Base + at(4*k - 2)) * Base + at(4*k - 1)) * Base + at(4*k)}]

RECURSIVE RfcWords(_, _, _)
RfcWords(t, v, strict) ==
    LET d == Def[t]
        true == IF strict THEN {1} ELSE 1..(Word - 1)
    IN CASE d.kind = "int" -> <<{v}>>
         [] d.kind = "hyper" -> <<{v \div Word}, {v % Word}>>
         [] d.kind = "bool" -> <<IF v THEN true ELSE {0}>>
         [] d.kind = "opaque" -> Chunks(v)
         [] d.kind = "bytes" -> <<{Len(v)}>> \o Chunks(v)
         [] d.kind \in {"vector", "pointer"} ->
               <<{Len(v)}>> \o Parts(v, LAMBDA i : RfcWords(d.elem, v[i], strict))
         [] d.kind = "array" -> Parts(v, LAMBDA i : RfcWords(d.elem, v[i], strict))
         [] d.kind = "struct" -> Parts(v, LAMBDA i : RfcWords(d.fields[i], v[i], strict))
         [] d.kind = "union" ->
               RfcWords(d.tag, Tag(t, v.tag), strict)
               \o IF v.arm > 0 THEN RfcWords(MemberType(t, v.arm), v.val, strict) ELSE <<>>

AllWords(objs, strict) == Parts(objs, LAMBDA i : RfcWords(types[i], objs[i], strict))

\* Whether bytes are a message of these objects.
Reads(objs, bytes, strict) ==
    LET w == AllWords(objs, strict)
        is == Chunks(bytes)
    IN Len(bytes) = 4 * Len(w) /\ \A k \in DOMAIN w : is[k] \subseteq w[k]

\* Whether P holds of an object and of all the objects in it.
RECURSIVE Everywhere(_, _, _)
Everywhere(P(_, _), t, v) ==
    LET d == Def[t] IN
    /\ P(t, v)
    /\ CASE d.kind \in {"vector", "array", "pointer"} -> \A i \in DOMAIN v : Everywhere(P, d.elem, v[i])
         [] d.kind = "struct" -> \A i \in DOMAIN v : Everywhere(P, d.fields[i], v[i])
         [] d.kind = "union" -> v.arm > 0 => Everywhere(P, MemberType(t, v.arm), v.val)
         [] OTHER -> TRUE

All(P(_, _), objs) == \A i \in DOMAIN objs : Everywhere(P, types[i], objs[i])

HasArm(t, v) == Def[t].kind = "union" => FieldNumber(t, v.tag) >= 0
InBounds(t, v) == Def[t].kind \in {"bytes", "vector"} => Len(v) <= Def[t].max

Max0(s) == FoldLeft(LAMBDA x, y : IF x < y THEN y ELSE x, 0, s)

RECURSIVE Depth(_, _)
Depth(t, v) ==
    LET d == Def[t] IN
    CASE d.kind \in {"vector", "array", "pointer"} -> 1 + Max0([i \in DOMAIN v |-> Depth(d.elem, v[i])])
      [] d.kind = "struct" -> 1 + Max0([i \in DOMAIN v |-> Depth(d.fields[i], v[i])])
      [] d.kind = "union" -> 1 + (IF v.arm > 0 THEN Depth(MemberType(t, v.arm), v.val) ELSE 0)
      [] OTHER -> 0

Fits(objs) == \A i \in DOMAIN objs : Depth(types[i], objs[i]) <= limit
Sound(objs) == All(HasArm, objs) /\ All(InBounds, objs) /\ All(Valid, objs) /\ Fits(objs)

-----------------------------------------------------------------------------
(* Properties. *)

\* The buffer is of just the size that serial_size computed from types and objects.  Objects
\* within their bounds whose unions have arms are marshaled into the bytes of RFC 4506, on
\* both kinds of machine, be they valid or not; objects without an arm, or nested too
\* deeply, throw.  Nothing is said of what becomes of a string or vector beyond its bound.
MarshalsRfc4506 ==
    did.op = "marshal" /\ damage = 0 =>
        /\ err # "overflow"
        /\ err = None => SubSeq(wire, 1, 4) = Net(HighBit + Len(wire) - 4)
        /\ All(InBounds, src) =>
            /\ err = None <=> All(HasArm, src) /\ Fits(src)
            /\ err = None => Reads(src, SubSeq(wire, 5, Len(wire)), TRUE)

\* Unmarshaling never reads behind the message, although the padding is not checked; it
\* succeeds for the messages of sound objects and no others, and leaves what the message
\* says whatever was in the objects before.  Sound objects include those alone that the
\* program's validate takes; a message of another one that is well formed is refused as such.
UnmarshalsExactly ==
    did.op = "unmarshal" =>
        /\ did.pos <= Len(msg)
        /\ err = None => Sound(dst) /\ Reads(dst, msg, FALSE)
        /\ err # None => \A objs \in Tuples(types) : Sound(objs) => ~Reads(objs, msg, FALSE)
        /\ damage = 0 =>
            /\ err = None <=> Sound(src)
            /\ err = None => dst = src
            /\ All(InBounds, src) => (err = "invariant_failed" <=> ~All(Valid, src))

\* A union destroys the member that was constructed, whatever failed before: a message
\* cut short, a discriminant refused, or memory for a copy (unless the default arm has a
\* member: its destructor then finds none).  Clearing gives the default object, unless that
\* or a part of it is one the program's validate refuses; assignment gives the source.
ObjectsWhole ==
    LET destroyable(t, v) ==
            Def[t].kind = "union" =>
                \/ v.arm = FieldNumber(t, v.tag)
                \/ FieldNumber(t, v.tag) <= 0 /\ v.arm <= 0
                \/ err = "bad_alloc" /\ FieldNumber(t, HighBit - 1) > 0
        defaults == [i \in DOMAIN types |-> Default(types[i])]
    IN /\ All(destroyable, dst)
       /\ did.op = "clear" => (err = None => dst = defaults) /\ (All(Valid, defaults) => err = None)
       /\ did.op = "assign" /\ err = None => dst = src

\* Objects are totally ordered, and equal just if they are the same on the wire.  (Their
\* numbers are integers: float and double, which the library compares with the == and < of
\* C++, are not ordered so when they are NaN, and 0.0 equals -0.0.)
Ordered ==
    \A i \in DOMAIN types :
        LET t == types[i]
            less == Less(t, src[i], dst[i])
            more == Less(t, dst[i], src[i])
            words(v) == RfcWords(t, v, TRUE)
        IN /\ ~(less /\ more)
           /\ Equal(t, src[i], dst[i]) <=> ~less /\ ~more
           /\ Equal(t, src[i], dst[i]) <=> words(src[i]) = words(dst[i])
           /\ less => \A third \in Objects[t] : Less(t, dst[i], third) => Less(t, src[i], third)
=============================================================================
