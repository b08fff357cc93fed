---------------------------- MODULE ProtocolDef -----------------------------
(***************************************************************************)
(* What a protocol definition file does to the library while Python        *)
(* executes it: the decorators rpc and notification enter the call in      *)
(* Protocol._rpcs, the decorators enum and struct append the type to       *)
(* _CUSTOM_USER_TYPES.  Both tables belong to the library and not to a     *)
(* protocol class, so all definition files of a program share them.        *)
(*                                                                         *)
(* The name of a member is its position in its structure; the C name of a  *)
(* list inside structures is the sequence of the members' names.           *)
(***************************************************************************)
EXTENDS Header, Integers, FiniteSets, SequencesExt

CONSTANTS
    Ids,            \* the rpc_ids that definition files ask for
    StructNames,    \* names of structures, in the order of their definition
    MaxMembers,     \* bound: members of a structure
    MaxDefinitions  \* bound: calls and types defined

ASSUME DefinitionAssumption ==
    /\ Ids \subseteq Int
    /\ StructNames \in Seq(STRING)
    /\ MaxMembers \in Nat
    /\ MaxDefinitions \in Nat

VARIABLES
    rpcs,           \* Protocol._rpcs
    types,          \* _CUSTOM_USER_TYPES, the structures in it
    enums           \* _CUSTOM_USER_TYPES, how many enumerations

definitions == <<rpcs, types, enums>>

CallDirection == {"TO_REMOTE", "TO_LOCAL", "TWO_WAY"}
Calls == [notification : BOOLEAN, direction : CallDirection]

\* A table after table[k] = value for all these keys.
Entered(table, keys, value) ==
    [k \in keys \cup DOMAIN table |-> IF k \in keys THEN value ELSE table[k]]

Structs == DOMAIN types
Definitions == Cardinality(DOMAIN rpcs) + Cardinality(Structs) + enums
-----------------------------------------------------------------------------
(* Calls.                                                                   *)

\* Mutant of validate_rpc_id: the range is not checked.
validate_rpc_id_unchecked(id) == id \notin DOMAIN rpcs

\* Protocol._validate_rpc_id
validate_rpc_id(id) == id \notin DOMAIN rpcs /\ id <= 3840 /\ id >= 0

\* The class body has ended and __set_name__ runs for one of its calls.  If the
\* id is refused, the class is not made; what was entered before stays.
rpc(id, call) ==
    /\ Definitions < MaxDefinitions
    /\ validate_rpc_id(id)
    /\ rpcs' = Entered(rpcs, {id}, call)
    /\ UNCHANGED <<types, enums>>
-----------------------------------------------------------------------------
(* Types.                                                                   *)

\* Members that are not structures, with their size in bits: a number of one
\* byte, a BitU, and a list, string or byte string with its length.
Primitive == {"U8", "BitU4", "list"}
size(t) == CASE t = "U8" -> 8 [] t = "BitU4" -> 4 [] t = "list" -> 16

\* A structure is not one of these.
ASSUME NamesAssumption == \A k \in DOMAIN StructNames : StructNames[k] \notin Primitive

\* Mutant of Extended: the fixed members of a nested structure are left out.
Extended_fixed(layout, t) ==
    IF t \in Structs
    THEN layout \o Tail(types[t].layout)
    ELSE LET sum == [layout EXCEPT ![Len(layout)] = @ + size(t)]
         IN  IF t = "list" THEN Append(sum, 0) ELSE sum

\* The loop of struct() over the members: what a member does to the layout.
Extended(layout, t) ==
    LET add == IF t \in Structs THEN types[t].layout[1] ELSE size(t)
        sum == [layout EXCEPT ![Len(layout)] = @ + add]
    IN  IF t = "list" THEN Append(sum, 0)
        ELSE IF t \in Structs THEN sum \o Tail(types[t].layout) ELSE sum

\* _dynamic_member_names: the C names of the lists in a member.
Lists(m) ==
    IF m.type = "list" THEN <<<<m.name>>>>
    ELSE IF m.type \in Structs
         THEN [k \in DOMAIN types[m.type].lists |-> <<m.name>> \o types[m.type].lists[k]]
         ELSE <<>>

\* What the store function of a member writes, in order.
Items(m) ==
    IF m.type \in Structs THEN <<"open">> \o types[m.type].items \o <<"close">> ELSE <<m.type>>

\* A structure: its layout, the bits up to the end of the length of each list
\* and those after the last one; the C names of its lists; and its items.
Struct(members) ==
    [members |-> members,
     layout |-> FoldLeft(LAMBDA l, m : Extended(l, m.type), <<0>>, members),
     lists |-> FlattenSeq([k \in DOMAIN members |-> Lists(members[k])]),
     items |-> FlattenSeq([k \in DOMAIN members |-> Items(members[k])])]

\* The members that the next structure can have.
Members ==
    UNION {{[k \in 1 .. n |-> [name |-> k, type |-> t[k]]] :
               t \in [1 .. n -> Primitive \cup Structs]} : n \in 1 .. MaxMembers}

struct(members) ==
    /\ Definitions < MaxDefinitions
    /\ Cardinality(Structs) < Len(StructNames)
    /\ types' = Entered(types, {StructNames[Cardinality(Structs) + 1]}, Struct(members))
    /\ UNCHANGED <<rpcs, enums>>

enum ==
    /\ Definitions < MaxDefinitions
    /\ enums' = enums + 1
    /\ UNCHANGED <<rpcs, types>>
-----------------------------------------------------------------------------
NothingDefined ==
    /\ rpcs = <<>>
    /\ types = <<>>
    /\ enums = 0

Define ==
    \/ \E id \in Ids, call \in Calls : rpc(id, call)
    \/ \E members \in Members : struct(members)
    \/ enum
-----------------------------------------------------------------------------
(* Properties.                                                              *)

DefinitionsOK ==
    /\ DOMAIN rpcs \subseteq Ids
    /\ \A id \in DOMAIN rpcs : rpcs[id] \in Calls
    /\ \A t \in Structs :
           /\ types[t].layout \in Seq(Nat)
           /\ Len(types[t].layout) = Len(types[t].lists) + 1
    /\ enums \in Nat

\* Lengths and transaction numbers at the edges of their range.
EdgeHeaders(id) ==
    [len : {0, 255}, txn : {0, 1, 255}, resp : BOOLEAN, rpc_id : {id}]

\* Every call that could be registered can be told from every other message:
\* its identifier passes through the header of all three languages unchanged,
\* and is neither UNKNOWN_MSG of the generated C code (0xFEE) nor one of the
\* error responses of C# (0xFEE and 0xFEF).
IdsSurviveHeaders ==
    \A id \in DOMAIN rpcs :
        /\ \A h \in EdgeHeaders(id) : Survives(h)
        /\ id \notin {4078, 4079}

NoBytes == [bytes |-> 0, bits |-> 0, partial |-> 0]

\* The bytes that the generated store function writes between lists: it moves on
\* to a whole byte before everything that is not a BitU.  A segment has the
\* bytes so far and the bits after them.
Store(segments, item) ==
    LET now == Last(segments)
        aligned == [bytes |-> now.bytes + (now.bits + 7) \div 8, bits |-> 0,
                    partial |-> now.partial + (IF now.bits % 8 = 0 THEN 0 ELSE 1)]
        end == IF item = "BitU4" THEN [now EXCEPT !.bits = @ + 4]
               ELSE IF item \in {"open", "close"} THEN aligned
               ELSE [aligned EXCEPT !.bytes = @ + size(item) \div 8]
        changed == Append(Front(segments), end)
    IN  IF item = "list" THEN Append(changed, NoBytes) ELSE changed
Stored(t) == FoldLeft(Store, <<NoBytes>>, types[t].items \o <<"close">>)

\* The layout that struct() computes, from which the allocator takes the places
\* of the lists, is where the store function puts them: unless two groups of
\* BitU members between two lists end inside a byte, since struct() adds up
\* bits and rounds once.
LayoutMatchesStore ==
    \A t \in Structs :
        \A k \in DOMAIN types[t].layout :
            Stored(t)[k].partial <= 1
                => (types[t].layout[k] + 7) \div 8 = Stored(t)[k].bytes
=============================================================================
