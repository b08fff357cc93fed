----------------------------- MODULE Generator ------------------------------
(***************************************************************************)
(* Class Generator, used by a script that has read the definition files:   *)
(* it configures the C and the C# generator, calls their generate(), which *)
(* the Generator has wrapped, and writes the files by run(), explicitly or *)
(* at the end of a with block, after asking the user about files that      *)
(* exist.                                                                  *)
(*                                                                         *)
(* A file is told by its kind, which stands for its suffix, and by its     *)
(* location, which stands for directory and filename.                      *)
(***************************************************************************)
EXTENDS CodeGen

CONSTANTS
    Locations,      \* the directories and filenames that the script sets
    MaxGenerated,   \* bound: definitions, and members of each, when the Generator is used
    MaxGenerates,   \* bound: calls of generate()
    MaxPresent      \* bound: files that exist before

ASSUME GeneratorAssumption ==
    /\ Locations # {}
    /\ MaxGenerated \in Nat
    /\ MaxGenerates \in Nat
    /\ MaxPresent \in Nat

VARIABLES
    force,          \* _force_overwrite, as the script has set it when run() begins
    in_with,        \* _in_with_context
    output_cache,   \* _output_cache, its items in order
    path_cache,     \* _path_cache
    defined,        \* how many times _enums, _structs ... of the C generator got all types
    generates,      \* calls of generate() so far
    files,          \* the file system
    phase,          \* the script runs, or run() asks or writes
    todo,           \* what run() is about to write
    \* History.
    existed,        \* the files that existed when run() began
    wanted,         \* the outputs whose files the user agreed to overwrite
    complete        \* the last run() wrote everything that was generated

cache == <<in_with, output_cache, path_cache, defined, generates>>
output == <<force, files, phase, todo, existed, wanted, complete>>
vars == <<definitions, cache, output>>

Kinds == {"h", "c", "cs", "types"}
Paths == Kinds \X Locations
Keys == CodeGenerators \X Endpoint

\* What the Generator writes, or only a part of it, be it none.
Partial == -1
Content == [key : Keys, defined : {Partial} \cup 0 .. MaxGenerates]
Part(content) == [content EXCEPT !.defined = Partial]

\* There is no file; and a file that is not the Generator's.
Absent == [key |-> <<>>, defined |-> 0]
Foreign == [key |-> <<"foreign">>, defined |-> 0]

Init ==
    /\ NothingDefined
    /\ force = FALSE
    /\ in_with = FALSE
    /\ output_cache = <<>>
    /\ path_cache = <<>>
    /\ defined = 0
    /\ generates = 0
    /\ \E present \in SUBSET Paths :
           /\ Cardinality(present) <= MaxPresent
           /\ files = [p \in Paths |-> IF p \in present THEN Foreign ELSE Absent]
    /\ phase = "script"
    /\ todo = <<>>
    /\ existed = {}
    /\ wanted = {}
    /\ complete = FALSE
-----------------------------------------------------------------------------
(* The script.                                                              *)

Script ==
    /\ phase = "script"
    /\ Definitions <= MaxGenerated
    /\ \A t \in Structs : Len(types[t].members) <= MaxGenerated

\* The definition files are read before the first generate().
Import ==
    /\ phase = "script"
    /\ generates = 0
    /\ Define
    /\ UNCHANGED <<cache, output>>

\* What path, path_header, path_source and filename can be set to, by kind: the
\* C# files are always together.
Settings == {location \in [Kinds -> Locations] : location["cs"] = location["types"]}

\* The paths that generate() returns, in order; the file of the C# types is
\* there only if there are types.
Result(g, location) ==
    LET kinds == IF g = "c" THEN <<"h", "c">>
                 ELSE IF Structs # {} \/ enums > 0 THEN <<"cs", "types">> ELSE <<"cs">>
    IN  [k \in DOMAIN kinds |-> <<kinds[k], location[kinds[k]]>>]

\* Mutant of Taken: only the outputs of this with block are looked at.
Taken_cached(p) == \E k \in DOMAIN output_cache : p \in Range(output_cache[k].paths)

\* The path was registered before, be it in an earlier with block or by a call
\* of generate() that failed.
Taken(p) == p \in DOMAIN path_cache

\* The keys of _output_cache.
Cached == {output_cache[k].key : k \in DOMAIN output_cache}

\* Mutant of Registered: nobody asks whether a path is taken.
Registered_all(paths) == paths

\* The paths that the loop of the wrapper registers: it stops at the first one
\* that is taken.
Registered(paths) ==
    LET at == SelectInSeq(paths, LAMBDA p : Taken(p))
    IN  IF at = 0 THEN paths ELSE SubSeq(paths, 1, at - 1)

\* The C generator collects the definitions of the types in its attributes and
\* never empties them: another generate() defines all types once more.
define_types(g) == IF g = "c" THEN defined + 1 ELSE defined

\* The script sets the properties of the generator and calls its generate().
generate(g, endpoint, location) ==
    /\ Script
    /\ generates < MaxGenerates
    /\ validate_endpoint(g, endpoint)
    /\ generates' = generates + 1
    /\ defined' = define_types(g)
    /\ LET paths == Result(g, location)
           item == [key |-> <<g, endpoint>>, paths |-> paths, defined |-> defined']
       IN  \/ /\ item.key \in Cached
              /\ UNCHANGED <<output_cache, path_cache>>
           \/ /\ item.key \notin Cached
              /\ path_cache' = Entered(path_cache, Range(Registered(paths)), item.key)
              /\ output_cache' = IF Registered(paths) = paths
                                 THEN Append(output_cache, item) ELSE output_cache
    /\ complete' = FALSE
    /\ UNCHANGED <<definitions, in_with, force, files, phase, todo, existed, wanted>>

\* Blocks may be nested: the inner one takes the outputs of the outer one with it,
\* whose end is then an explicit run().
enter ==
    /\ Script
    /\ in_with' = TRUE
    /\ output_cache' = <<>>
    /\ complete' = FALSE
    /\ UNCHANGED <<definitions, path_cache, defined, generates,
                   force, files, phase, todo, existed, wanted>>
-----------------------------------------------------------------------------
(* run().                                                                   *)

Exists(p) == files[p] # Absent

\* Mutant of Existing: only the first file of an output is looked for.
Existing_first(item) == {p \in {item.paths[1]} : Exists(p)}

Existing(item) == {p \in Range(item.paths) : Exists(p)}

\* The keys of to_overwrite.
to_overwrite == {item.key : item \in {x \in Range(output_cache) : Existing(x) # {}}}

\* Mutant of as_typed_str: the endpoint is never part of the name.
as_typed_str_short(key) == <<key[1], "any">>

\* How the user names an output: with its endpoint if its generator has more
\* than one output.
as_typed_str(key) ==
    IF \E other \in Cached : other # key /\ other[1] = key[1]
    THEN key ELSE <<key[1], "any">>

\* Mutant of IsWritten: outputs of which no file exists are left out.
IsWritten_old(key, response) == key \in to_overwrite /\ as_typed_str(key) \in response

IsWritten(key, response) == key \in to_overwrite => as_typed_str(key) \in response

\* What is written if the response names these outputs, in the order of the loops.
Writes(response) ==
    FlattenSeq([k \in DOMAIN output_cache |->
        LET item == output_cache[k]
        IN  IF IsWritten(item.key, response)
            THEN [f \in DOMAIN item.paths |->
                     [path |-> item.paths[f],
                      content |-> [key |-> item.key, defined |-> item.defined]]]
            ELSE <<>>])

\* run() returns or raises.
Ended ==
    /\ phase' = "script"
    /\ todo' = <<>>
    /\ existed' = {}
    /\ wanted' = {}
    /\ force' = FALSE

\* run() up to the question, or up to the loop that writes.
run(forced) ==
    /\ force' = forced
    /\ existed' = {p \in Paths : Exists(p)}
    /\ complete' = FALSE
    /\ IF to_overwrite = {} \/ forced
       THEN /\ phase' = "write"
            /\ todo' = Writes({as_typed_str(key) : key \in to_overwrite})
            /\ wanted' = to_overwrite
       ELSE /\ phase' = "ask"
            /\ UNCHANGED <<todo, wanted>>
    /\ UNCHANGED <<definitions, output_cache, path_cache, defined, generates, files>>

\* In a with block, run() does nothing.
explicit_run(forced) ==
    /\ Script
    /\ ~ in_with
    /\ run(forced)
    /\ UNCHANGED in_with

\* __exit__ does not look at the exception that may have ended the block.
exit(forced) ==
    /\ Script
    /\ in_with
    /\ in_with' = FALSE
    /\ run(forced)

\* The user, who has in mind the outputs in keys, types their names, or all; the
\* question is repeated until all the names are right.
answer(keys) ==
    /\ phase = "ask"
    /\ keys # {}
    /\ wanted' = keys
    /\ todo' = Writes({as_typed_str(key) : key \in keys})
    /\ phase' = "write"
    /\ UNCHANGED <<definitions, cache, force, files, existed, complete>>

\* With the answer none, run() returns: files that are new are not written either.
answer_none ==
    /\ phase = "ask"
    /\ Ended
    /\ UNCHANGED <<definitions, cache, files, complete>>

write ==
    /\ phase = "write"
    /\ todo # <<>>
    /\ files' = [files EXCEPT ![Head(todo).path] = Head(todo).content]
    /\ todo' = Tail(todo)
    /\ UNCHANGED <<definitions, cache, force, phase, existed, wanted, complete>>

\* write_text raises, before or after it has opened the file, which empties it,
\* and the rest is not written.
write_raises(opened) ==
    /\ phase = "write"
    /\ todo # <<>>
    /\ files' = IF opened THEN [files EXCEPT ![Head(todo).path] = Part(Head(todo).content)]
                          ELSE files
    /\ Ended
    /\ UNCHANGED <<definitions, cache, complete>>

written ==
    /\ phase = "write"
    /\ todo = <<>>
    /\ Ended
    /\ complete' = \A item \in Range(output_cache) :
                       Range(item.paths) \cap existed # {} => item.key \in wanted
    /\ UNCHANGED <<definitions, cache, files>>
-----------------------------------------------------------------------------
Run ==
    \/ \E forced \in BOOLEAN : explicit_run(forced) \/ exit(forced)
    \/ \E keys \in SUBSET to_overwrite : answer(keys)
    \/ answer_none
    \/ write
    \/ \E opened \in BOOLEAN : write_raises(opened)
    \/ written

Next ==
    \/ Import
    \/ \E g \in CodeGenerators, endpoint \in Endpoint, location \in Settings :
           generate(g, endpoint, location)
    \/ enter
    \/ Run

Spec == Init /\ [][Next]_vars
-----------------------------------------------------------------------------
(* Properties.                                                              *)

\* Type invariant: in particular every output that waits in _output_cache has
\* all its paths registered as its own.
TypeOK ==
    /\ DefinitionsOK
    /\ force \in BOOLEAN
    /\ in_with \in BOOLEAN
    /\ DOMAIN path_cache \subseteq Paths
    /\ \A p \in DOMAIN path_cache : path_cache[p] \in Keys
    /\ \A item \in Range(output_cache) :
           /\ item.key \in Keys
           /\ item.defined \in 0 .. defined
           /\ \A p \in Range(item.paths) :
                  p \in DOMAIN path_cache /\ path_cache[p] = item.key
    /\ generates \in 0 .. MaxGenerates
    /\ defined \in 0 .. generates
    /\ files \in [Paths -> {Absent, Foreign} \cup Content]
    /\ phase \in {"script", "ask", "write"}
    /\ todo \in Seq([path : Paths, content : Content])
    /\ existed \subseteq Paths
    /\ wanted \subseteq Keys
    /\ complete \in BOOLEAN

\* No output of a Generator ever replaces a file of another output: neither in
\* one run(), nor in a later with block, nor after a generate() that failed
\* half way or a run() that a failed write cut short.
WrittenByOwner ==
    \A p \in Paths :
        files[p] \in Content => p \in DOMAIN path_cache /\ path_cache[p] = files[p].key

\* run() replaces a file that existed when it began only if overwriting is
\* forced or the user named the very output the file belongs to, also when
\* only one of the output's files existed.
NoUnaskedOverwrite ==
    \A w \in Range(todo) : w.path \in existed => force \/ w.content.key \in wanted

\* If the user declines nothing and no write fails, the files hold all that was
\* generated last.
FilesAreCurrent ==
    complete => \A item \in Range(output_cache) :
                    \A p \in Range(item.paths) :
                        files[p] = [key |-> item.key, defined |-> item.defined]
=============================================================================
