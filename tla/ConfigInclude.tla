---------------------------- MODULE ConfigInclude ----------------------------
(***************************************************************************)
(* The ssh_config(5) resolver of src/config.rs: the Include pre-processor, *)
(* which splices the included files into the text of the main file one     *)
(* line at a time, and what the russh_config parser (external) makes of    *)
(* the result.                                                             *)
(*                                                                         *)
(* A file is a number, which is its canonical path and its place in path   *)
(* order; Main is ~/.ssh/config or the file of -F.  A line of the merged   *)
(* text is the place <<file, index>> it was copied from.                   *)
(***************************************************************************)
EXTENDS Integers, FiniteSets, SequencesExt

CONSTANTS
  MaxDepth,     \* MAX_INCLUDE_DEPTH
  None          \* no value; as the content of a file: it cannot be read

ASSUME MaxDepthAssumption == MaxDepth \in Nat

Main == 0

VARIABLES
  fs,       \* the files there are: number -> sequence of lines, or None
  alias,    \* the host of the command line, which Include's %h and Host match
  stack,    \* the calls of preprocess_includes, the innermost last
  seen,     \* the files some Include has opened
  merged,   \* the text so far
  result    \* None, "ok", or why the configuration was refused

configVars == <<fs, alias, stack, seen, merged, result>>

-----------------------------------------------------------------------------
\* What there can be to read: finitely many files, and an Include that names
\* finitely many of them.
FilesWellFormed ==
  /\ IsFiniteSet(DOMAIN fs)
  /\ \A f \in DOMAIN fs : fs[f] # None =>
       /\ fs[f] \in Seq(ToSet(fs[f]))
       /\ \A i \in DOMAIN fs[f] : fs[f][i].kind = "include" => IsFiniteSet(fs[f][i].of[alias])

\* One call of preprocess_includes: the line it is at, the files of that line
\* still to be spliced in, and seen_block_keyword.
Frame(file) == [file |-> file, line |-> 1, todo |-> <<>>, block |-> FALSE]

Readable(file) == file \in DOMAIN fs /\ fs[file] # None
LineAt(place) == fs[place[1]][place[2]]
Top == Last(stack)
AtEnd == Top.line > Len(fs[Top.file])
Here == fs[Top.file][Top.line]

\* A set of numbers in its order.
Nth(S, i) == CHOOSE x \in S : Cardinality({y \in S : y < x}) = i - 1
Ascending(S) == [i \in 1..Cardinality(S) |-> Nth(S, i)]

\* expand_include_tokens and expand_glob: the pattern as the host makes it; a
\* literal path is its own match, a glob matches what exists, in path order.
Matches(include) ==
  LET wanted == include.of[alias]
  IN Ascending(IF include.literal THEN wanted ELSE wanted \cap DOMAIN fs)

\* resolve_config and load_and_parse: what there is to read decides whether
\* there is anything to do.  named: -F; skip: -F /dev/null.
ConfigStart(named, skip) ==
  /\ seen' = {}
  /\ merged' = <<>>
  /\ stack' = IF Readable(Main) /\ ~skip THEN <<Frame(Main)>> ELSE <<>>
  /\ result' = CASE skip -> "ok"
                 [] ~skip /\ Readable(Main) -> None
                 [] OTHER -> IF named THEN "unreadable" ELSE "ok"
  /\ UNCHANGED <<fs, alias>>

Refuse(why) ==
  /\ result' = why
  /\ stack' = <<>>
  /\ UNCHANGED <<fs, alias, seen, merged>>

\* Any line that is not an Include is copied; Host and Match end the part of
\* their own file where Include is allowed.
CopyLine ==
  /\ ~AtEnd /\ Top.todo = <<>>
  /\ Here.kind \notin {"include", "bare include"}
  /\ merged' = Append(merged, <<Top.file, Top.line>>)
  /\ stack' = [stack EXCEPT ![Len(stack)].line = @ + 1,
                            ![Len(stack)].block = @ \/ Here.kind \in {"host", "match"}]
  /\ UNCHANGED <<fs, alias, seen, result>>

\* Mutant: Include also accepted after a Host or Match line.
ReadIncludeAnywhere ==
  /\ ~AtEnd /\ Top.todo = <<>>
  /\ Here.kind = "include" /\ Matches(Here) # <<>>
  /\ stack' = [stack EXCEPT ![Len(stack)].line = @ + 1,
                            ![Len(stack)].todo = Matches(Here)]
  /\ UNCHANGED <<fs, alias, seen, merged, result>>

ReadInclude ==
  /\ ~AtEnd /\ Top.todo = <<>>
  /\ \/ Here.kind = "bare include" /\ Refuse("malformed")
     \/ Here.kind = "include" /\ Top.block /\ Refuse("block")
     \/ Here.kind = "include" /\ ~Top.block /\ Matches(Here) = <<>> /\ Refuse("no match")
     \/ /\ Here.kind = "include" /\ ~Top.block /\ Matches(Here) # <<>>
        /\ stack' = [stack EXCEPT ![Len(stack)].line = @ + 1,
                                  ![Len(stack)].todo = Matches(Here)]
        /\ UNCHANGED <<fs, alias, seen, merged, result>>

\* Mutant: only the first match of a glob is spliced in.
OpenFirstOnly ==
  /\ Top.todo # <<>>
  /\ LET file == Head(Top.todo)
     IN /\ file \notin seen /\ Readable(file)
        /\ seen' = seen \cup {file}
        /\ stack' = Append([stack EXCEPT ![Len(stack)].todo = <<>>], Frame(file))
        /\ UNCHANGED <<fs, alias, merged, result>>

\* The next matched file: the cycle guard, the read, then the recursive call,
\* which looks at its depth first.
OpenIncluded ==
  /\ Top.todo # <<>>
  /\ LET file == Head(Top.todo)
     IN \/ file \in seen /\ Refuse("cycle")
        \/ file \notin seen /\ ~Readable(file) /\ Refuse("unreadable")
        \/ file \notin seen /\ Readable(file) /\ Len(stack) > MaxDepth /\ Refuse("depth")
        \/ /\ file \notin seen /\ Readable(file) /\ Len(stack) <= MaxDepth
           /\ seen' = seen \cup {file}
           /\ stack' = Append([stack EXCEPT ![Len(stack)].todo = Tail(@)], Frame(file))
           /\ UNCHANGED <<fs, alias, merged, result>>

\* The place of the Host line the parser files a line of the merged text
\* under (external: a Match line is dropped by the parser).
HostLines(i) == {j \in 1..(i - 1) : LineAt(merged[j]).kind = "host"}
Governor(i) == merged[CHOOSE j \in HostLines(i) : \A k \in HostLines(i) : k <= j]
Settings == {i \in DOMAIN merged : LineAt(merged[i]).kind = "set"}

\* The end of a file: the caller goes on after its Include, with its own
\* seen_block_keyword.  The end of the main file: the parser refuses a setting
\* that no Host line precedes.
FinishFile ==
  /\ AtEnd /\ Top.todo = <<>>
  /\ stack' = Front(stack)
  /\ result' = CASE Len(stack) > 1 -> None
                 [] Len(stack) = 1 /\ (\E i \in Settings : HostLines(i) = {}) -> "parse"
                 [] OTHER -> "ok"
  /\ UNCHANGED <<fs, alias, seen, merged>>

ConfigStep ==
  /\ stack # <<>>
  /\ CopyLine \/ ReadInclude \/ OpenIncluded \/ FinishFile

\* What the parser finds for the alias: the lines filed under a Host line that
\* matches it.  Which of several values of one keyword wins is the parser's
\* business: any of them; IdentityFile lines accumulate in order.
Found(key) ==
  {i \in Settings : /\ LineAt(merged[i]).key = key
                    /\ alias \in LineAt(Governor(i)).hosts}
FoundValues(key) == {LineAt(merged[i]).value : i \in Found(key)}
FoundInOrder(key) ==
  LET order == Ascending(Found(key))
  IN [n \in DOMAIN order |-> LineAt(merged[order[n]]).value]

-----------------------------------------------------------------------------
\* The reference: a file with every Include replaced by the files it names, in
\* path order, to a depth no chain of different files can pass.
LineText(f, i, texts) ==
  IF fs[f][i].kind # "include" THEN <<<<f, i>>>>
  ELSE LET from == Matches(fs[f][i])
       IN FlattenSeq([n \in DOMAIN from |->
                        IF from[n] \in DOMAIN fs THEN texts[from[n]] ELSE <<>>])
Expanded(texts) ==
  [f \in DOMAIN fs |->
     IF fs[f] = None THEN <<>>
     ELSE FlattenSeq([i \in DOMAIN fs[f] |-> LineText(f, i, texts)])]
Splice(file) ==
  LET Depth == Cardinality(DOMAIN fs) + 1
      spliced[d \in 0..Depth] ==
        IF d = 0 THEN [f \in DOMAIN fs |-> <<>>] ELSE Expanded(spliced[d - 1])
  IN spliced[Depth][file]

\* A configuration that is accepted is the main file with every included file
\* spliced in where its Include stood, whatever the nesting: nothing is lost,
\* repeated or moved.
ExpandsInPlace ==
  result = "ok" /\ merged # <<>> => merged = Splice(Main)

\* A setting that follows a Host line in its own file still belongs to that
\* Host after the merge, whatever the included files open in between.
BlockOwnsItsLines ==
  result = "ok" =>
    \A i \in Settings :
      LET file == merged[i][1]
          above == {j \in 1..(merged[i][2] - 1) : fs[file][j].kind \in {"host", "match"}}
      IN \A h \in above :
           fs[file][h].kind = "host" /\ (\A k \in above : k <= h) => Governor(i) = <<file, h>>

\* What is refused as a cycle has one: "cyclic includes (A includes B includes A)"
\* (config.rs:173), files each of which includes another of them.  The guard keeps
\* every file that was ever opened, so one that is included twice is refused too.
RefusesOnlyCycles ==
  LET includes(f, g) == /\ Readable(f)
                        /\ \E i \in DOMAIN fs[f] : /\ fs[f][i].kind = "include"
                                                  /\ g \in ToSet(Matches(fs[f][i]))
  IN  result = "cycle" =>
        \E S \in SUBSET DOMAIN fs : S # {} /\ \A f \in S : \E g \in S : includes(f, g)
==============================================================================
