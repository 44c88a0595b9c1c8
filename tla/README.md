# A TLA+ model of 42sh

42sh is a POSIX-like shell in C (`src/src/`). This directory holds TLA+ modules
that model its core, TLC configurations that check them on small instances, and
proofs checked by TLAPS. `PROJECT.json` maps every definition to the lines of C
it stands for and lists the hazards the properties are aimed at.

## 1. The system

A run of the shell is one process. `main` reads one text, `run_program` turns it
into tokens (lexer), a syntax tree (parser) and executes the tree (executor).
Only the first line of a text is ever executed: `parse_input` parses one list.

| Part | State | Operations | Hard behaviour |
|---|---|---|---|
| redirections (`redirection/`, `simple_cmd_exec`) | descriptor table; `save_io_number` in every redirection node; the stdout buffer | `fd_out`, `fd_in`, `fd_io`, `fd_dup_in_out`, `reset_fd` | a save lives in the tree, so a second execution of the node overwrites it; every call can fail half way; buffered text follows descriptor 1 |
| executor (`exec/exec.c`) | the C stack, `$?`, words that `strtok_r` cuts in the tree | `ast_exec`, `exec_op`, `exec_if`, `exec_w`, `exec_u`, `shell_cmd_exec` | nesting of lists, loops, functions; every node overwrites `$?` |
| pipelines (`exec_pipe`) | processes, pipe ends, exit statuses | `pipe`, two `fork`s, two `waitpid`s, nested for `a \| b \| c` | inherited ends, early ends, SIGPIPE, failing `fork` |
| variables (`ast/variable.c`, `built_in/cd.c`, `unset.c`) | a doubly linked list, the current directory | init, add, update, get, remove; `cd`, `unset`, assignment | long sequences of operations; ends of the list; copies of the directory in PWD and OLDPWD |
| expansion (`expansion/expansion.c`, `to_command`) | the word being rewritten | `expand_variable`, `get_word`, `expand_substitution` | malformed words; a loop that puts a `$` back on each turn |
| command substitution (`exec_word`) | shell, child, a pipe | `fork`, `waitpid`, `read` | waiting before reading; a background job that holds the pipe; a `fork` or `waitpid` that fails; the last byte read is overwritten |
| programs and functions (`run_program.c`, `built_in/dot.c`, `parser/parse_func.c`, `others/hash_map.c`) | the function table, the tokens and trees in memory, `variables_list` | `run_program`, `.`, insert, get | pointers in the table outlive the program that defined the function |
| parser (`parser/`, `ast/ast.c`) | the position in the tokens, the list `parser->nodes` of what is freed in the end, the function table | one function per grammar rule, `ast_append` | rules that call each other and share one list; which trees exist; what a failing rule leaves |
| lexer (`lexer/`, `remove_escaped_newline`) | the position in the text, the list of tokens | `lexer_load` and its rules, `handle_double_quote` | quotes, backslashes and operators next to each other; positions computed from a value that was changed since |
| command line, debug printing, lists of words, test suite | none that lasts | | |

Interactions are calls, except for the processes of pipelines and substitutions,
which share pipes and are waited for, and for the state behind the program's
back: the syntax tree (modified by redirections and assignments while it is
executed), the function table (pointers into the trees) and the stdout buffer
(copied by `fork`).

What makes each part correct: redirections are undone and output goes where it
was sent; a text is cut into the tokens it spells and parsed as the grammar says,
into a tree the executor can follow and whose nodes are freed once; the executor
runs the commands POSIX asks for; a pipeline ends, with the status of its last
command; the list of variables is a map; a word becomes what POSIX says; a
substitution returns the output; a lookup finds the latest definition and nothing
is used after it was freed.

Facts of the code that the models keep and a reader might not expect: `$?` is 1
when a program starts (`parse` stores the 1 that means success); `exit` is a
command that returns a status and leaves nothing; `( )` creates no process;
double quotes do not change how a `$` is treated later; functions are entered
when they are parsed, before any command of the program runs; a redirection and
its word are one token when nothing is between them.

## 2. Modules

| Module | Models | Notes |
|---|---|---|
| `Lexer` | `lexer_load`: one action per rule that takes something off the text, `handle_double_quote` one token a step; `remove_escaped_newline` | texts are sequences of characters, because the properties are about which of them end up in which token |
| `RedirectionToken` | the text of one redirection token as `parse_redirection` takes it apart | between the lexer and the parser |
| `MCLexer` | all short texts over small alphabets; texts spelled from pieces with known tokens | |
| `Parser` | every grammar rule on types of tokens, with the nodes it allocates, the list it appends them to, and the functions it enters | a rule maps a record (position, heap, list, table, result) to the next; a loop of the code is `Repeat`, and the rules reach each other through `Inside`, a function of how many commands may be inside each other, so that nothing is `RECURSIVE`; the text grows by a token a step |
| `MCParser` | beginnings of texts, and the POSIX grammar as sets of trees | a recursive reference that shares nothing with the rules but the tokens; `WordsKept` |
| `Redirection` | `simple_cmd_exec`, all handlers, `reset_fd`, the stdout buffer | `stack` is the C stack of `simple_cmd_exec`; a function, and a file read with `.`, is a sequence of commands executed in its body; the nodes of a file are new each time it is read |
| `MCRedirection` | a syntax tree with every kind of command and redirection | also the tree of `echo text > file > 2` |
| `Exec` | `ast_exec` and every handler it calls | one frame per active call, `log` records what ran |
| `MCExec` | four trees, and a recursive reference semantics of POSIX 2.9 | recursion stays out of `Exec` |
| `Pipeline` | `exec_pipe` in the shell and in the children, pipes, commands | the last level is run by the shell, each other one by the left child of the next; level 1 connects the first two commands |
| `Variables` | the list cell by cell, `cd`, `unset`, assignment, lookup | `cmd` is the command with its arguments; `environ` is what `getenv` sees |
| `MCVariables` | two environments: with `HOME`, and with `OLDPWD` and `UID` | |
| `VarMap` | the abstract specification: each command, with its arguments, as a change of a map; which commands stop the shell | `Variables` implements it (`ImplementsMap`); `newest` is there only because the variable created last cannot be removed |
| `Expansion`, `MCExpansion` | the text of a word through `to_command`'s loop, and once for an assignment | words are sequences of characters: the property is about the text |
| `Substitution` | `exec_word`, its child, a background job, and a child the shell may have had before | units of output keep the order of buffer, pipe and output sizes; its names differ from those of `Expansion` (`SubstInit`, `SubstSpec`), with which it shares a proof module |
| `Session`, `MCSession` | programs, `.`, the function table, what is freed when, and what never is | a pointer is a pair of program and item |
| `Redirection_proofs`, `Exec_proofs`, `Pipeline_proofs`, `Session_proofs`, `Lexer_proofs`, `Variables_proofs`, `Parser_proofs`, `Expansion_proofs` | theorems about the module of that name, and in the last one about `Substitution` too | section 5 |

How code and actions correspond: an action is a handler, or the part of one
between two points where another actor, or another call of the same function,
can come between. A rule of the parser is an operator and not an action: nothing
runs beside the parser, and what a rule leaves behind for the next one is in the
record it returns. What the modules hand to each other is stated where it is
checked: the tree `Exec` assumes is the tree `Parser`'s `TypeOK` describes (proved
for every text), and `RedirectionToken` reads what `Lexer` makes. A handler of
`redirection.c` is one step, because nothing runs between its calls; its failures
are alternatives of the same step.
`exec_pipe` and `exec_word` are one action per system call, since the children
run in between. `ast_exec` is a step from one call of a child to the next.
`my_dot` is the beginning of a body: the commands of the file are steps of their own
(`Redirection`, `Session`).
`unset`, `cd` and an assignment are one step each, and `update_question_mark`
follows as a step of its own in `Variables`.

Undefined behaviour is a choice. A null pointer that is followed, a write behind
a buffer or before its start stops the shell (`alive`, `"stopped"`). Freed
memory is more than that in `Session`: a lookup may take a freed key for any
name, an entry may get the address of a new token, and a freed body does nothing
or stops the shell.

What is external: the descriptor table of the kernel, pipes, the commands that
run in pipelines and substitutions, and `strcspn` and `strtok_r`.

## 3. The runs

| Run | Shows | Bounds |
|---|---|---|
| `redirection` | `OutputOnTarget`, `NothingPendingAtFork`, `RestoreSound`, `ClosesOnlyOnRequest` | 7 descriptors (enough to run out of them), 4 commands, functions and files read with `.` inside each other to depth 3, every redirection type |
| `redirection_twice` | violates `ResetRestores` | one command |
| `exec` | `CallChain`, `FollowsReference` | 4 trees with all operators, 6 commands executed, statuses 0, 1, 127 |
| `exec_assignment` | violates `AssignmentStays` | the same |
| `pipeline` | `WaitsEmptyHanded`, `NoEarlyEof`, `NoSpuriousSigpipe`, `ReturnsStatusOfRight`, `PipelineReturns`, `ChildrenEnd` | 3 commands, so that one process is both a child and a parent; pipe of 1, 2 items, so that writers block |
| `variables` | `ListSound`, `PwdIsCurrent`, `ImplementsMap` | 4 predefined and 3 user variables (`IFS` is one), 7 cells allocated in all, 2 directories, 2 environments, `unset` of up to two names |
| `expansion` | `ShortWordsExpand`, `RunsItsCommand`, `TurnsShorten` | all words of 4 characters, of 6 over `$ { } x`, `$(` with 4 more; buffer of 7, so that it overflows; outputs without a character, with and without a newline, with a `$`, and as long as the buffer |
| `substitution` | `TextComplete`, `ReturnsEmptyHanded`, `SmallOutputReturns` | buffer 2, pipe 4, up to 6 units each from the command and its job; `SIGCHLD` ignored or not, with and without another child |
| `substitution_large` | violates `SubstitutionReturns` | the same |
| `session` | `AliveWhileNeeded`, `LatestFound`, `StopsOnlyAfterBadText` | 10 texts, 3 names of which 2 share a bucket, 5 programs |
| `lexer` | `Advances`, `NothingLost`, `WordsAsSpelled` | all texts of up to 4, 5 or 6 characters over six alphabets of 4 to 8, chosen so that what quotes, separates and redirects meets; texts of two or three spelled words with everything that may stand between them |
| `parser` | `OwnedOnce`, `WordsKept`, `FollowsGrammar` | all texts of 3 tokens, of 5 of a simple line, and 2 to 6 tokens behind the beginning of a pipeline, `if`, `while`, function, block, and of a text that nests all of them |

Each module has one type invariant, which its passing run checks too. Every
property has a mutant: a plausible error in the code, written in the module
before the definition it changes, that makes TLC find the property violated.

Why the bounds are enough: every action and every failure path fires, resources
run out inside the bounds (descriptors, pipe, buffer, cells), functions recurse,
nodes are executed again after success and after failure, buckets collide, and
freed addresses come back. In the lexer a rule looks at most a few characters
back and ahead, and in the parser each rule is reached inside each other one. A
longer script repeats the same steps on states of the same shapes.

`substitution` and `substitution_large` switch the deadlock check off, because
there the shell and its child really can wait for each other; the properties
say when. All other runs check for deadlock.

Model and program were also compared by hand: the tokens of 29589 texts and the
verdict and last position on 10189 texts of tokens, of a build of `src/`, are
those of `Lexer` and `Parser`, except that where the program reads memory it does
not own the model stops.

Reading the properties' conditions:

* `RestoreSound` is about *straight* commands: no function call and no `.`, which
  execute other commands (a bare `2> err` in the file of `. file > out` moves
  descriptor 2 for good), redirections that save, each of a different descriptor
  that was open. The conditions are those under which the code's save is what was
  there; `redirection_twice` shows what happens outside them.
* `ShortWordsExpand` needs the text before each `$` to be shorter than the rest:
  line 103 of `expansion.c` drops the variable otherwise.
* `TurnsShorten` is the termination argument of the loop in `to_command`, as an
  action property: the text from the first `$` on gets shorter on every turn.
  With the absence of deadlock it implies that the loop ends. It needs values
  without a `$`, and where the turn executes a substitution an output without one.
  An assignment expands its first `$` only, so `x=$y$x` with `y` empty gives `x` the
  value `$x`, and `echo $x` then never ends; the model has such an environment too,
  and its steps are outside the property.
* `WordsAsSpelled` is about texts in which each word is quoted as a whole, from its
  beginning, or by backslashes inside; what the lexer does with the other ways
  POSIX has is in section 6. `NothingLost` holds for all texts without comments
  and without `$` in double quotes, at every step and at the end. It compares
  characters other than blanks, quotes and backslashes; which of those are kept
  is what `WordsAsSpelled` says.
* `FollowsGrammar` says what becomes of a text of the grammar: it is accepted, with
  its tree. That nothing else is accepted is not true (section 6).
* `WordsKept` needs a text without redirections: the parser keeps only the last of
  several redirections without a command.
* `TextComplete` is about commands that leave no job behind. Its text is the output up
  to the size of the buffer without the last byte: the code takes that byte for a
  newline, and for an output like that of `printf abc` it is not.
* `ReturnsEmptyHanded` has one exception, the early return of line 172 of
  `expansion.c`: `waitpid` did not return the command, because `SIGCHLD` is ignored or
  because `fork` failed and another child of the shell was there. Both ends stay open
  then. When `fork` fails and there is no other child, `waitpid` returns -1, which is
  what `fork` returned, and the ends are closed.
* `RunsItsCommand` says in the same way what a whole `$(command)` becomes: the output
  without its last character; the shell stops for a command that prints nothing.
* `AliveWhileNeeded` names what the code forgets: the tokens of a text in which a `$(`
  or `${` is not closed. Nothing else stays allocated after its program.
* `StopsOnlyAfterBadText` lists the texts after which the shell may stop, and does not
  say that it should. What it adds is that no other script stops it, and that the body
  of a function is there as long as its program.
* `LatestFound` speaks of the time before a program that defined a function is
  freed. Afterwards the table holds freed keys and the lookup may fail, find an
  older definition, or stop the shell.
* `ImplementsMap` ties each step to the arguments of the command. The shell stops
  exactly when `VarMap` says so: `unset` of the first or of the last variable and
  without an argument, an assignment that creates `IFS`, sets `?` or has a value that
  does not expand, `$?` after `unset ?`, `cd` after `unset OLDPWD`, and `$UID` and
  `$OLDPWD` when neither the list nor the environment has them. What `chdir` returns is
  a free choice: a directory may be closed to the shell, and an `OLDPWD` that a script
  has set need not name one.

## 4. Fairness

* `Pipeline`: weak fairness for every process, as the scheduler gives it: for
  the shell and the process in the middle, and for the commands' reads, writes
  and exits. A command need not stop early and nobody need send a signal:
  `Quit` has no fairness.
* `Substitution`: weak fairness of the shell, of the command, of its job and of the
  other child, which end as `SmallOutputReturns` needs it.
* `Redirection`, `Exec`, `Variables`, `Expansion`, `Session`, `Lexer`, `Parser`: safety
  only. That the lexer's loops end follows from `Advances`, which bounds their
  turns by the length of the text; each text has one run.

## 5. What is proved

Safety, of nine modules, for every value of the constants the assumptions allow.
The named `ASSUME`s are checked by TLC in every run.

`Redirection_proofs`, for every syntax tree, every size of the descriptor table
and every script (`SystemAssumption`: the three standard descriptors, numbers for
the bounds; `TreeAssumption`: nodes as the parser builds them; `MaxDepth` and
`MaxCommands` are arbitrary naturals):

* `TypeCorrect`. Lemmas about the handlers say that each of
  their outcomes is a descriptor table and a save (`HandlerOutcomes`, from
  `FdFileOk`, `FdIoOk`, `FdDupInOutOk`). `LowestInSet` shows that the lowest
  free descriptor exists, by well-founded induction on finite initial segments.
* `OutputReachesTarget` and `ForkCopiesNoOutput`: both follow from
  `PendingInvariant`. `OutputOnTarget` is not inductive: a redirection step
  moves descriptor 1, and only the control point says that the buffer is empty
  then. The invariant adds it: text is pending only at the flush that ends the
  builtin which printed it, and it is for the file now on descriptor 1.
* `ClosesOnRequest`: the action property, from the outcomes of the handlers.
* `RedirectionsRestore`. The inductive invariant
  `RestoreInv` describes the whole life of a straight command by a snapshot: how
  far it has come, which saves are taken, that each save holds the file that was
  on its descriptor and is the only new open one, and how many have been put
  back. It needs `StackInvariant` (only functions and `.` wait below the top).

`Pipeline_proofs`, for every number of commands, every capacity of the pipes,
every amount of input and every set of statuses (`PipelineAssumption`): all five
invariants of the run. None is inductive. That a reader sees no early end of
file depends on which processes hold a copy of the write end, and a copy is
inherited from level to level at a time when the command that will read does not
exist. `IInv` says, per level, how far a runner and its two children are
together (`LeftExists`, `RightExists`), which ends a runner holds at each point
(`RunnerHolds`: none of the levels inside, all write ends of the levels around),
which a command holds (`CommandHolds`), and that an end of file is final
(`EofIsFinal`: nobody is left, at any level inside, that could write or could
still create a writer). `WriteKeeps` and `ReadKeeps` are the heart: a missing
reader, or a missing writer, is traced back through the levels to a process that
ended or was never created. Each action has a lemma; what most of them share is in
`MoveKeeps`, `StageKeeps` and `DataKeeps`.

`Session_proofs`, for all texts, every hash function, any number of buckets and
of programs (`SessionAssumption`): all four invariants. The properties speak of
the table; they hold because of the stack of programs. `IInv` says that each
program has one frame, that functions run above the frame of theirs and that the
programs alive are those with a frame past the lexer and the texts with an open `$(`
(`Nested`), that every entry
of the table belongs to a program alive or retired (`Known`), that the list of
variables is freed only by a text that does not lex
(`FreedByLexer`), and that in a bucket the first entry of a name is its latest
(`Newest`).

`Exec_proofs`, for every tree the parser builds (`TreeAssumption`,
`ParserAssumption`, `BoundAssumption`): `TypeCorrect` and `CallsAreAPath`, which
are inductive together. `ParserAssumption` is what `Parser_proofs` shows of the
nodes of a text.

`Parser_proofs`, for every text of tokens (`ParserConstants`), however deep its
commands are inside each other, well formed or not:

* `TypeCorrect`: what a rule returns, what is a child and what the function table
  holds is a node with the children the executor follows; no rule moves behind EOF.
* `NodesOwnedOnce`: every node any rule allocates is in `parser->nodes` once in the
  end, also when a rule failed half way, and no node has two parents.

The state of the module is only the text, so the inductive invariant is small
(`Typed`), and the work is in what `parse_input` computes. Each rule has a contract,
of which these are the parts:

* Before a rule the state is `Ready`: the heap is a forest whose children are whole
  (`Sound`, `Single`), and the list has every node once (`Entered`, `Once`).
* `After` it at most the node it returns is owed to the list (`Owed`), that node is
  a root and was allocated since (`Returns`), and of the nodes that were there
  before none has changed (`Grown`). The last part is what makes the contracts
  compose: the caller's own node, which waits for its children, is still there and
  nobody's child. `Ran` is `After` with nothing owed.
* A node whose children are still being parsed is `Open`: it has the number of
  children its rule has come to, none of them `Null`. A simple command is `Filling`
  while it reads its redirections. A rule that fails leaves such a node in the list
  without a parent, which is why nodes that are not used need no children.
* A list behind a keyword ends at a token that closes a command, or fails; the
  keyword after it, which `parse_rule_if` pops unseen, is therefore a token of the
  text, and the position stays in it.

Loops are treated once: `RepeatKeeps` (what a turn keeps holds at the end) and
`RepeatStops` (the turns are as many as needed, because each one moves on or fails).
The rules that contain each other are a function of the depth. `LoopComputes` shows
that such a function exists, and `UpTo`, an induction that needs no induction theorem
(the depths at which a claim fails have a least one), that on every depth what is
inside a compound command keeps the contract (`RightInner`).

About `Substitution`, at the end of `Expansion_proofs`, for all sizes of the buffer,
of the pipe and of the outputs (`SubstitutionAssumption`: the pipe holds a buffer):
`SubstTypeCorrect`, `TextIsComplete`, `EndsAreClosed`. The invariant adds what the shell holds at
each point (`HeldAt`: both ends where `waitpid` failed), which processes exist and
which `waitpid` returned (`Processes`), and that what is in
the pipe, what was read and what is still to be written add up (`Amounts`).

`Variables_proofs`, for all names, values and directories and every number of
cells (`VariablesAssumption`: enough for the four predefined variables): all three
invariants, and that the list implements the map.

* `TypesAreKept`, `ListStaysSound`. `ListSound` says what a walk along `next`
  reaches, so a proof needs that walks end. The inductive invariant (`Linked`)
  adds why: cells are linked in the order in which they were allocated, which
  the removal of a cell keeps. A walk is a recursive function; that it exists is
  proved by a witness, and what it computes by taking the last cell at which it
  would go wrong. The rest of `Linked` is that names occur once, that exactly the
  cells allocated and not freed are reached, and that `size` counts them.
* `PwdStaysCurrent` needs of the list that a name is found in the one cell that
  has it.
* `ListImplementsMap`: one lemma for each action (`AssignDoes`, `UnsetDoes`, ...), which
  is the step of `VarMap` for the same arguments. For `unset` of any number of
  names, `AllRemoved` follows the loop: `Remains` says that after each turn exactly the
  names met so far are gone and all other values are kept. That it stops exactly when
  `VarMap` says so needs to know the two ends of the list: the first variable is always
  `0` and the tail is the variable created last (`Killed`, `Removed`).

`Expansion_proofs`, for every word, all values, outputs and sizes of the buffer
(`ExpansionAssumption`: words, values and outputs are sequences of characters,
an output fits the buffer, as the `read` of `exec_word` leaves it):

* `TypeCorrect`: what is kept fits the buffer. What did not fit stops the loop
  before it is kept.
* `LoopShortens`, an action property: each turn leaves less behind the first
  `$` than there was. The lemmas say what `strcspn`, `strtok_r` and `get_word`
  return (a piece between two delimiters, found as a least position) and that the
  part behind what was read is what the turn keeps, so that the `$` put back in
  front of it stands before less than the first one did. Malformed words are
  included.

`Lexer_proofs`, for all texts over every alphabet (`LexerConstants`):

* `PositionsHold` and `LexerAdvances`, from lemmas that say of each rule that it
  takes at least one character and none behind the end.
* `TypeCorrect` and `TextIsKept`. A rule's token is a part of the text with some
  characters left out (`Picked`). What `Picked` computes is proved by an
  induction over the positions that needs no induction theorem (`UpTo`: the set of
  positions at which a claim fails has a least member), and from it: `Only`, which
  keeps some characters, goes through a concatenation (`OnlyConcat`), and leaving
  characters out that do not matter does not change it (`OnlyPicked`).
  `ValuesAppend` does the same for the values of the tokens. Each rule then adds to
  the tokens what it takes from the text (`WordKept`, `QuoteKept`, `TextKept`, ...).
  `NothingLost` is not inductive: a text in double quotes could be in the state
  that loses its delimiters. `InPieces` says that inside quotes the text has a
  quote, and that a text the property speaks of never comes to that state.

Only model-checked:

* liveness (`PipelineReturns`, `ChildrenEnd`, `SmallOutputReturns`),
  which is out of the prover's reach;
* `FollowsReference` and `FollowsGrammar`, which compare with reference definitions
  that are recursive operators, and `WordsKept`, which reads a tree from the left to
  the right with one: what a recursive operator computes cannot be proved there;
* `WordsAsSpelled`, `ShortWordsExpand` and `RunsItsCommand`, which speak of the texts
  the model-checking modules spell.

## 6. Where the code differs from what it says

`PROJECT.json`, "findings". In short: a descriptor redirected twice is not
restored (`redirection.c:16`); an assignment in a loop is executed once and then
becomes a command (`exec.c:242`); a substitution of more than a pipe's capacity
never returns (`expansion.c:172`).

Other differences are part of the models, without a run of their own:

* Variables: `unset` of the first or the last variable crashes
  (`variable.c:136`), although `tests/unset/unset_var.in` is such an unset.
* Expansion: `${toto}${toto}` (`tests/variable/no_space2.in`) becomes the value
  and the process id, because the `$` put in front of the rest meets another one
  (`expansion.c:146`).
* Substitution: the last byte of the output is lost whether or not it is a newline
  (`$(printf abc)` is `ab`); a command that prints nothing (`$(true)`) makes
  `exec_word` write before its buffer (`expansion.c:179`); a text with an open `$(` or
  `${` leaks its tokens (`lexer_load.c:36`).
* Variables: the status of a `cd` whose `chdir` fails is -1 (`cd.c:91`); `cd` without
  an argument looks at the `HOME` of the environment and not at the variable.
* Lexer: a backslash at the beginning of a word quotes nothing; in double
  quotes a `$` that is not directly behind the quote is dropped and cuts the text
  in several words; a quoted text behind a word is a second word; `''` is no word; `a&&b` is one
  word, because `&` ends none; a comment takes its newline along,
  which POSIX 2.3 keeps; `{` and `}` next to a word are operators, although
  `tests/variable/hard_var.in` and `var_syntaxes.in` (`test=={bonjour`) expect what
  bash does with them; `a$` in front of a `(` is a word; `>a>b` is one
  redirection token that no rule can use; a reserved word is one wherever it
  stands. None of these is among the pieces of `WordsAsSpelled`.
* Parser: a rule that failed is forgotten when a redirection follows
  (`echo ( > out` is `> out`); only the first line is parsed; of several
  redirections without a command the last is kept; the token behind the
  condition of an `if` is taken for `then` unseen; a redirection takes a newline
  or a reserved word for its word; `prefix_len` is not set without a redirection
  in front.

## 7. Not modelled

* The formatting of `echo` and of messages, the text of errors, the debug
  printers (`print_ast.c`), reading the script (`parse_command_line.c`, but for
  `remove_escaped_newline`), lists of words (`list.c`: filled once, then only
  read), the test suite, `hash_map_remove` (nobody calls it).
* `for`, `case` and background jobs: the parser has no rule for them. `for` and
  `in` are tokens that no rule takes, and in `Parser` they are.
* Failing `malloc`. The code checks it in few places and no behaviour of
  interest depends on it.
* The statuses of commands are free choices, the value of `$RANDOM` and of the
  process id too.

## 8. Plan

Done: the core, the parser and the lexer, and proofs about every module. Left, in
this order:

1. Composition: the executor with real pipelines (a pipeline node of `Exec` as a
   run of `Pipeline`), redirections inside the children of a pipeline, and
   assignments that meet `Expansion` and `Variables` together. The modules meet
   through stated assumptions so far.
2. An abstract specification of the function table, a map from names to
   definitions, for `Session` to implement until a definition is freed.

The twelve runs answer distinct questions; a composition will take the place of
one of its parts.
