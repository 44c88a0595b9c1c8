--------------------------- MODULE MCRedirection ---------------------------
(* A small syntax tree for TLC: every kind of command and of redirection. *)
EXTENDS Redirection, TLC

MCPath == {"file", "2"}
MCAtoi == ("file" :> 0) @@ ("2" :> 2) @@ ("-" :> 0) @@ ("" :> 0)

(* name |-> type, io_number, word *)
Nodes ==
    [out    |-> <<"FD_OUT", -1, "file">>,           \* > file
     in     |-> <<"FD_IN", -1, "2">>,               \* < 2
     err    |-> <<"FD_OUT_APPEND", 2, "2">>,        \* 2>> 2
     io     |-> <<"FD_IO", -1, "file">>,            \* <> file
     dup    |-> <<"FD_DUP_OUT", -1, "2">>,          \* >& 2
     shut   |-> <<"FD_DUP_OUT", -1, "-">>,          \* >& -
     three  |-> <<"FD_OUT_NO_CLOBBER", 3, "file">>, \* 3>| file
     empty  |-> <<"FD_IN", -1, "">>,                \* < at the end of the input
     fout   |-> <<"FD_OUT", -1, "file">>,           \* > file, on a function call
     dout   |-> <<"FD_OUT", -1, "file">>,           \* > file, on a . file
     log    |-> <<"FD_OUT", 2, "2">>,               \* 2> 2 and no command, in that file
     bare   |-> <<"FD_OUT", -1, "2">>]              \* > 2 and no command

Tree ==
    [echo   |-> <<"builtin", <<"out">>>>,
     sort   |-> <<"external", <<"in", "err">>>>,
     show   |-> <<"builtin", <<"dup", "three">>>>,
     subst  |-> <<"badsubst", <<"io">>>>,
     assign |-> <<"assignment", <<"shut">>>>,
     only   |-> <<"bare", <<"bare">>>>,
     ls     |-> <<"external", << >>>>,
     cut    |-> <<"external", <<"empty">>>>,
     f      |-> <<"function", <<"fout">>>>,
    dot    |-> <<"dot", <<"dout">>>>,
    log    |-> <<"bare", <<"log">>>>]

MCRedir == DOMAIN Nodes
MCType == [r \in MCRedir |-> Nodes[r][1]]
MCIoNumber == [r \in MCRedir |-> Nodes[r][2]]
MCWord == [r \in MCRedir |-> Nodes[r][3]]
MCCmd == DOMAIN Tree
MCKind == [c \in MCCmd |-> Tree[c][1]]
MCPrefix == [c \in MCCmd |-> Tree[c][2]]
MCBodies == [c \in MCCmd |->
    CASE c = "f"   -> {<< >>, <<"echo", "sort">>, <<"only", "f", "echo">>, <<"dot">>}
      [] c = "dot" -> {<< >>, <<"log", "f">>}
      [] OTHER     -> {}]

(* echo text > file > 2: one descriptor redirected twice by one command. *)
TwiceRedir == {"first", "second"}
TwiceType == [r \in TwiceRedir |-> "FD_OUT"]
TwiceIoNumber == [r \in TwiceRedir |-> -1]
TwiceWord == [first |-> "file", second |-> "2"]
TwiceCmd == {"twice"}
TwiceKind == [c \in TwiceCmd |-> "builtin"]
TwicePrefix == [c \in TwiceCmd |-> <<"first", "second">>]
TwiceBodies == [c \in TwiceCmd |-> {}]
=============================================================================
