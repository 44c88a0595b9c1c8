------------------------------- MODULE VarMap -------------------------------
(***************************************************************************)
(* What the list of variables promises the rest of the shell: a map from   *)
(* names to values.  Each command changes it as its arguments say, "PWD"   *)
(* and "OLDPWD" follow cd, and "?" every command.  A map would need no     *)
(* more; the shell of this program also stops at some commands, and where  *)
(* it does depends on the variable that was created last.                  *)
(***************************************************************************)
EXTENDS Integers, Sequences

CONSTANTS Dir, Environs

VARIABLES
    env,        \* the variables: a function from some names to values
    newest,     \* the name of the variable that was created last
    cwd,        \* the current directory
    rc,         \* the status that "?" has not received yet, or "none"
    cmd,        \* the command of that status: its name and its arguments
    seen,       \* what the expansion in it returned
    alive,      \* the shell runs
    environ     \* the environment it was started in
vars == <<env, newest, cwd, rc, cmd, seen, alive, environ>>

NoVariables == [n \in {} |-> ""]
Put(f, n, v) == [m \in DOMAIN f \cup {n} |-> IF m = n THEN v ELSE f[m]]
Newest(n) == IF n \in DOMAIN env THEN newest ELSE n

Init ==
    /\ cwd \in Dir /\ environ \in Environs
    /\ env = Put(Put(Put(Put(NoVariables, "0", "42sh"), "?", "0"), "OLDPWD", ""), "PWD", cwd)
    /\ newest = "PWD"
    /\ seen = "" /\ rc = "none" /\ cmd = [op |-> "none", args |-> <<>>] /\ alive = TRUE

Stop == alive' = FALSE /\ UNCHANGED <<env, newest, cwd, seen, rc>>
Keep(status) == rc' = status /\ UNCHANGED <<env, newest, cwd, seen, alive>>

(* One variable changes, or is created.  The value of "?" cannot be set, and IFS cannot
   be created. *)
Set(n, v) ==
    IF n = (IF n \in DOMAIN env THEN "?" ELSE "IFS") THEN Stop
    ELSE /\ env' = Put(env, n, v) /\ newest' = Newest(n)
         /\ rc' = "0" /\ UNCHANGED <<cwd, seen, alive>>

(* A name and a value; a name whose value does not expand; nothing to set. *)
Assign(args) ==
    \/ Len(args) = 2 /\ Set(args[1], args[2])
    \/ Len(args) = 1 /\ Stop
    \/ args = <<>> /\ \E status \in {"0", "127"} : Keep(status)

(* All the names given are removed and no other.  The first variable and the one
   created last cannot be. *)
Unset(args) ==
    LET names == {args[i] : i \in DOMAIN args}
    IN IF args = <<>> THEN Stop
       ELSE IF args[1] = "-f" THEN Keep("0")
       ELSE IF {"0", newest} \cap names # {} THEN Stop
       ELSE /\ env' = [n \in DOMAIN env \ names |-> env[n]]
            /\ rc' = "0" /\ UNCHANGED <<newest, cwd, seen, alive>>

(* A cd records the directory it leaves, one that fails to leave it too. *)
Arrive(d, status) ==
    /\ cwd' = d /\ rc' = status
    /\ env' = Put(Put(env, "PWD", d), "OLDPWD", cwd) /\ newest' = Newest("PWD")
    /\ UNCHANGED <<seen, alive>>

GoesTo(d, failures) ==
    \/ d \in Dir /\ Arrive(d, "0")
    \/ \E status \in failures : Arrive(cwd, status)

Cd(args) ==
    IF Len(args) = 2 THEN Keep("1")
    ELSE IF "OLDPWD" \notin DOMAIN env THEN Stop
    ELSE IF args = <<>>
    THEN IF "HOME" \in DOMAIN environ THEN GoesTo(environ["HOME"], {"-1"}) ELSE Keep("1")
    ELSE IF args[1] # "-" THEN GoesTo(args[1], {"1", "-1"})
    ELSE IF env["OLDPWD"] = "" THEN Keep("1")
    ELSE GoesTo(env["OLDPWD"], {}) \/ Keep("-1")

See(v) == seen' = v /\ rc' = "0" /\ UNCHANGED <<env, newest, cwd, alive>>

(* A name that is not there expands to nothing, unless it is a special one. *)
Expand(n) ==
    IF n \in DOMAIN env THEN See(env[n])
    ELSE IF n = "PWD" THEN See(cwd)
    ELSE IF n \in {"OLDPWD", "UID"} \cap DOMAIN environ THEN See(environ[n])
    ELSE IF n \in {"?", "OLDPWD", "UID"} THEN Stop
    ELSE See("")

Command ==
    /\ rc = "none" /\ UNCHANGED environ
    /\ \/ cmd'.op = "assign" /\ Assign(cmd'.args)
       \/ cmd'.op = "unset" /\ Unset(cmd'.args)
       \/ cmd'.op = "cd" /\ Cd(cmd'.args)
       \/ cmd'.op = "echo" /\ Expand(cmd'.args[1])

(* The status of the command goes to "?", if it is still there. *)
Report ==
    /\ rc # "none" /\ rc' = "none" /\ cmd' = [op |-> "none", args |-> <<>>] /\ seen' = ""
    /\ env' = IF "?" \in DOMAIN env THEN Put(env, "?", rc) ELSE env
    /\ UNCHANGED <<newest, cwd, alive, environ>>

Next == alive = TRUE /\ (Command \/ Report)
Spec == Init /\ [][Next]_vars
=============================================================================
