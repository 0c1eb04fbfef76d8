------------------------------ MODULE CommandLine ------------------------------
(***************************************************************************)
(* The command line client.  Each `send` and each `listen` is a process of *)
(* its own, and all of them share one file, state.json: it holds the       *)
(* outbox and the cursor, and to set either of them is to read the file,   *)
(* and then to write it as a whole.  A file that does not parse, as in the *)
(* middle of a write, reads as an empty one.                               *)
(***************************************************************************)
EXTENDS Naturals, Sequences, Functions

CONSTANTS
    Procs,      \* the processes that may run at a time
    Notes,      \* what is sent, each once; a note stands for its entry's id too
    Logins,     \* the accounts `login` is run for
    Nobody,     \* no account
    LastCursor  \* bound: pages that `listen` pulls

ASSUME CommandLineAssumption ==
    /\ Nobody \notin Logins /\ LastCursor \in Nat
    /\ \A p \in Procs, t \in Notes : p # t

VARIABLES
    config,   \* config.json: the account that is logged in
    file,     \* state.json, when it can be read
    broken,   \* a write was begun and never ended
    phase,    \* of each process: "none", "store" (the new entry is being
              \* stored), "post", "retry" (its attempts are), "sent", "refused" (the
              \* shifted queue is), "listen"
    given,    \* the note a `send` was started with
    cfg,      \* the account a process has read
    memory,   \* its Outbox.entries, its cursor
    setting,  \* its FileStorage.set(): "no", "read", "write"
    data,     \* the record that set() has read, with its own key changed
    posted,   \* for each note, whose items it is among on the server
    declined, \* the notes the server refused
    confirmed, \* the notes an answer has said are delivered
    \* history
    entered,  \* for each note that was stored, the account it was for
    crossed,  \* two processes met: a case SendKept excuses
    relogin   \* the account changed while something waited

cliVars == <<config, file, broken, phase, given, cfg, memory, setting, data, posted, declined,
             confirmed, entered, crossed, relogin>>
runVars == <<config, posted, declined, confirmed, entered, relogin>>

EmptyFile == [outbox |-> <<>>, cursor |-> 0]

Writers == {p \in Procs : setting[p] = "write"}

\* FileStorage.read(): an unreadable file is {}.
ReadFile == IF broken \/ Writers # {} THEN EmptyFile ELSE file

Senders == {p \in Procs : phase[p] \notin {"none", "listen"}}

-----------------------------------------------------------------------------
\* login: register, which may be closed or done already, then login; the config
\* is replaced, the state stays.
Login_Command(a) ==
    /\ a # config
    /\ config' = a
    /\ relogin' = (relogin \/ file.outbox # <<>> \/ Senders # {})
    /\ UNCHANGED <<file, broken, phase, given, cfg, memory, setting, data, posted, declined,
                   confirmed, entered, crossed>>

\* Each process reads the config and what is stored before it does anything.
\* (Processes are new when they start: one takes the first name that is free.)
StartProcess(p, how, note, mine) ==
    /\ \E q \in Procs : phase[q] = "none"
    /\ p = CHOOSE q \in Procs : phase[q] = "none"
    /\ config # Nobody
    /\ phase' = [phase EXCEPT ![p] = how]
    /\ given' = [given EXCEPT ![p] = note]
    /\ cfg' = [cfg EXCEPT ![p] = config]
    /\ memory' = [memory EXCEPT ![p] = mine]
    /\ UNCHANGED <<runVars, file, broken, data>>

Unused == {u \in Notes : entered[u] = Nobody /\ \A q \in Procs : given[q] # u}

\* send: load() the outbox, add the entry, persist.  The process is left with
\* what earlier ones did not deliver.
Run_Send(p, t) ==
    /\ Unused # {} /\ t = CHOOSE u \in Unused : TRUE
    /\ StartProcess(p, "store", t, [ReadFile EXCEPT !.outbox = Append(@, t)])
    /\ setting' = [setting EXCEPT ![p] = "read"]
    /\ crossed' = (crossed \/ Senders # {} \/ \E q \in Procs : setting[q] # "no")

Run_Listen(p) ==
    /\ StartProcess(p, "listen", p, ReadFile)
    /\ UNCHANGED <<setting, crossed>>

\* set(): what the process asks to be stored is fixed when it asks.
\* Mutant: the file is made of the one key.
ReadOnlyOwn(p) ==
    /\ setting[p] = "read"
    /\ setting' = [setting EXCEPT ![p] = "write"]
    /\ data' = [data EXCEPT ![p] = IF phase[p] = "listen"
                                   THEN [EmptyFile EXCEPT !.cursor = memory[p].cursor]
                                   ELSE [EmptyFile EXCEPT !.outbox = memory[p].outbox]]
    /\ crossed' = (crossed \/ \E q \in Procs \ {p} : setting[q] # "no")
    /\ UNCHANGED <<runVars, file, broken, phase, given, cfg, memory>>

SetReads(p) ==
    /\ setting[p] = "read"
    /\ setting' = [setting EXCEPT ![p] = "write"]
    /\ data' = [data EXCEPT ![p] = IF phase[p] = "listen"
                                   THEN [ReadFile EXCEPT !.cursor = memory[p].cursor]
                                   ELSE [ReadFile EXCEPT !.outbox = memory[p].outbox]]
    /\ crossed' = (crossed \/ \E q \in Procs \ {p} : setting[q] # "no")
    /\ UNCHANGED <<runVars, file, broken, phase, given, cfg, memory>>

\* The write ends, and the process goes on: a new entry is posted, with those
\* before it; the first event of the outbox ends the process, whatever entry it
\* is about and whatever else waits.
EndProcess(p) ==
    /\ phase' = [phase EXCEPT ![p] = "none"]
    /\ given' = [given EXCEPT ![p] = p]
    /\ cfg' = [cfg EXCEPT ![p] = Nobody]
    /\ memory' = [memory EXCEPT ![p] = EmptyFile]

SetEnds(p) ==
    /\ setting[p] = "write"
    /\ setting' = [setting EXCEPT ![p] = "no"]
    /\ data' = [data EXCEPT ![p] = EmptyFile]
    /\ file' = data[p]
    /\ broken' = FALSE
    /\ \/ /\ phase[p] = "store"
          /\ phase' = [phase EXCEPT ![p] = "post"]
          /\ entered' = [entered EXCEPT ![given[p]] = cfg[p]]
          /\ UNCHANGED <<given, cfg, memory>>
       \/ /\ phase[p] = "retry"
          /\ phase' = [phase EXCEPT ![p] = "post"]
          /\ UNCHANGED <<entered, given, cfg, memory>>
       \/ /\ phase[p] \in {"sent", "refused"}
          /\ EndProcess(p)
          /\ UNCHANGED entered
       \/ /\ phase[p] = "listen"
          /\ UNCHANGED <<entered, phase, given, cfg, memory>>
    /\ UNCHANGED <<config, posted, declined, confirmed, crossed, relogin>>

-----------------------------------------------------------------------------
\* flush(): the first entry.  The POST creates the item unless it is there; an
\* answer that is lost leads to a retry.
Post_Arrives(p) ==
    /\ phase[p] = "post" /\ memory[p].outbox # <<>>
    /\ LET t == Head(memory[p].outbox) IN
          /\ posted[t] = Nobody /\ t \notin declined
          /\ posted' = [posted EXCEPT ![t] = cfg[p]]
    /\ UNCHANGED <<config, file, broken, phase, given, cfg, memory, setting, data, declined,
                   confirmed, entered, crossed, relogin>>

\* The network, or the server, failed: the attempts are stored, then it is tried
\* again.  (That the item is there all the same is Post_Arrives.)
Post_Fails(p) ==
    /\ phase[p] = "post" /\ memory[p].outbox # <<>>
    /\ phase' = [phase EXCEPT ![p] = "retry"]
    /\ setting' = [setting EXCEPT ![p] = "read"]
    /\ crossed' = (crossed \/ \E q \in Procs \ {p} : setting[q] # "no")
    /\ UNCHANGED <<runVars, file, broken, given, cfg, memory, data>>

\* The answer: shift, persist, then the event.
Shifted(p, how) ==
    /\ phase' = [phase EXCEPT ![p] = how]
    /\ memory' = [memory EXCEPT ![p].outbox = Tail(@)]
    /\ setting' = [setting EXCEPT ![p] = "read"]
    /\ crossed' = (crossed \/ \E q \in Procs \ {p} : setting[q] # "no")
    /\ UNCHANGED <<config, file, broken, given, cfg, data, posted, entered, relogin>>

Post_Accepted(p) ==
    /\ phase[p] = "post" /\ memory[p].outbox # <<>>
    /\ LET t == Head(memory[p].outbox) IN
          /\ posted[t] = cfg[p]
          /\ confirmed' = confirmed \cup {t}
    /\ Shifted(p, "sent")
    /\ UNCHANGED declined

\* A 4xx: the body is too large, or the id belongs to another account's item.
Post_Rejected(p) ==
    /\ phase[p] = "post" /\ memory[p].outbox # <<>>
    /\ LET t == Head(memory[p].outbox) IN
          /\ posted[t] # cfg[p]
          /\ declined' = declined \cup {t}
    /\ Shifted(p, "refused")
    /\ UNCHANGED confirmed

\* A 401 ends the process; so does Ctrl-C, at any time.
Ends_Early(p) ==
    /\ phase[p] # "none"
    /\ EndProcess(p)
    /\ setting' = [setting EXCEPT ![p] = "no"]
    /\ data' = [data EXCEPT ![p] = EmptyFile]
    /\ broken' = (broken \/ setting[p] = "write")
    /\ crossed' = (crossed \/ setting[p] = "write")
    /\ UNCHANGED <<runVars, file>>

\* listen: a page was printed, and the cursor is stored.
Page(p) ==
    /\ phase[p] = "listen" /\ setting[p] = "no"
    /\ memory[p].cursor < LastCursor
    /\ memory' = [memory EXCEPT ![p].cursor = @ + 1]
    /\ setting' = [setting EXCEPT ![p] = "read"]
    /\ crossed' = (crossed \/ \E q \in Procs \ {p} : setting[q] # "no")
    /\ UNCHANGED <<runVars, file, broken, phase, given, cfg, data>>

-----------------------------------------------------------------------------
CommandLineInit ==
    /\ config \in Logins \cup {Nobody} /\ file = EmptyFile /\ broken = FALSE
    /\ phase = [p \in Procs |-> "none"]
    /\ given = [p \in Procs |-> p]
    /\ cfg = [p \in Procs |-> Nobody]
    /\ memory = [p \in Procs |-> EmptyFile]
    /\ setting = [p \in Procs |-> "no"]
    /\ data = [p \in Procs |-> EmptyFile]
    /\ posted = [t \in Notes |-> Nobody] /\ declined = {} /\ confirmed = {}
    /\ entered = [t \in Notes |-> Nobody]
    /\ crossed = FALSE /\ relogin = FALSE

\* Bound: a run in which two processes have used the file at a time, or one was
\* ended in the middle of a write, is followed no further: what the file holds
\* is then any of the records they had read.
CommandLineNext ==
    /\ ~crossed
    /\ \/ \E a \in Logins : Login_Command(a)
       \/ \E p \in Procs :
             \/ \E t \in Notes : Run_Send(p, t)
             \/ Run_Listen(p) \/ SetReads(p) \/ SetEnds(p) \/ Page(p) \/ Ends_Early(p)
             \/ Post_Arrives(p) \/ Post_Fails(p) \/ Post_Accepted(p) \/ Post_Rejected(p)

CommandLineSpec == CommandLineInit /\ [][CommandLineNext]_cliVars

IsFile(r) == r.cursor \in 0..LastCursor /\ Range(r.outbox) \subseteq Notes

CommandLineTypeOK ==
    /\ config \in Logins \cup {Nobody} /\ broken \in BOOLEAN
    /\ IsFile(file) /\ \A p \in Procs : IsFile(memory[p]) /\ IsFile(data[p])
    /\ setting \in [Procs -> {"no", "read", "write"}]
    /\ declined \cup confirmed \subseteq Notes
    /\ posted \in [Notes -> Logins \cup {Nobody}] /\ entered \in [Notes -> Logins \cup {Nobody}]

\* What `send` has stored is not forgotten, though a process ends with the first
\* delivery, whatever entry that was, and though a `listen` runs beside it: it
\* waits in the file for the next `send`, or the server has answered it; and it
\* becomes an item of the account it was meant for.  Excused are two processes
\* that use the file at the same time, a process ended in the middle of a write,
\* and, for the account, a login while something waits.
SendKept ==
    \A t \in Notes : entered[t] # Nobody /\ ~crossed =>
        /\ t \in Range(file.outbox) \cup confirmed \cup declined
        /\ posted[t] \in {Nobody, entered[t]} \/ relogin
===============================================================================
