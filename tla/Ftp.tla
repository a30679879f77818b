--------------------------------- MODULE Ftp ---------------------------------
(***************************************************************************)
(* The FTP client: a program that polls.  It sends one command at a time,  *)
(* cuts the answers into lines, acts on the number of the last line, and   *)
(* moves a file over a second connection, opened to the port that PASV     *)
(* named.  mget fetches a list of names first and then file after file.    *)
(* The server and the user are the environment.  A line of an answer is a  *)
(* record; a file is so many blocks.                                       *)
(***************************************************************************)
EXTENDS Integers, Sequences

CONSTANTS Size,    \* blocks of a file, and names in a list
          Begins   \* the answers with which a server may begin a transfer

ASSUME FtpAssumption == Size \in Nat /\ Begins \subseteq {125, 150} /\ Begins # {}

VARIABLES
  \* the command connection
  up, wire,   \* whether it stands, and the lines that are under way
  asked,      \* the commands the server has not answered yet
  lines,      \* iodata: whole lines that were read
  part,       \* the first bytes of the next line have been read
  ready,      \* dav and smackit: the line that is ready, if any
  \* the program
  at, ret,    \* where it is, and where waitio returns to
  servstate,  \* the number it acts on
  last,       \* the last command sent
  answers,    \* the command the line it acts on was the answer to
  job, todo,  \* what dogetput was called for; names still to be fetched
  moved,      \* blocks of the present file that were written to the disk
  \* the data connection
  data,       \* [st, q]: its state, and blocks under way
  serving, left  \* the server's side of it, and blocks to go at the sender

ctl == <<up, wire, asked>>
reader == <<lines, part, ready>>
prog == <<at, ret, servstate, last, answers, job, todo>>
xfer == <<moved, data, left>>
ftpVars == <<ctl, reader, prog, xfer, serving>>

Line(n, more, cmd) == [code |-> n, more |-> more, of |-> cmd]
Nothing == [st |-> "none", q |-> 0]

(* The connection is made, or it is not: the program goes on all the same.  *)
FtpInit ==
  /\ up \in BOOLEAN /\ wire = (IF up THEN <<Line(220, FALSE, "connect")>> ELSE <<>>)
  /\ asked = <<>> /\ lines = <<>> /\ part = FALSE /\ ready = <<>>
  /\ at = "main" /\ ret = "main" /\ servstate = -1
  /\ last = "connect" /\ answers = "connect" /\ job = "get" /\ todo = 0
  /\ moved = 0 /\ data = Nothing /\ serving = "no" /\ left = 0

-----------------------------------------------------------------------------
(* slip: a read error is taken for nothing read *)
GoneNever == FALSE
(* doio, the command socket: nothing can come any more and nothing was      *)
(* begun.                                                                   *)
Gone == ~up /\ wire = <<>> /\ lines = <<>> /\ ~part
DoioExit(from) == /\ at = from /\ Gone /\ at' = "done"
                  /\ UNCHANGED <<ctl, reader, ret, servstate, last, answers, job, todo, xfer, serving>>

(* The first line of what was read, once the one before it has been taken.  *)
Cut(ls) == IF ls # <<>> /\ ready = <<>>
           THEN ready' = <<Head(ls)>> /\ lines' = Tail(ls)
           ELSE lines' = ls /\ UNCHANGED ready

(* Some of what is there is read, perhaps with the beginning of a line.     *)
DoioRead(from) ==
  /\ at = from /\ ~Gone
  /\ \E n \in 0 .. Len(wire) :
       /\ wire' = SubSeq(wire, n + 1, Len(wire))
       /\ part' \in (IF n < Len(wire) THEN {TRUE, n = 0 /\ part} ELSE {n = 0 /\ part})
       /\ Cut(lines \o SubSeq(wire, 1, n))
  /\ UNCHANGED <<up, asked, prog, xfer, serving>>

-----------------------------------------------------------------------------
(* docmd, and waitio after it; a connection that is gone ends the program.  *)
Command(cmd, to) ==
  IF up
  THEN /\ asked' = Append(asked, cmd) /\ last' = cmd
       /\ at' = "wait" /\ ret' = to /\ servstate' = -1
  ELSE at' = "done" /\ UNCHANGED <<asked, last, ret, servstate>>

(* waitio: a line that is continued is only shown; some end the program,    *)
(* and with the number 227 comes the port.                                  *)
Waitio ==
  /\ at = "wait" /\ ready # <<>>
  /\ ready' = <<>>
  /\ IF ready[1].more THEN UNCHANGED <<at, servstate, answers>>
     ELSE /\ servstate' = ready[1].code /\ answers' = ready[1].of
          /\ at' = IF ready[1].code \in {221, 421, 120} THEN "done" ELSE ret
  /\ UNCHANGED <<ctl, lines, part, ret, last, job, todo, xfer, serving>>

(* The loop of main: what to do is found by the number alone.               *)
Ask(what) == at' = what /\ UNCHANGED <<asked, last, ret, servstate>>
Main ==
  /\ at = "main"
  /\ CASE servstate < 0 -> at' = "wait" /\ ret' = "main" /\ UNCHANGED <<asked, last, servstate>>
       [] servstate \in {220, 530} -> Ask("user")
       [] servstate = 331 -> Ask("password")
       [] servstate = 332 -> Ask("account")
       [] servstate = 230 -> Command("SYST", "main")
       [] servstate > 199 /\ servstate \notin {220, 530, 331, 332, 230} -> Ask("prompt")
       [] OTHER -> Ask("spin")
  /\ UNCHANGED <<up, wire, reader, answers, job, todo, xfer, serving>>

(* doconin, for the three questions of the login.                           *)
Typed == /\ \/ at = "user" /\ Command("USER", "main")
            \/ at = "password" /\ Command("PASS", "main")
            \/ at = "account" /\ Command("ACCT", "main")
         /\ UNCHANGED <<up, wire, reader, answers, job, todo, xfer, serving>>

(* doparse.                                                                 *)
Parse ==
  /\ at = "prompt"
  /\ \/ Command("CWD", "main") /\ UNCHANGED job
     \/ Command("QUIT", "quit") /\ UNCHANGED job
     \/ \* hash
        at' = "main" /\ servstate' = 200 /\ UNCHANGED <<asked, last, ret, job>>
     \/ \E j \in {"get", "put", "dir", "names"} : job' = j /\ Command("TYPE", "typed")
  /\ moved' = 0
  /\ UNCHANGED <<up, wire, reader, answers, todo, data, left, serving>>

(* quit waits twice, for the answer and for the end.                        *)
Quit == /\ at = "quit" /\ at' = "wait" /\ servstate' = -1
        /\ UNCHANGED <<ctl, reader, ret, last, answers, job, todo, xfer, serving>>

-----------------------------------------------------------------------------
(* dogetput, after the answer to TYPE, which is not looked at.              *)
Pasv == /\ at = "typed" /\ Command("PASV", "passive")
        /\ UNCHANGED <<up, wire, reader, answers, job, todo, xfer, serving>>

(* The data connection: one that cannot be made has given up its socket.    *)
Open == /\ at = "passive"
        /\ \/ at' = "back" /\ UNCHANGED data
           \/ servstate = 227 /\ data.st = "wait" /\ data' = [data EXCEPT !.st = "open"] /\ at' = "opened"
        /\ UNCHANGED <<ctl, reader, ret, servstate, last, answers, job, todo, moved, left, serving>>

Transfer == [get |-> "RETR", many |-> "RETR", put |-> "STOR", dir |-> "LIST", names |-> "NLST"]
Retrieve == /\ at = "opened" /\ Command(Transfer[job], "begin")
            /\ UNCHANGED <<up, wire, reader, answers, job, todo, xfer, serving>>

(* What was to be read is given up, what was written still arrives.         *)
Sockclose == data' = [st |-> "shut", q |-> IF job = "put" THEN data.q ELSE 0]

(* slip: a refused transfer leaves its connection open *)
RefusedOpen ==
  /\ at = "begin" /\ servstate # 150 /\ at' = "back"
  /\ UNCHANGED <<ctl, reader, ret, servstate, last, answers, job, todo, xfer, serving>>
Refused ==
  /\ at = "begin" /\ servstate # 150 /\ at' = "back" /\ Sockclose
  /\ UNCHANGED <<ctl, reader, ret, servstate, last, answers, job, todo, moved, left, serving>>

(* The file may not open; then fclose is given no file, which some          *)
(* libraries survive.                                                       *)
Begin ==
  /\ at = "begin" /\ servstate = 150 /\ moved' = 0
  /\ left' = (IF job = "put" THEN Size ELSE left)
  /\ \/ at' = "xfer" /\ UNCHANGED <<data, servstate>>
     \/ job # "dir" /\ at' \in {"back", "done"} /\ Sockclose /\ servstate' = -1
  /\ UNCHANGED <<ctl, reader, ret, last, answers, job, todo, serving>>

(* doio comes to the data when no line was cut.                             *)
Data == /\ at = "xfer" /\ ~Gone /\ (ready # <<>> \/ lines = <<>>)
        /\ at' = (IF job = "put" THEN "out" ELSE "in")
        /\ UNCHANGED <<ctl, reader, ret, servstate, last, answers, job, todo, xfer, serving>>

TransferEnds == at' = "back" /\ servstate' = -1

(* slip: nothing there yet is taken for the end *)
InEndEarly ==
  /\ at = "in" /\ data.q = 0
  /\ TransferEnds /\ Sockclose
  /\ UNCHANGED <<ctl, reader, ret, last, answers, job, todo, moved, left, serving>>
(* doio, inbound data: reads until there is an error.                       *)
InRead ==
  /\ at = "in" /\ data.q > 0 /\ data' = [data EXCEPT !.q = @ - 1] /\ moved' = moved + 1
  /\ UNCHANGED <<ctl, reader, prog, left, serving>>
InEnd ==
  /\ at = "in" /\ data.q = 0 /\ data.st \in {"fin", "reset"}
  /\ TransferEnds /\ Sockclose
  /\ UNCHANGED <<ctl, reader, ret, last, answers, job, todo, moved, left, serving>>
(* ferror: the disk is full.                                                *)
InFull ==
  /\ at = "in" /\ job # "dir" /\ data.q > 0
  /\ TransferEnds /\ data' = [st |-> "full", q |-> 0]
  /\ UNCHANGED <<ctl, reader, ret, last, answers, job, todo, moved, left, serving>>

(* doio, outbound data.  After an error insock is forgotten in place of     *)
(* outsock: the rest of the file is read, and the socket closed, block by   *)
(* block.                                                                   *)
OutWrite ==
  /\ at = "out" /\ left > 0 /\ left' = left - 1
  /\ IF data.st = "open" THEN data.q = 0 /\ data' = [data EXCEPT !.q = 1] /\ UNCHANGED at
     ELSE Sockclose /\ at' = "xfer"
  /\ UNCHANGED <<ctl, reader, ret, servstate, last, answers, job, todo, moved, serving>>
OutEnd ==
  /\ at = "out" /\ left = 0 /\ TransferEnds /\ Sockclose
  /\ UNCHANGED <<ctl, reader, ret, last, answers, job, todo, moved, left, serving>>

-----------------------------------------------------------------------------
(* slip: the next file is asked for before the end of this one is answered *)
ListedHasty ==
  /\ at = "back" /\ job \in {"names", "many"} /\ at' = "list"
  /\ UNCHANGED <<ctl, reader, ret, servstate, last, answers, job, todo, xfer, serving>>
(* The call of dogetput is over: mget and dofio wait for the final answer   *)
(* of a transfer that took place.                                           *)
Listed ==
  /\ at = "back" /\ job \in {"names", "many"}
  /\ IF servstate < 0 THEN at' = "wait" /\ ret' = "list" ELSE at' = "list" /\ UNCHANGED ret
  /\ UNCHANGED <<ctl, reader, servstate, last, answers, job, todo, xfer, serving>>

(* dofio: one name after the other is read, from what there is of the list, *)
(* and fetched.                                                             *)
Fetch ==
  /\ at = "list"
  /\ LET n == IF job = "names" THEN moved ELSE todo IN
     IF n > 0 THEN todo' = n - 1 /\ job' = "many" /\ Command("TYPE", "typed")
     ELSE todo' = 0 /\ job' = "get" /\ at' = "main" /\ UNCHANGED <<asked, last, ret, servstate>>
  /\ UNCHANGED <<up, wire, reader, answers, xfer, serving>>

Single == /\ at = "back" /\ job \in {"get", "put", "dir"} /\ at' = "main"
          /\ UNCHANGED <<ctl, reader, ret, servstate, last, answers, job, todo, xfer, serving>>

Asking == {"user", "password", "account", "prompt"}
Polling == {"wait"} \cup Asking

Client == \/ \E p \in Polling \cup {"xfer"} : DoioExit(p) \/ DoioRead(p)
          \/ Waitio \/ Main \/ Quit \/ Pasv \/ Open \/ Retrieve \/ Refused \/ Begin \/ Data
          \/ InRead \/ InEnd \/ InFull \/ OutWrite \/ OutEnd \/ Listed \/ Fetch \/ Single
User == Typed \/ Parse

-----------------------------------------------------------------------------
(* The server: it answers in order, and a transfer twice.                   *)
Codes == [USER |-> {230, 331, 332, 530}, PASS |-> {230, 332, 530}, ACCT |-> {230, 530},
          SYST |-> {215}, CWD |-> {250}, QUIT |-> {221, 500}, TYPE |-> {200}, PASV |-> {227, 500},
          RETR |-> Begins \cup {550}, STOR |-> Begins \cup {550},
          LIST |-> Begins \cup {550}, NLST |-> Begins \cup {550}]
Transfers == {"RETR", "STOR", "LIST", "NLST"}

Answer ==
  /\ up /\ asked # <<>> /\ serving = "no" /\ asked' = Tail(asked)
  /\ LET cmd == Head(asked) IN
     \E n \in Codes[cmd], long \in (IF cmd = "PASS" THEN BOOLEAN ELSE {FALSE}) :
       /\ wire' = wire \o (IF long THEN <<Line(n, TRUE, cmd)>> ELSE <<>>) \o <<Line(n, FALSE, cmd)>>
       /\ data' = (IF n = 227 THEN [Nothing EXCEPT !.st = "wait"] ELSE data)
       /\ IF n \in Begins THEN serving' = cmd /\ left' = Size
          ELSE serving' = (IF cmd = "QUIT" THEN "quit" ELSE "no") /\ UNCHANGED left
  /\ UNCHANGED <<up, reader, prog, moved>>

Serve ==
  /\ \/ /\ serving \in Transfers \ {"STOR"} /\ data.st = "open"
        /\ IF left = 0 THEN data' = [data EXCEPT !.st = "fin"] /\ UNCHANGED left
           ELSE data.q = 0 /\ data' = [data EXCEPT !.q = 1] /\ left' = left - 1
     \/ serving = "STOR" /\ data.q > 0 /\ data' = [data EXCEPT !.q = 0] /\ UNCHANGED left
  /\ UNCHANGED <<ctl, reader, prog, moved, serving>>

Final ==
  /\ up /\ serving \in Transfers /\ serving' = "no"
  /\ data.st \in (IF serving = "STOR" THEN {"shut", "reset"} ELSE {"fin", "shut", "full", "reset"})
  /\ data.st = "shut" => data.q = 0
  /\ wire' = Append(wire, Line(226, FALSE, serving))
  /\ UNCHANGED <<up, asked, reader, prog, xfer>>

(* It may break off a transfer, and leave, with a word or without; but it   *)
(* stays until the data connection it offered was tried.                    *)
Break == /\ serving \in Transfers /\ data.st = "open" /\ data' = [st |-> "reset", q |-> 0]
         /\ UNCHANGED <<ctl, reader, prog, moved, left, serving>>
Leave == /\ up /\ data.st # "wait" /\ up' = FALSE
         /\ wire' \in {<<>>, wire, Append(wire, Line(421, FALSE, "bye"))}
         /\ UNCHANGED <<asked, reader, prog, xfer, serving>>

Closes == up /\ serving = "quit" /\ up' = FALSE
          /\ UNCHANGED <<wire, asked, reader, prog, xfer, serving>>

FtpServer == Answer \/ Serve \/ Final \/ Closes

Ended == at \in {"done", "spin"} /\ UNCHANGED ftpVars

FtpNext == Client \/ User \/ FtpServer \/ Break \/ Leave \/ Ended

FtpSpec == FtpInit /\ [][FtpNext]_ftpVars

(* The program polls without end and the server does its work; the user     *)
(* may take any time.                                                       *)
FtpFairSpec == FtpSpec /\ WF_ftpVars(Client) /\ WF_ftpVars(FtpServer)
-----------------------------------------------------------------------------
FtpTypeOK ==
  /\ up \in BOOLEAN /\ part \in BOOLEAN
  /\ \A q \in {wire, lines, ready} : \A k \in DOMAIN q : q[k].code \in Int /\ q[k].more \in BOOLEAN
  /\ Len(ready) \in {0, 1} /\ Len(asked) \in {0, 1}
  /\ at \in Polling \cup {"main", "spin", "quit", "typed", "passive", "opened", "begin", "xfer",
                          "in", "out", "back", "list", "done"}
  /\ servstate \in Int /\ todo \in 0 .. Size /\ moved \in 0 .. Size /\ left \in 0 .. Size
  /\ job \in DOMAIN Transfer /\ serving \in Transfers \cup {"no", "quit"}
  /\ data \in [st : {"none", "wait", "open", "fin", "reset", "shut", "full"}, q : {0, 1}]

(* The number the program acts on answers the last command it sent: it      *)
(* never falls a line behind, whatever was refused, broken off or not done. *)
InStep == servstate > 0 /\ at # "done" => answers = last

(* No data connection is left behind when the user is asked again.          *)
DataClosed == at \in Asking => data.st \notin {"open", "fin", "reset"}

(* The program's state is well typed, and whenever it asks its user it has  *)
(* closed what it opened (ftp.c:595-640).                                   *)
FtpSound == FtpTypeOK /\ DataClosed

(* A file that was fetched is whole, unless the connection was broken or    *)
(* the disk is full (ftp.c:328).                                            *)
FileWhole == [][at = "in" /\ at' = "back" /\ data.st # "reset" /\ data'.st # "full" => moved = Size]_ftpVars

(* The program always comes back to its user or ends, also when the server  *)
(* leaves; except when it leaves in the middle of a line.                   *)
CutShort == ~up /\ wire = <<>> /\ lines = <<>> /\ ready = <<>> /\ part
ComesBack == []<>(at \in Asking \cup {"done"} \/ CutShort)
=============================================================================
