------------------------------ MODULE MailStore ------------------------------
(***************************************************************************)
(* org.little.lmsg.store.fsstore, the message store of the SMTP and IMAP   *)
(* servers: a folder is a directory, a message an XML file in it.  SMTP    *)
(* sessions (Content) and IMAP APPEND save messages, IMAP SELECT and       *)
(* STATUS load folders, IMAP CREATE makes them.  They run on different     *)
(* event loops and share the directories and the counter lUID, nothing     *)
(* else; no file and no folder is ever deleted.                            *)
(*                                                                         *)
(* A mail has one part for each attachment (ELM2lMessage).  A part is      *)
(* saved in the inbox of every recipient and the outbox of the sender, by  *)
(* APPEND in one mailbox.  Three things happen to parts without any        *)
(* failure, and no client hears of them: lMessageX509 makes nothing of a   *)
(* part, which is passed over; msg2str() throws for a mail without a       *)
(* Subject, and the file stays empty; and the XML text, into which From,   *)
(* To, file name and body go as they are, is not well-formed.              *)
(*                                                                         *)
(* A file is identified by the delivery <<m, i>> that created it.  Its     *)
(* name begins with the time in milliseconds and ends in a random number,  *)
(* so a new file sorts last, or before the last one when both belong to    *)
(* the same millisecond.                                                   *)
(***************************************************************************)
EXTENDS Integers, Sequences, SequencesExt, FiniteSets

CONSTANTS Writers, Readers, Creators, Mails, Appends, Bad, Folders, None,
          targets,    \* targets[m]: the folders the parts of m are to be saved in, in order
          Skipped,    \* deliveries of a part that lMessageX509.parse returns null for
          NoText,     \* deliveries that msg2str throws for: there is no Subject
          Odd,        \* deliveries with a text that is not well-formed XML
          made,       \* folders that exist from the start
          MaxErrors,  \* bound: failed file operations
          MaxCrashes  \* bound: restarts of the program

Msgs == Mails \cup Appends

(* The deliveries: a message and a position among its targets *)
Ids == UNION {{<<m, i>> : i \in 1..Len(targets[m])} : m \in Msgs}
home(d) == targets[d[1]][d[2]]

ASSUME StoreAssumption ==
    /\ Mails \cap Appends = {} /\ Bad \subseteq Msgs /\ made \subseteq Folders
    /\ targets \in [Msgs -> Seq(Folders)] /\ None \notin Msgs \cup Folders \cup {"OK", "NO", "cut"}
    /\ \A m \in Appends : targets[m] # << >> /\ \A i \in 1..Len(targets[m]) : targets[m][i] = targets[m][1]
    /\ Skipped \subseteq Ids /\ NoText \subseteq Ids /\ Odd \subseteq Ids
    /\ MaxErrors \in Nat /\ MaxCrashes \in Nat

VARIABLES
    folders,        \* directories that exist
    dir,            \* dir[f]: the files of f, sorted by name
    file,           \* file[d]: none, empty, part or full, its UID, and the run that drew the UID
    count,          \* lUID.count
    pc, msg, idx,   \* of a thread that saves msg[w]: the delivery it is at
    uid,            \* uid[w]: the UID it drew
    reply,          \* reply[m]: the answer its client got
    rd,             \* rd[r]: the load() of a reader
    cr,             \* cr[c]: the CREATE of a folder that was not there
    errors, life    \* failed operations, runs of the program

fsVars == <<folders, dir, file>>
wrVars == <<pc, msg, idx, uid, reply>>
vars   == <<fsVars, count, wrVars, rd, cr, errors, life>>

noFile == [st |-> "none", uid |-> 0, life |-> 0]
noLoad == [pc |-> "idle", folder |-> None, ls |-> << >>, list |-> {}, acked |-> {}]
noCreate == [pc |-> "idle", folder |-> None]

Init ==
    /\ folders = made
    /\ dir = [f \in Folders |-> << >>]
    /\ file = [d \in Ids |-> noFile]
    /\ count = 1
    /\ pc = [w \in Writers |-> "idle"] /\ msg = [w \in Writers |-> None]
    /\ idx = [w \in Writers |-> 1] /\ uid = [w \in Writers |-> 0]
    /\ reply = [m \in Msgs |-> None]
    /\ rd = [r \in Readers |-> noLoad]
    /\ cr = [c \in Creators |-> noCreate]
    /\ errors = 0 /\ life = 1

-----------------------------------------------------------------------------
(* Saving.                                                                 *)

at(w) == <<msg[w], idx[w]>>
target(w) == targets[msg[w]][idx[w]]
to(w, l) == pc' = [pc EXCEPT ![w] = l]
answer(w, r) == reply' = [reply EXCEPT ![msg[w]] = r]

(* The next folder, whatever became of this one: results are not looked at. *)
next(w) == to(w, "open") /\ idx' = [idx EXCEPT ![w] = @ + 1]

fails == errors < MaxErrors /\ errors' = errors + 1

(* A client has sent m.  parse() refuses what has no parts, and APPEND a   *)
(* mailbox that does not exist.                                            *)
receive(w, m) ==
    /\ pc[w] = "idle" /\ reply[m] = None /\ \A v \in Writers : msg[v] # m
    /\ msg' = [msg EXCEPT ![w] = m]
    /\ to(w, IF m \in Bad \/ (m \in Appends /\ targets[m][1] \notin folders) THEN "failed" ELSE "open")
    /\ UNCHANGED <<fsVars, count, idx, uid, reply, rd, cr, errors, life>>

(* There is a delivery to make. *)
more(w) == pc[w] = "open" /\ idx[w] <= Len(targets[msg[w]])

(* lMessageX509.parse returns null: continue. *)
skip(w) ==
    /\ more(w) /\ at(w) \in Skipped
    /\ next(w)
    /\ UNCHANGED <<fsVars, count, msg, uid, reply, rd, cr, errors, life>>

(* Mutant: the answer is sent when the last folder is reached. *)
getFolder_early(w) ==
    /\ more(w) /\ at(w) \notin Skipped
    /\ \/ /\ target(w) \in folders /\ to(w, "uid") /\ UNCHANGED idx
          /\ IF idx[w] = Len(targets[msg[w]]) THEN answer(w, "OK") ELSE UNCHANGED reply
       \/ target(w) \notin folders /\ next(w) /\ UNCHANGED reply
    /\ UNCHANGED <<fsVars, count, msg, uid, rd, cr, errors, life>>

(* Mutant: the folder is not tested. *)
getFolder_unchecked(w) ==
    /\ more(w) /\ at(w) \notin Skipped
    /\ to(w, "uid")
    /\ UNCHANGED <<fsVars, count, msg, idx, uid, reply, rd, cr, errors, life>>

(* store.getInboxFolder() or getOutboxFolder(): SMTP leaves out a folder   *)
(* that does not exist.  The mailbox of an APPEND is there, receive() has  *)
(* looked.                                                                 *)
getFolder(w) ==
    /\ more(w) /\ at(w) \notin Skipped
    /\ \/ target(w) \in folders /\ to(w, "uid") /\ UNCHANGED idx
       \/ target(w) \notin folders /\ next(w)
    /\ UNCHANGED <<fsVars, count, msg, uid, reply, rd, cr, errors, life>>

(* Mutant: the increment is not seen by a thread that draws at the same time. *)
lUID_get_racy(w) ==
    /\ pc[w] = "uid" /\ to(w, "create")
    /\ uid' = [uid EXCEPT ![w] = count]
    /\ count' = IF \E v \in Writers \ {w} : pc[v] = "uid" THEN count ELSE count + 1
    /\ UNCHANGED <<fsVars, msg, idx, reply, rd, cr, errors, life>>

(* msg.setUID(lUID.get()), synchronized *)
lUID_get(w) ==
    /\ pc[w] = "uid" /\ to(w, "create")
    /\ uid' = [uid EXCEPT ![w] = count]
    /\ count' = count + 1
    /\ UNCHANGED <<fsVars, msg, idx, reply, rd, cr, errors, life>>

(* createMessageXML(): an empty file under a new name; null when three     *)
(* attempts failed.                                                        *)
createMessageXML(w) ==
    /\ pc[w] = "create"
    /\ \/ /\ \E p \in {Len(dir[target(w)]), Len(dir[target(w)]) + 1} \ {0} :
                dir' = [dir EXCEPT ![target(w)] = InsertAt(@, p, at(w))]
          /\ file' = [file EXCEPT ![at(w)] = [st |-> "empty", uid |-> 0, life |-> 0]]
          /\ to(w, "write") /\ UNCHANGED <<idx, errors>>
       \/ fails /\ next(w) /\ UNCHANGED <<dir, file>>
    /\ UNCHANGED <<folders, count, msg, uid, reply, rd, cr, life>>

(* save(): the XML text is written.  A failure leaves what was written so  *)
(* far, an exception of msg2str() the empty file, and save() returns true. *)
save(w) ==
    /\ pc[w] = "write"
    /\ \/ /\ at(w) \notin NoText
          /\ file' = [file EXCEPT ![at(w)].st = "part"]
          /\ UNCHANGED <<pc, idx, errors>>
       \/ /\ at(w) \notin NoText
          /\ file' = [file EXCEPT ![at(w)] = [st |-> "full", uid |-> uid[w], life |-> life]]
          /\ next(w) /\ UNCHANGED errors
       \/ at(w) \in NoText /\ next(w) /\ UNCHANGED <<file, errors>>
       \/ fails /\ next(w) /\ UNCHANGED file
    /\ UNCHANGED <<folders, dir, count, msg, uid, reply, rd, cr, life>>

(* The answer: 250 or OK, or 450 or NO *)
respond(w) ==
    /\ \/ pc[w] = "open" /\ idx[w] > Len(targets[msg[w]]) /\ answer(w, "OK")
       \/ pc[w] = "failed" /\ answer(w, "NO")
    /\ to(w, "idle")
    /\ msg' = [msg EXCEPT ![w] = None]
    /\ idx' = [idx EXCEPT ![w] = 1] /\ uid' = [uid EXCEPT ![w] = 0]
    /\ UNCHANGED <<fsVars, count, rd, cr, errors, life>>

writer(w) == (\E m \in Msgs : receive(w, m)) \/ skip(w) \/ getFolder(w) \/ lUID_get(w) \/ createMessageXML(w) \/ save(w) \/ respond(w)

-----------------------------------------------------------------------------
(* Loading.                                                                *)

(* Deliveries a client was told of that load() should show: the part and   *)
(* the text were fit for it, and the folder was there all along.           *)
Promised(d) ==
    reply[d[1]] = "OK" /\ home(d) \in made /\ d \notin Skipped \cup NoText

Acked(f) == {d \in Ids : home(d) = f /\ Promised(d) /\ d \notin Odd}

(* open() of an existing folder; the names are listed once. *)
list(r, f) ==
    /\ rd[r].pc = "idle" /\ f \in folders
    /\ rd' = [rd EXCEPT ![r] = [noLoad EXCEPT !.pc = "load", !.folder = f, !.ls = dir[f], !.acked = Acked(f)]]
    /\ UNCHANGED <<fsVars, count, wrVars, cr, errors, life>>

(* load() of a file: it is whole and its text parses. *)
parses(d) == file[d].st = "full" /\ d \notin Odd

(* Mutant: the walk ends at a file that is not a whole message. *)
load_break(r) ==
    /\ rd[r].pc = "load" /\ rd[r].ls # << >>
    /\ LET d == Head(rd[r].ls) IN
       rd' = [rd EXCEPT ![r] = IF parses(d) THEN [@ EXCEPT !.ls = Tail(@), !.list = @ \cup {d}]
                               ELSE [@ EXCEPT !.ls = << >>]]
    /\ UNCHANGED <<fsVars, count, wrVars, cr, errors, life>>

(* load() of the next file: one that is empty or does not parse is left out. *)
load(r) ==
    /\ rd[r].pc = "load" /\ rd[r].ls # << >>
    /\ LET d == Head(rd[r].ls) IN
       rd' = [rd EXCEPT ![r].ls = Tail(@), ![r].list = IF parses(d) THEN @ \cup {d} ELSE @]
    /\ UNCHANGED <<fsVars, count, wrVars, cr, errors, life>>

loaded(r) == rd[r].pc = "load" /\ rd[r].ls = << >>

(* close().  That SELECT and STATUS draw an identifier as the UIDVALIDITY  *)
(* of most folders is left out: it makes the counter larger.               *)
clear(r) ==
    /\ loaded(r)
    /\ rd' = [rd EXCEPT ![r] = noLoad]
    /\ UNCHANGED <<fsVars, count, wrVars, cr, errors, life>>

reader(r) == (\E f \in Folders : list(r, f)) \/ load(r) \/ clear(r)

-----------------------------------------------------------------------------
(* CREATE: getFolder(), and createFolder() if there is none.  What it      *)
(* answers without a change of the store, because there is no session, no  *)
(* store or a folder of that name, is left out.                            *)

create_get(c, f) ==
    /\ cr[c].pc = "idle" /\ f \notin folders
    /\ cr' = [cr EXCEPT ![c] = [pc |-> "create", folder |-> f]]
    /\ UNCHANGED <<fsVars, count, wrVars, rd, errors, life>>

(* lFSFolder.create(): false if the folder exists by now *)
create(c) ==
    /\ cr[c].pc = "create"
    /\ cr' = [cr EXCEPT ![c] = IF @.folder \in folders THEN noCreate ELSE [@ EXCEPT !.pc = "mkdirs"]]
    /\ UNCHANGED <<fsVars, count, wrVars, rd, errors, life>>

(* mkdirs(), whose result is not looked at *)
mkdirs(c) ==
    /\ cr[c].pc = "mkdirs"
    /\ cr' = [cr EXCEPT ![c] = noCreate]
    /\ \/ folders' = folders \cup {cr[c].folder} /\ UNCHANGED errors
       \/ cr[c].folder \notin folders /\ fails /\ UNCHANGED folders
    /\ UNCHANGED <<dir, file, count, wrVars, rd, life>>

creator(c) == (\E f \in Folders : create_get(c, f)) \/ create(c) \/ mkdirs(c)

-----------------------------------------------------------------------------
(* The program is restarted: what is in memory is lost, lUID starts again. *)
restart ==
    /\ life <= MaxCrashes
    /\ life' = life + 1
    /\ count' = 1
    /\ pc' = [w \in Writers |-> "idle"] /\ msg' = [w \in Writers |-> None]
    /\ idx' = [w \in Writers |-> 1] /\ uid' = [w \in Writers |-> 0]
    /\ reply' = [m \in Msgs |-> IF \E w \in Writers : msg[w] = m THEN "cut" ELSE reply[m]]
    /\ rd' = [r \in Readers |-> noLoad] /\ cr' = [c \in Creators |-> noCreate]
    /\ UNCHANGED <<fsVars, errors>>

Next == (\E w \in Writers : writer(w)) \/ (\E r \in Readers : reader(r)) \/ (\E c \in Creators : creator(c)) \/ restart

Spec == Init /\ [][Next]_vars

-----------------------------------------------------------------------------
(* The type invariant: values in range, and every listed file is a file.   *)
TypeOK ==
    /\ folders \in SUBSET Folders
    /\ \A f \in Folders : dir[f] # << >> => f \in folders
    /\ \A d \in Ids : file[d].st # "none" <=> \E f \in Folders : d \in ToSet(dir[f])
    /\ \A w \in Writers : pc[w] \in {"idle", "open", "uid", "create", "write", "failed"}
    /\ \A w \in Writers : pc[w] # "idle" <=> msg[w] # None
    /\ \A m \in Msgs : reply[m] \in {None, "OK", "NO", "cut"}
    /\ errors \in 0..MaxErrors /\ life \in 1..(MaxCrashes + 1)

(* save() of a folder returns true and Content looks at no result, yet of  *)
(* what a client was told is saved, apart from parts that were passed over *)
(* and mails without a Subject, a file is missing from a folder that       *)
(* existed all along only for a failed operation, one for each: neither    *)
(* concurrent sessions nor restarts lose an answered delivery.             *)
LossIsBounded ==
    Cardinality({d \in Ids : Promised(d) /\ file[d].st # "full"}) <= errors

(* Two messages with the same UID in a folder were saved by different runs *)
(* of the program: lUID.get() is synchronized, and starts again at a       *)
(* restart while the UIDVALIDITY that getUID() reports stays.              *)
UidUniqueInRun ==
    \A f \in Folders : \A d, e \in ToSet(dir[f]) :
        d # e /\ file[d].st = "full" /\ file[e].st = "full" /\ file[d].uid = file[e].uid
            => file[d].life # file[e].life

(* End to end: a load() shows every delivery with a well-formed text that  *)
(* was answered before it began, but for one for each failed operation,    *)
(* whatever empty, cut or malformed files other sessions or earlier runs   *)
(* left in the directory.                                                  *)
AckedIsListed ==
    \A r \in Readers : loaded(r) => Cardinality(rd[r].acked \ rd[r].list) <= errors
=============================================================================
