-------------------------------- MODULE ChFs --------------------------------
(***************************************************************************)
(* The file system of Chinux (fileSystem/newFs.c) with the users of its    *)
(* shell: the block bitmap, the inode table, the directories, the          *)
(* descriptor table and the current directory, and one action for each     *)
(* command of the shell, for login, logout and createusr (src/kernel.c).   *)
(*                                                                         *)
(* A command runs with interrupts disabled and is one step; its calls are  *)
(* operators from a state fs to the state they leave.  The contents of a   *)
(* file are its size, and the list of users for the file of users.         *)
(* The names users, etc, usersfile, fifoa and fifob are abbreviated.       *)
(*                                                                         *)
(* When two inodes share blocks, a directory lies outside the disk or the  *)
(* current inode is not a directory, the next commands read as a directory *)
(* what is something else: the model stops there (Intact).                 *)
(***************************************************************************)
EXTENDS Integers, Sequences, FiniteSetsExt

CONSTANTS
  Name,           \* names typed by users, sequences of characters
  Path,           \* paths typed by users: from the root or not, and the components
  UserName,       \* names of users
  SLOTS,          \* entries of a directory (96)
  DIR_BLOCKS,     \* blocks of a directory (12)
  BLOCK_SIZE, BITMAP_SIZE, HEADER_BLOCKS,
  MIN_FREE,       \* what search_free_blocks keeps back (100)
  LAST_FD,        \* (99)
  USERS_SIZE,     \* sizeof(user) * 100
  MAX_USERS,      \* (100)
  CANT,           \* writes of create_n_bytes (20480)
  Lengths,        \* lengths of the texts written
  MaxInodes,      \* bound on the inodes created
  MaxSize         \* bound on the size of a file

ADMIN == 0
USR == 1
NUL == "NUL"
Dot == <<".">>
DotDot == <<".", ".">>
usersName == <<"u", "s">>
etcName == <<"e", "t">>
usersfile == <<"u", "s", "f">>
fifoa == <<"f", "a">>
fifob == <<"f", "b">>

ASSUME FsAssumption ==
  /\ {SLOTS, DIR_BLOCKS, BLOCK_SIZE, HEADER_BLOCKS, LAST_FD, MAX_USERS, CANT,
      BITMAP_SIZE, MIN_FREE, USERS_SIZE, MaxInodes, MaxSize} \subseteq Nat
  /\ SLOTS > 2 /\ DIR_BLOCKS > 0 /\ BLOCK_SIZE > 0 /\ HEADER_BLOCKS > 0
  /\ LAST_FD >= 3 /\ MAX_USERS > 0 /\ CANT > 0
  /\ BITMAP_SIZE > HEADER_BLOCKS /\ MaxInodes >= 5
  /\ Name \subseteq Seq(STRING) /\ UserName \subseteq STRING /\ Lengths \subseteq Nat
  /\ Path \subseteq [root : BOOLEAN, parts : Seq(Seq(STRING))]
  /\ Name \cap {usersName, etcName, usersfile, fifoa, fifob} = {}

VARIABLES
  fs,        \* the file system and the state of the shell that goes with it
  usrLoged,  \* somebody is logged in
  loginFd,   \* the descriptor logUser holds while it waits for the keyboard
  reply      \* the inode and the name of a file just reported as created

vars == <<fs, usrLoged, loginFd, reply>>

Inode == 0 .. MaxInodes - 1
Slot == 0 .. SLOTS - 1
Fd == 3 .. LAST_FD

-----------------------------------------------------------------------------
(* Blocks.                                                                 *)

\* The block search_free_blocks finds: the start of the first long enough run of
\* free bits, else of the run that the end of the bitmap cuts off, else -1.
FreeRun(f, q) ==
  LET runs == {i \in 0 .. BITMAP_SIZE - q : (i .. i + q - 1) \cap f.used = {}}
  IN  IF f.freeBlocks < MIN_FREE THEN -1
      ELSE IF runs # {} THEN Min(runs)
      ELSE IF BITMAP_SIZE - 1 \in f.used THEN -1
      ELSE 1 + Max(f.used \cap 0 .. BITMAP_SIZE - 1)

\* Mutant: the last bit of the run is not set.
TakeBlocksShort(f, at, q) ==
  IF at = -1 THEN f
  ELSE [f EXCEPT !.used = @ \cup at .. at + q - 2, !.freeBlocks = @ - q]

\* The rest of search_free_blocks: the bits are set and counted.
TakeBlocks(f, at, q) ==
  IF at = -1 THEN f
  ELSE [f EXCEPT !.used = @ \cup at .. at + q - 1, !.freeBlocks = @ - q]

free_used_blocks(f, at, q) ==
  [f EXCEPT !.used = @ \ (at .. at + q - 1), !.freeBlocks = @ + q]

Blocks(f, i) == f.nodes[i].first .. f.nodes[i].first + f.nodes[i].quant - 1

\* The inodes that own blocks.
Owners(f) == {i \in Inode : f.nodes[i].quant > 0}

-----------------------------------------------------------------------------
(* Inodes and directories.                                                 *)

Unknown == [id |-> "UNKNOWN", gid |-> ADMIN, size |-> 0, link |-> 0,
            first |-> 0, quant |-> 0, users |-> <<>>]

NoEntry == [type |-> "NONE", inode |-> 0, name |-> <<>>]

\* fs_creat_inode: the next inode (none is ever freed), with its blocks; the
\* inode is marked weak when there are none, or they are cut off by the end of the
\* disk.
fs_creat_inode(f, id, size) ==
  LET q == CASE id = "DIRECTORY" -> DIR_BLOCKS
             [] id = "FIFO" -> 0
             [] OTHER -> size \div BLOCK_SIZE + 1
      at == IF id = "FIFO" THEN 0 ELSE FreeRun(f, q)
  IN  [(IF id = "FIFO" THEN f ELSE TakeBlocks(f, at, q))
         EXCEPT !.inodes = @ + 1,
                !.nodes[f.inodes] = [id |-> id, gid |-> f.group, size |-> size, link |-> 0,
                                     first |-> at, quant |-> q, users |-> <<>>],
                !.weak = IF at = -1 \/ at + q > BITMAP_SIZE THEN @ \cup {f.inodes} ELSE @]

\* The string in a name field: what comes before the first NUL.
CString(raw) ==
  LET ends == {i \in 1 .. Len(raw) : raw[i] = NUL}
  IN  IF ends = {} THEN raw ELSE SubSeq(raw, 1, Min(ends) - 1)

\* memcpy of a name without its NUL over what the field held before.
Overlay(new, old) == new \o SubSeq(old, Len(new) + 1, Len(old))

\* search_directory: the inode of the first entry with the name, in use or not.
Found(f, name, d) == {s \in Slot \ {0} : CString(f.dirs[d][s].name) = name}

search_directory(f, name, d) ==
  IF Found(f, name, d) = {} THEN -1 ELSE f.dirs[d][Min(Found(f, name, d))].inode

\* insert_directory_entry, insert_file_entry and insert_fifo_entry: the first
\* entry that is not in use; when there is none nothing is written.
insert_entry(f, type, i, d, name) ==
  LET open == {s \in Slot : f.dirs[d][s].type = "NONE"}
  IN  IF open = {} THEN f
      ELSE [f EXCEPT !.dirs[d][Min(open)] =
              [type |-> type, inode |-> i, name |-> Overlay(name, @.name)]]

\* The entries fs_init_dataStream writes to a new directory.
NewDirectory(i, parent) ==
  [s \in Slot |-> CASE s = 0 -> [type |-> "DIRECTORY", inode |-> i, name |-> Dot]
                    [] s = 1 -> [type |-> "DIRECTORY", inode |-> parent, name |-> DotDot]
                    [] OTHER -> NoEntry]

\* Mutant: the parent is the current directory and not the one it is made in.
insert_directory_current(f, name, d) ==
  LET i == f.inodes
      g == fs_creat_inode(f, "DIRECTORY", BLOCK_SIZE)
  IN  insert_entry([g EXCEPT !.dirs[i] = NewDirectory(i, f.current)], "DIRECTORY", i, d, name)

insert_directory(f, name, d) ==
  LET i == f.inodes
      g == fs_creat_inode(f, "DIRECTORY", BLOCK_SIZE)
  IN  insert_entry([g EXCEPT !.dirs[i] = NewDirectory(i, d)], "DIRECTORY", i, d, name)

\* insert_file, for a name that search_directory does not find.
insert_file(f, name, d) ==
  insert_entry(fs_creat_inode(f, "FILE", 0), "FILE", f.inodes, d, name)

\* insert_fifo: always in the current directory, whatever it already holds.
insert_fifo(f, name) ==
  insert_entry(fs_creat_inode(f, "FIFO", 0), "FIFO", f.inodes, f.current, name)

\* One turn of the loop of parser_path: a component that is not found stays in the
\* buffer, before the next; the last alone decides whether the path is wrong.
Follow(f, parts, n, w) ==
  LET name == w.buffer \o parts[n]
      next == search_directory(f, name, w.at)
      ok == w.ok \/ n = Len(parts)
  IN  IF parts[n] = Dot THEN [w EXCEPT !.ok = ok]
      ELSE IF parts[n] = DotDot
      THEN [w EXCEPT !.at = search_directory(f, DotDot, w.at), !.ok = ok]
      ELSE IF next # -1 THEN [at |-> next, buffer |-> <<>>, ok |-> ok]
      ELSE [w EXCEPT !.buffer = name, !.ok = FALSE]

\* The loop, after n components.
Walk(f, path) ==
  LET start == [at |-> IF path.root THEN 1 ELSE f.current, buffer |-> <<>>, ok |-> TRUE]
      walk[n \in 0 .. Len(path.parts)] ==
        IF n = 0 THEN start ELSE Follow(f, path.parts, n, walk[n - 1])
  IN  walk

parser_path(f, path) ==
  LET end == Walk(f, path)[Len(path.parts)]
  IN  IF end.ok THEN end.at ELSE -1

\* Mutant: the groups are compared the other way round.
RefusedSwapped(f, i) == f.nodes[i].gid > f.group

\* The file belongs to a group with more rights than the user's.
Refused(f, i) == f.nodes[i].gid < f.group

-----------------------------------------------------------------------------
(* Removing.                                                               *)

\* The entries of the children of the directory d, once those of `gone' are cleared.
InUse(f, gone, d) ==
  {s \in Slot \ {0, 1} : f.dirs[d][s].type # "NONE" /\ <<d, s>> \notin gone}

\* One turn of the loop of recursive_remove, at the child in slot s of the directory d:
\* its entry is cleared, unless it is refused.
RemoveChild(f, remove, gone, d, s, w) ==
  LET r == remove[<<w.gone, f.dirs[d][s].inode>>]
  IN  IF s \notin InUse(f, gone, d) THEN w
      ELSE [gone |-> IF r.ret THEN r.gone ELSE r.gone \cup {<<d, s>>}, ret |-> r.ret]

\* The loop; its result is that of the last child.
RemoveChildren(f, remove, gone, d) ==
  LET after[s \in Slot] ==
        IF s = 0 THEN [gone |-> gone, ret |-> FALSE]
        ELSE RemoveChild(f, remove, gone, d, s, after[s - 1])
  IN  after[SLOTS - 1]

\* recursive_remove, from the entries that are cleared already and an inode to the
\* entries that are then, when it can call itself for the children with `remove'...
RemoveWith(f, remove) ==
  [t \in (SUBSET (Inode \X Slot)) \X Inode |->
     IF Refused(f, t[2]) THEN [gone |-> t[1], ret |-> TRUE]
     ELSE IF f.nodes[t[2]].id # "DIRECTORY" THEN [gone |-> t[1], ret |-> FALSE]
     ELSE RemoveChildren(f, remove, t[1], t[2])]

\* ... and with n calls inside each other, which the number of inodes bounds.
Removal(f) ==
  LET none == [t \in (SUBSET (Inode \X Slot)) \X Inode |->
                 [gone |-> t[1], ret |-> Refused(f, t[2])]]
      remove[n \in 0 .. MaxInodes] == IF n = 0 THEN none ELSE RemoveWith(f, remove[n - 1])
  IN  remove

\* The cleared entries keep their names.
recursive_remove(f, i) ==
  LET r == Removal(f)[MaxInodes][<<{}, i>>]
      kept(d, s) == IF <<d, s>> \in r.gone THEN [NoEntry EXCEPT !.name = f.dirs[d][s].name]
                    ELSE f.dirs[d][s]
  IN  [fs |-> [f EXCEPT !.dirs = [d \in Inode |-> [s \in Slot |-> kept(d, s)]]], ret |-> r.ret]

\* The entry of the inode in the current directory is cleared, with the first two
\* characters of its name (strcopy).
ClearEntry(f, i) ==
  LET here == {s \in Slot \ {0, 1} : f.dirs[f.current][s].inode = i}
      old == f.dirs[f.current][Min(here)].name
  IN  IF here = {} THEN f
      ELSE [f EXCEPT !.dirs[f.current][Min(here)] =
              [NoEntry EXCEPT !.name = IF Len(old) <= 2 THEN <<>>
                                       ELSE <<NUL, NUL>> \o SubSeq(old, 3, Len(old))]]

rmDir(f, path) ==
  LET i == parser_path(f, path)
      r == recursive_remove(f, i)
  IN  IF i = -1 \/ Refused(f, i) THEN f
      ELSE IF f.nodes[i].id # "DIRECTORY" THEN ClearEntry(f, i)
      ELSE IF r.ret THEN r.fs ELSE ClearEntry(r.fs, i)

-----------------------------------------------------------------------------
(* Files and descriptors; a descriptor is free when its inode is 0.        *)

\* write_inode: the blocks are exchanged for a longer run when the file no longer
\* fits; otherwise it is written in place, and its own blocks are freed as well.
\* The inode is then weak: its blocks are in use and marked free.
write_inode(f, i, n, users) ==
  LET node == f.nodes[i]
      required == (node.size + n) \div BLOCK_SIZE + 1
      grows == required > node.quant
      at == IF grows THEN FreeRun(f, required) ELSE node.first
      q == IF grows THEN required ELSE node.quant
      g == free_used_blocks(IF grows THEN TakeBlocks(f, at, q) ELSE f, node.first, node.quant)
  IN  IF at = -1 THEN f
      ELSE [g EXCEPT !.nodes[i] = [node EXCEPT !.first = at, !.quant = q,
                                               !.size = @ + n, !.users = users],
                     !.weak = IF \/ (at .. at + q - 1) \cap Blocks(f, i) # {}
                                 \/ at + q > BITMAP_SIZE
                              THEN @ \cup {i} ELSE @ \ {i}]

search_for_fd(f, fd) ==
  IF fd \in Fd THEN IF f.fd[fd] = 0 THEN -1 ELSE f.fd[fd]
  ELSE IF fd = 0 /\ \E x \in Fd : f.fd[x] = 0 THEN 0 ELSE -1

\* search_for_inode and insert_fd: the descriptor the inode has, else a new one.
\* Inode 0 is found in every free place of the table, as descriptor 0.
open_fd(f, i) ==
  LET same == {x \in Fd : f.fd[x] = i}
      free == {x \in Fd : f.fd[x] = 0}
  IN  IF same # {} THEN [fs |-> f, fd |-> IF i = 0 THEN 0 ELSE Min(same)]
      ELSE IF free = {} THEN [fs |-> f, fd |-> -1]
      ELSE [fs |-> [f EXCEPT !.fd[Min(free)] = i], fd |-> Min(free)]

delete_fd(f, fd) == IF fd \in Fd THEN [f EXCEPT !.fd[fd] = 0] ELSE f

do_creat(f, name) ==
  IF search_directory(f, name, f.current) # -1 THEN [fs |-> f, fd |-> -1]
  ELSE open_fd(insert_file(f, name, f.current), f.inodes)

\* do_open with flags other than 0, the only ones in use.
do_open(f, name) ==
  LET i == search_directory(f, name, f.current)
  IN  IF i = -1 THEN [fs |-> f, fd |-> -1]
      ELSE IF Refused(f, i) THEN [fs |-> f, fd |-> -2]
      ELSE open_fd(f, IF f.nodes[i].id = "LINK" THEN f.nodes[i].link ELSE i)

do_write(f, fd, n) ==
  LET i == search_for_fd(f, fd)
  IN  IF i = -1 THEN f ELSE write_inode(f, i, n, f.nodes[i].users)

write_users(f, fd, users) ==
  LET i == search_for_fd(f, fd)
  IN  IF i = -1 THEN f ELSE write_inode(f, i, USERS_SIZE, users)

-----------------------------------------------------------------------------
(* The initial file system: init_filesystem, with its first user.          *)

EmptyFs ==
  [used |-> 0 .. HEADER_BLOCKS, freeBlocks |-> BITMAP_SIZE,
   inodes |-> 1, nodes |-> [i \in Inode |-> Unknown],
   dirs |-> [i \in Inode |-> [s \in Slot |-> NoEntry]],
   fd |-> [x \in Fd |-> 0], current |-> 1, group |-> ADMIN, weak |-> {}]

init_root == [fs_creat_inode(EmptyFs, "DIRECTORY", BLOCK_SIZE) EXCEPT !.dirs[1] = NewDirectory(1, 1)]

init_filesystem ==
  LET made == insert_directory(insert_directory(init_root, usersName, 1), etcName, 1)
      r == do_creat(made, usersfile)
  IN  delete_fd(write_users(r.fs, r.fd, <<[name |-> <<"chinux">>, group |-> ADMIN]>>), r.fd)

NoFd == -9

Init == fs = init_filesystem /\ usrLoged = FALSE /\ loginFd = NoFd /\ reply = <<>>

\* The blocks and the current directory can still be trusted.
Intact(f) ==
  /\ f.nodes[f.current].id = "DIRECTORY"
  /\ \A i \in Owners(f) : f.nodes[i].first >= HEADER_BLOCKS
  /\ \A i, j \in Owners(f) : i # j => Blocks(f, i) \cap Blocks(f, j) = {}

-----------------------------------------------------------------------------
(* The commands of the shell.                                              *)

\* A command that leaves the file system f.
Leaves(f) == /\ usrLoged /\ Intact(fs)
             /\ fs' = f /\ reply' = <<>> /\ UNCHANGED <<usrLoged, loginFd>>

Room(n) == fs.inodes + n <= MaxInodes

\* The directories in which the components are looked up are directories.
WalksDirectories(path) ==
  \A n \in 0 .. Len(path.parts) - 1 : fs.nodes[Walk(fs, path)[n].at].id = "DIRECTORY"

\* One turn of the loop of makeDir: a component that is missing is made.
MakeOne(name, w) ==
  LET i == search_directory(w.fs, name, w.at)
      g == insert_directory(w.fs, name, w.at)
  IN  IF i # -1 THEN [fs |-> w.fs, at |-> i]
      ELSE [fs |-> g, at |-> search_directory(g, name, w.at)]

\* The loop, after k components.
Made(f, parts) ==
  LET made[k \in 0 .. Len(parts)] ==
        IF k = 0 THEN [fs |-> f, at |-> f.current] ELSE MakeOne(parts[k], made[k - 1])
  IN  made

makeDir(parts) ==
  LET made == Made(fs, parts)
  IN  /\ Room(Len(parts))
      /\ \A k \in 0 .. Len(parts) - 1 :
           made[k].at # -1 /\ made[k].fs.nodes[made[k].at].id = "DIRECTORY"
      /\ Leaves(made[Len(parts)].fs)

touch(name) ==
  LET r == do_creat(fs, name)
  IN  /\ Room(1) /\ usrLoged /\ Intact(fs)
      /\ fs' = r.fs
      /\ reply' = IF r.fd = -1 THEN <<>> ELSE <<fs.inodes, name>>
      /\ UNCHANGED <<usrLoged, loginFd>>

\* writefile, for a file or a link to one.
writefile(name, n) ==
  LET r == do_open(fs, name)
      i == search_for_fd(r.fs, r.fd)
  IN  /\ i # -1 => fs.nodes[i].id \notin {"DIRECTORY", "FIFO"} /\ fs.nodes[i].size + n <= MaxSize
      /\ Leaves(do_write(r.fs, r.fd, n))

cat(name) == Leaves(do_open(fs, name).fs)

\* bytefile: a file of CANT blocks, written one by one.
Written(f, fd) ==
  LET written[k \in 0 .. CANT] ==
        IF k = 0 THEN f ELSE do_write(written[k - 1], fd, BLOCK_SIZE)
  IN  written[CANT]

create_n_bytes(name) ==
  LET r == do_creat(fs, name)
  IN  /\ Room(1) /\ r.fd # -1
      /\ Leaves(delete_fd(Written(r.fs, r.fd), r.fd))

rm(path) == WalksDirectories(path) /\ Leaves(rmDir(fs, path))

cd(path) ==
  LET i == parser_path(fs, path)
      denied == Refused(fs, i) /\ i # 1
  IN  /\ WalksDirectories(path)
      /\ Leaves(IF i = -1 THEN fs
                ELSE IF denied \/ fs.nodes[i].id = "FILE" THEN fs
                ELSE [fs EXCEPT !.current = i])

\* ln: a new file that copy_link_inode turns into a link; when the second path
\* names a directory the change is not written back.
links(path1, dir, name) ==
  LET i == parser_path(fs, path1)
      d == IF dir = <<>> THEN fs.current ELSE parser_path(fs, [root |-> FALSE, parts |-> <<dir>>])
      f == insert_file(fs, name, d)
  IN  /\ Room(1) /\ WalksDirectories(path1)
      /\ i # -1 /\ d # -1
      /\ fs.nodes[d].id = "DIRECTORY" /\ search_directory(fs, name, d) = -1
      /\ Leaves(IF dir # <<>> THEN f
                ELSE [f EXCEPT !.nodes[fs.inodes].id = "LINK", !.nodes[fs.inodes].link = i])

\* The files of mkfifo_in_kernel and rmfifo_in_kernel.
mkfifo == Room(2) /\ Leaves(insert_fifo(insert_fifo(fs, fifoa), fifob))

Here(name) == [root |-> FALSE, parts |-> <<name>>]

rmfifo == Leaves(rmDir(rmDir(fs, Here(fifoa)), Here(fifob)))

\* createusr, by an administrator: the name still ends in the blank of the command
\* line when it is compared.  The file of users is removed and written anew.
createusr(name, group) ==
  LET r == do_open([fs EXCEPT !.current = 1], usersfile)
      usr == fs.nodes[search_for_fd(r.fs, r.fd)].users
      exists == \E k \in 1 .. Len(usr) : usr[k].name = <<name, " ">>
      removed == rmDir(delete_fd(r.fs, r.fd), Here(usersfile))
      c == do_creat(removed, usersfile)
      new == Append(usr, [name |-> <<name>>, group |-> group])
      written == delete_fd(write_users(c.fs, c.fd, new), c.fd)
  IN  /\ Room(1) /\ fs.group = ADMIN
      /\ r.fd \in Fd
      /\ Leaves(IF exists \/ Len(usr) = MAX_USERS THEN r.fs
                ELSE [written EXCEPT !.current = fs.current])

-----------------------------------------------------------------------------
(* Login.                                                                  *)

\* logUser opens the file of users, as an administrator in the root...
log_opens ==
  LET r == do_open([fs EXCEPT !.current = 1, !.group = ADMIN], usersfile)
  IN  /\ ~usrLoged /\ loginFd = NoFd /\ Intact(fs)
      /\ fs' = r.fs /\ loginFd' = r.fd
      /\ reply' = <<>> /\ UNCHANGED usrLoged

\* ... and closes it when a user of the list has typed his name and password.
log_in ==
  LET i == search_for_fd(fs, loginFd)
  IN  /\ ~usrLoged /\ loginFd # NoFd /\ i # -1
      /\ \E k \in 1 .. Len(fs.nodes[i].users) :
           fs' = [delete_fd(fs, loginFd) EXCEPT !.group = fs.nodes[i].users[k].group]
      /\ usrLoged' = TRUE /\ loginFd' = NoFd
      /\ UNCHANGED reply

logout ==
  /\ usrLoged /\ usrLoged' = FALSE
  /\ reply' = <<>> /\ UNCHANGED <<fs, loginFd>>

FileCommand ==
  \/ \E n \in Name : \/ touch(n) \/ cat(n) \/ create_n_bytes(n) \/ rm(Here(n))
                     \/ \E k \in Lengths : writefile(n, k)
                     \/ \E p \in Path, d \in Name \cup {<<>>} : links(p, d, n)
  \/ mkfifo \/ rmfifo

TreeCommand ==
  \/ \E n \in Name : touch(n) \/ makeDir(<<n>>) \/ (\E m \in Name : makeDir(<<m, n>>))
  \/ \E p \in Path : rm(p) \/ cd(p)

UserCommand ==
  \/ \E u \in UserName, g \in {ADMIN, USR} : createusr(u, g)
  \/ log_opens \/ log_in \/ logout

Next == FileCommand \/ TreeCommand \/ UserCommand

Spec == Init /\ [][Next]_vars

-----------------------------------------------------------------------------
(* Properties.                                                             *)

\* Every block of a file or directory is on the disk and marked as used, and belongs
\* to no other, as long as neither is weak: rewritten in place, so that write_inode
\* freed its blocks while it kept them, or given a run that the end of the disk cuts
\* off (both are the subject of OwnBlocks).  A file that grows takes its new run
\* before it gives its old one back, and the next to look for blocks gets neither
\* (search_free_blocks, write_inode).
BlocksOwned ==
  \A i \in Owners(fs) \ fs.weak :
    /\ Blocks(fs, i) \subseteq fs.used \cap (HEADER_BLOCKS .. BITMAP_SIZE - 1)
    /\ \A j \in Owners(fs) \ (fs.weak \cup {i}) : Blocks(fs, i) \cap Blocks(fs, j) = {}

\* The same of all files and directories that were given blocks: what search_free_blocks
\* gives is on the disk and nobody's, also when a file was rewritten in place before
\* (search_free_blocks, write_inode, free_used_blocks).
OwnBlocks ==
  \A i \in Owners(fs) :
    /\ fs.nodes[i].first # -1 => Blocks(fs, i) \subseteq HEADER_BLOCKS .. BITMAP_SIZE - 1
    /\ \A j \in Owners(fs) \ {i} : Blocks(fs, i) \cap Blocks(fs, j) = {}

\* The type of the entry of an inode: a link is entered as the file it was made of.
EntryType(id) == IF id = "LINK" THEN "FILE" ELSE id

\* The directories are a forest: an entry names an inode that exists and has the
\* type of the entry, no inode has two entries, the inode of an entry is younger than
\* the directory, so that no directory is inside itself, and ".." of a directory is
\* the directory that has its entry (insert_directory, makeDir, copy_link_inode,
\* recursive_remove).
TreeSound ==
  LET Dirs == {i \in Inode : fs.nodes[i].id = "DIRECTORY"}
      entries == {e \in Dirs \X Slot : e[2] >= 2 /\ fs.dirs[e[1]][e[2]].type # "NONE"}
      node(e) == fs.dirs[e[1]][e[2]].inode
  IN  \A e \in entries :
        /\ node(e) \in e[1] + 1 .. fs.inodes - 1
        /\ fs.dirs[e[1]][e[2]].type = EntryType(fs.nodes[node(e)].id)
        /\ fs.nodes[node(e)].id = "DIRECTORY" => fs.dirs[node(e)][1].inode = e[1]
        /\ \A x \in entries : node(x) = node(e) => x = e

\* The entry of a file or directory of the administrators is not changed by what an
\* ordinary user removes: its directory, a directory above it, or the current
\* directory from inside (rmDir, recursive_remove).  Whether the directory that has the
\* entry is still in the tree is the subject of ProtectedReachable.
ProtectedKept ==
  [][usrLoged /\ fs.group = USR =>
       \A d \in Inode, s \in Slot :
         fs.dirs[d][s].type # "NONE" /\ fs.nodes[fs.dirs[d][s].inode].gid = ADMIN
           => fs'.dirs[d][s] = fs.dirs[d][s]]_vars

\* The inodes that are found from the root.
Reachable(f) ==
  LET children(d) == {f.dirs[d][s].inode : s \in InUse(f, {}, d)}
      reach[n \in 0 .. MaxInodes] ==
        IF n = 0 THEN {1} ELSE reach[n - 1] \cup UNION {children(d) : d \in reach[n - 1]}
  IN  reach[MaxInodes]

\* A file or directory of the administrators that is found from the root is still
\* found from it after what an ordinary user does (rmDir, recursive_remove).
ProtectedReachable ==
  [][usrLoged /\ fs.group = USR =>
       \A i \in Reachable(fs) : fs.nodes[i].gid = ADMIN => i \in Reachable(fs')]_vars

\* A file that touch reports as created is found under its name (the message of
\* touch_in_kernel, "File created succesfully").
FoundByName ==
  reply # <<>> => search_directory(fs, reply[2], fs.current) = reply[1]

=============================================================================
