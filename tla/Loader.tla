------------------------------- MODULE Loader -------------------------------
(***************************************************************************)
(* What load of prj4's userprog/process.c puts into the memory of a new    *)
(* process: the segments of the executable, and the stack page with the    *)
(* arguments.  It is a computation without interleavings, checked for      *)
(* every program header and every command line of small words and pages.   *)
(*                                                                         *)
(* Addresses and sizes are words of WordBits bits and wrap.  The byte at   *)
(* offset k of the executable is k + 1, so that no two are equal and none  *)
(* is zero.  A page of memory is always found.                             *)
(***************************************************************************)
EXTENDS Integers, SequencesExt, FiniteSets

CONSTANTS
  KeySet, MaxLen, W,  \* of Algorithms: characters; 0 is the space, 1 the slash
  WordBits,  \* bits of an address
  PgSize,    \* bytes of a page; divides 2^WordBits and PhysBase
  PhysBase,  \* the first address of the kernel
  FileLen,   \* bytes of the executable
  NameMax,   \* characters of the longest file name
  StackSizes \* bytes of the stack page in the models of the command line

Words == 2 ^ WordBits

LoaderAssumption ==
  /\ {WordBits, PgSize, FileLen, NameMax} \subseteq Nat /\ PgSize > 0
  /\ Words % PgSize = 0 /\ PhysBase % PgSize = 0
  /\ PhysBase \in (2 * PgSize)..(Words - 1)
  /\ StackSizes \subseteq {4 * k : k \in 1..100}

VARIABLES
  phdrs,     \* the program headers
  cmdLine,   \* the command line
  stackSize  \* bytes of the page that the command line is put on

loaderVars == <<phdrs, cmdLine, stackSize>>

Strings == INSTANCE Algorithms WITH keys <- cmdLine, n <- 0, d <- 1

Word == 0..(Words - 1)
Headers == [type : {"load"}, offset : Word, vaddr : Word, filesz : Word, memsz : Word]

\* Headers that come in pairs.
FewHeaders ==
  {h \in [type : {"load", "ignored", "refused"}, offset : Word, vaddr : Word,
          filesz : {1, PgSize}, memsz : {PgSize, PgSize + 1}] :
     h.vaddr \in PgSize..PhysBase /\ h.offset = h.vaddr % PgSize}

\* The inputs: one header, or two; or a command line and the size of a page.
Init ==
  \/ /\ phdrs \in {<<h>> : h \in Headers} \cup (FewHeaders \X FewHeaders)
     /\ cmdLine = <<>> /\ stackSize \in StackSizes /\ \A s \in StackSizes : stackSize >= s
  \/ phdrs = <<>> /\ cmdLine \in Strings!Inputs /\ stackSize \in StackSizes

Spec == Init /\ [][FALSE]_loaderVars
----------------------------------------------------------------------------
Wrap(x) == x % Words
PgOfs(a) == a % PgSize
PgRoundDown(a) == a - (a % PgSize)

\* ROUND_UP: the sum wraps before the division.
RoundUp(x, step) == (Wrap(x + step - 1) \div step) * step

IsUserVaddr(a) == a < PhysBase

\* validate_segment.
ValidSegment(h) ==
  /\ PgOfs(h.offset) = PgOfs(h.vaddr)
  /\ h.offset <= FileLen
  /\ h.memsz >= h.filesz
  /\ h.memsz # 0
  /\ IsUserVaddr(h.vaddr)
  /\ IsUserVaddr(Wrap(h.vaddr + h.memsz))
  /\ Wrap(h.vaddr + h.memsz) >= h.vaddr
  /\ h.vaddr >= PgSize

\* The byte that file_read finds at pos, in a file that is long enough.
FileByte(pos) == pos + 1

\* install_page: the page at upage gets the bytes, if it has none.
Installed(mem, upage, bytes) ==
  [a \in DOMAIN mem \cup upage..(upage + PgSize - 1) |->
     IF a \in DOMAIN mem THEN mem[a] ELSE bytes[a - upage]]

\* The loop of load_segment, from a state with what is left to read and to
\* zero, the next page, the file position and the memory: the memory in the
\* end, or "fail".
RECURSIVE LoadPages(_)
LoadPages(s) ==
  LET pageRead == IF s.read < PgSize THEN s.read ELSE PgSize
      pageZero == PgSize - pageRead
      bytes == [i \in 0..(PgSize - 1) |-> IF i < pageRead THEN FileByte(s.pos + i) ELSE 0]
  IN  IF s.read = 0 /\ s.zero = 0 THEN [result |-> "done", mem |-> s.mem]
      ELSE IF (pageRead > 0 /\ s.pos + pageRead > FileLen) \/ s.upage \in DOMAIN s.mem
      THEN [result |-> "fail", mem |-> s.mem]
      ELSE LoadPages([read |-> Wrap(s.read - pageRead), zero |-> Wrap(s.zero - pageZero),
                      upage |-> s.upage + PgSize, pos |-> s.pos + pageRead,
                      mem |-> Installed(s.mem, s.upage, bytes)])

\* The assertions at the head of load_segment.
LoadSegment(s) ==
  IF Wrap(s.read + s.zero) % PgSize # 0 \/ PgOfs(s.upage) # 0 \/ s.pos % PgSize # 0
  THEN [result |-> "panic", mem |-> s.mem]
  ELSE LoadPages(s)

\* What load makes of a header: where a PT_LOAD segment is read from and to.
LoadHeader(h, mem) ==
  LET pageOffset == PgOfs(h.vaddr)
      end == RoundUp(Wrap(pageOffset + h.memsz), PgSize)
      readBytes == IF h.filesz > 0 THEN Wrap(pageOffset + h.filesz) ELSE 0
  IN  CASE h.type = "ignored" -> [result |-> "done", mem |-> mem]
        [] h.type = "refused" \/ ~ValidSegment(h) -> [result |-> "fail", mem |-> mem]
        [] OTHER -> LoadSegment([read |-> readBytes, zero |-> Wrap(end - readBytes),
                                 upage |-> PgRoundDown(h.vaddr), pos |-> PgRoundDown(h.offset),
                                 mem |-> mem])

\* load: the headers in turn, until one fails; then setup_stack must find
\* the last user page free.
LoadHeaders(hs) ==
  LET r == FoldLeft(LAMBDA s, h : IF s.result # "done" THEN s ELSE LoadHeader(h, s.mem),
                    [result |-> "done", mem |-> <<>>], hs)
  IN  IF r.result = "done" /\ (PhysBase - PgSize) \in DOMAIN r.mem
      THEN [r EXCEPT !.result = "fail"] ELSE r
----------------------------------------------------------------------------
Nul == -1       \* the character that ends a string; a byte that is zero
Upage == 1000   \* the user address of the stack page
Filler == -2    \* a byte of a word, after the first, which stands for all

\* push: size bytes, padded in front to a word.  A state has ofs, mem and ok,
\* which is FALSE once something did not fit.
Push(s, buf) ==
  LET padsize == ((Len(buf) + 3) \div 4) * 4
      at == s.ofs - Len(buf)
  IN  IF ~s.ok \/ s.ofs < padsize THEN [s EXCEPT !.ok = FALSE]
      ELSE [s EXCEPT !.ofs = s.ofs - padsize,
                     !.mem = [a \in DOMAIN s.mem |-> IF a \in at..(s.ofs - 1)
                                                     THEN buf[a - at + 1] ELSE s.mem[a]]]

PushWord(s, v) == Push(s, <<v, Filler, Filler, Filler>>)

\* reverse.
Reversed(mem, ofs, argc) ==
  FoldLeft(LAMBDA m, k : [m EXCEPT ![ofs + 4 * (k - 1)] = m[ofs + 4 * (argc - k)],
                                   ![ofs + 4 * (argc - k)] = m[ofs + 4 * (k - 1)]],
           mem, [k \in 1..(argc \div 2) |-> k])

\* load skips the spaces in front.
Stripped(cmd) ==
  LET words == {i \in DOMAIN cmd : cmd[i] # 0}
  IN  IF words = {} THEN <<>>
      ELSE SubSeq(cmd, CHOOSE i \in words : \A j \in words : i <= j, Len(cmd))

\* load: the file name is what strlcpy has copied, up to the first space.
FileName(cmd) ==
  LET s == Stripped(cmd)
      copied == IF Len(s) <= NameMax + 1 THEN s ELSE SubSeq(s, 1, NameMax + 1)
      spaces == {i \in DOMAIN copied : copied[i] = 0}
  IN  IF spaces = {} THEN copied
      ELSE SubSeq(copied, 1, (CHOOSE i \in spaces : \A j \in spaces : i <= j) - 1)

\* init_cmd_line, on a page of the given size full of zeros.  strtok_r ends
\* each token in place.
InitCmdLine(cmd, size) ==
  LET empty == [ok |-> TRUE, ofs |-> size, mem |-> [a \in 0..(size - 1) |-> Nul]]
      copied == Push(empty, Append(cmd, Nul))
      copy == size - Len(cmd) - 1
      pushed == PushWord(copied, 0)
      tokens == Strings!Tokens(cmd, 1)
      argc == Len(tokens)
      pushArg(s, t) ==
        PushWord([s EXCEPT !.mem = [@ EXCEPT ![copy + t[2] - 1] = Nul]], Upage + copy + t[1] - 1)
      args == FoldLeft(pushArg, pushed, tokens)
      argv == [args EXCEPT !.mem = Reversed(@, args.ofs, argc)]
  IN  IF ~args.ok THEN args
      ELSE PushWord(PushWord(PushWord(argv, Upage + args.ofs), argc), 0)
----------------------------------------------------------------------------
\* The segment that a header describes, in unbounded arithmetic: it lies
\* between the first page and the kernel, and the file has its bytes.
Sound(h) ==
  /\ PgOfs(h.offset) = PgOfs(h.vaddr)
  /\ h.memsz > 0 /\ h.filesz <= h.memsz
  /\ h.vaddr >= PgSize /\ h.vaddr + h.memsz < PhysBase
  /\ h.offset + h.filesz <= FileLen

Pages(h) == {PgRoundDown(a) : a \in h.vaddr..(h.vaddr + h.memsz - 1)}

\* validate_segment, the arithmetic of load and load_segment: a program is
\* loaded exactly if its segments are sound and on pages of their own, the
\* stack's excluded; then
\* the memory has the bytes of the file and zeros where the headers want
\* them, also where sizes and addresses wrap, nothing else is mapped, no
\* byte is what the frame held before, and no assertion fails.
SegmentsRight ==
  LET r == LoadHeaders(phdrs)
      loaded == {i \in DOMAIN phdrs : phdrs[i].type = "load"}
  IN  /\ r.result # "panic"
      /\ (r.result = "done") <=>
           /\ \A i \in DOMAIN phdrs : phdrs[i].type # "refused"
           /\ \A i \in loaded : Sound(phdrs[i])
           /\ \A i \in loaded : (PhysBase - PgSize) \notin Pages(phdrs[i])
           /\ \A i, j \in loaded : i # j => Pages(phdrs[i]) \cap Pages(phdrs[j]) = {}
      /\ r.result = "done" =>
           /\ {PgRoundDown(a) : a \in DOMAIN r.mem} = UNION {Pages(phdrs[i]) : i \in loaded}
           /\ \A i \in loaded : LET h == phdrs[i] IN
                \A a \in h.vaddr..(h.vaddr + h.memsz - 1) :
                  r.mem[a] = IF a < h.vaddr + h.filesz THEN FileByte(h.offset + a - h.vaddr) ELSE 0
           /\ \A a \in DOMAIN r.mem : r.mem[a] \in {0} \cup {FileByte(k) : k \in 0..(FileLen - 1)}

\* What a program finds at a user address of its stack page.
At(r, addr) == r.mem[addr - Upage]
StringAt(r, addr, s) ==
  /\ \A i \in 1..Len(s) : At(r, addr + i - 1) = s[i]
  /\ At(r, addr + Len(s)) = Nul

\* init_cmd_line, push and reverse: main finds the words of the command line
\* in order behind argv, a null pointer behind them and their number in
\* argc, on an aligned stack; a line that does not fit is refused.
StackRight ==
  LET cmd == Stripped(cmdLine)
      words == Strings!Tokens(cmd, 1)
      r == InitCmdLine(cmd, stackSize)
      argv == At(r, Upage + r.ofs + 8)
  IN  /\ r.ok <=> ((Len(cmd) + 4) \div 4) * 4 + 4 * Len(words) + 16 <= stackSize
      /\ r.ok =>
           /\ r.ofs % 4 = 0
           /\ At(r, Upage + r.ofs + 4) = Len(words)
           /\ \A i \in 1..Len(words) :
                StringAt(r, At(r, argv + 4 * (i - 1)), SubSeq(cmd, words[i][1], words[i][2] - 1))
           /\ At(r, argv + 4 * Len(words)) = 0

\* load opens the file that the first word of the command line names, also
\* if this is a path, as long as its components have the length of names.
NameOpened ==
  LET words == Strings!Tokens(cmdLine, 1)
      name == SubSeq(cmdLine, words[1][1], words[1][2] - 1)
      slashes == {0, Len(name) + 1} \cup {i \in DOMAIN name : name[i] = 1}
      legal == \A i, j \in slashes :
                 i < j /\ (\A k \in slashes : k <= i \/ k >= j) => (j - i) \in 2..(NameMax + 1)
  IN  words # <<>> /\ legal => FileName(cmdLine) = name
=============================================================================
