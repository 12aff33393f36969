------------------------------- MODULE CmdLine -------------------------------
(***************************************************************************)
(* The command lines (startup.cc, koptions.cc): the search for arguments   *)
(* of the boot loader, the memory areas they give, and the options of the  *)
(* kernel.                                                                 *)
(*                                                                         *)
(* A command line is a sequence of words.  A word has at most one of the   *)
(* arguments in it, at its start or further behind, and the number or the  *)
(* memory area that follows the argument.                                  *)
(***************************************************************************)
EXTENDS Integers, SequencesExt, FiniteSetsExt

CONSTANTS
  Words,     \* the command lines
  Kilo,      \* 2^10
  WordMax,   \* ~0UL
  CmdLen     \* sizeof(jdb_cmd)

VARIABLES
  line,   \* the command line
  arg,    \* check_arg(): the argument looked for
  s,      \* check_arg(): the word it has come to
  cpc     \* check_arg(): where it is

cvars == <<line, arg, s, cpc>>

CInit == line \in Words /\ arg = "noserial" /\ s = 1 /\ cpc = "strstr"

-----------------------------------------------------------------------------
(* check_arg() *)

Occurs(a, from) == { i \in DOMAIN line : i >= from /\ line[i].opt = a }

\* strstr()
StrStr(a, from) == LET hit == Occurs(a, from) IN IF hit = {} THEN 0 ELSE Min(hit)

SearchArg ==
  /\ cpc = "strstr"
  /\ IF StrStr(arg, s) = 0 THEN cpc' = "null" /\ UNCHANGED s
                           ELSE cpc' = "test" /\ s' = StrStr(arg, s)
  /\ UNCHANGED <<line, arg>>

\* An occurrence inside a word is not the argument; the search goes on where
\* it has found it.
TestArg ==
  /\ cpc = "test"
  /\ cpc' = IF line[s].start THEN "found" ELSE "strstr"
  /\ UNCHANGED <<line, arg, s>>

\* The next call, on the whole line or behind the argument just found
AskFor(a, from) == arg' = a /\ s' = from /\ cpc' = "strstr" /\ UNCHANGED line

\* The number or the memory area behind the argument found
Value == line[s].val
Layout == line[s].area

-----------------------------------------------------------------------------
(* parse_memvalue() and parse_mem_layout(): the set of results, empty for false *)

Shifted(n, unit) == (n * Kilo^unit) % (WordMax + 1)

MemValue(n, unit) == IF n >= WordMax THEN {} ELSE {Shifted(n, unit)}

\* size@offset up to the end of the word
MemLayout(v) ==
  { [size |-> sz, addr |-> a] :
      sz \in IF v.at /\ v.end THEN MemValue(v.size, v.sunit) \ {0} ELSE {},
      a \in MemValue(v.addr, v.aunit) }

-----------------------------------------------------------------------------
(* kcmdline_parse(): the options of the kernel's own command line *)

Booleans == {"wait", "serial_esc", "nojdb", "esc"}
Numbers == {"kmemsize", "out_buf"}

First(words, o) == Min({ i \in DOMAIN words : words[i].opt = o })
Given(words, o) == \E i \in DOMAIN words : words[i].opt = o

\* A number or a string counts if its first occurrence is a whole option.
Whole(words, o) == Given(words, o) /\ words[First(words, o)].whole

\* The characters of jdb_cmd that are copied; a terminator follows.
Cut(n) == IF n > CmdLen - 1 THEN CmdLen - 1 ELSE n

KernelOptions(words) ==
  [flags  |-> { o \in Booleans : Given(words, o) }
                \cup { o \in Numbers \cup {"jdb_cmd"} : Whole(words, o) },
   number |-> [o \in { n \in Numbers : Whole(words, n) } |-> words[First(words, o)].val],
   jdb    |-> IF Whole(words, "jdb_cmd") THEN Cut(words[First(words, "jdb_cmd")].val) + 1 ELSE 0]

=============================================================================
