------------------------- MODULE RuntimeConfiguration -------------------------
(***************************************************************************)
(* pika::util::runtime_configuration (runtime_configuration.cpp): the      *)
(* configuration entries the runtime reads its thread count and stack      *)
(* sizes from, the four stack sizes it caches when it is constructed or    *)
(* reconfigured, and the os thread count it caches lazily on the first     *)
(* get_os_thread_count() call.                                             *)
(*                                                                         *)
(* Entry texts are sequences of one-character strings.  Only the entries   *)
(* these members read are modelled: hpx.stacks.{small,medium,large,huge}   *)
(* _size and hpx.os_threads.  The ini sections, the other entries and the  *)
(* logging ini are not (no member modelled here reads them).               *)
(***************************************************************************)
EXTENDS Integers, Sequences, FiniteSets

CONSTANTS
  Threads,        \* threads that call get_os_thread_count()
  DefaultText,    \* stack key -> HPX_PP_STRINGIZE(HPX_<KEY>_STACK_SIZE)
  EnvKeys,        \* stack keys whose HPX_<KEY>_STACK_SIZE variable may be set
  EnvTexts,       \* texts those environment variables may hold
  CmdlineDefs,    \* command-line ini definitions: [key, text]
  MaxReconfigures \* bound: reconfigure() calls explored

StackKeys == {"small", "medium", "large", "huge"}
Keys == StackKeys \cup {"os_threads"}

ASSUME EnvKeys \subseteq StackKeys
ASSUME DefaultText \in [StackKeys -> Seq(STRING)]
ASSUME \A d \in CmdlineDefs : d.key \in Keys
ASSUME MaxReconfigures \in Nat

-----------------------------------------------------------------------------
(* std::strtoll(str, &endptr, 0) on the C locale, for texts short enough  *)
(* not to overflow.  Returns the value and the number of characters        *)
(* consumed; 0 consumed means endptr == str (no conversion).              *)

DigitChars == <<"0", "1", "2", "3", "4", "5", "6", "7", "8", "9",
                "a", "b", "c", "d", "e", "f">>

\* the digit's value, or 99 for a character that is no digit in any base
DigitValue(c) ==
  IF \E i \in DOMAIN DigitChars : DigitChars[i] = c
    THEN (CHOOSE i \in DOMAIN DigitChars : DigitChars[i] = c) - 1
    ELSE 99

RECURSIVE SkipSpaces(_, _)
SkipSpaces(s, i) == IF i <= Len(s) /\ s[i] = " " THEN SkipSpaces(s, i + 1) ELSE i

\* the longest run of base-b digits from position i: its value and the
\* position after it
RECURSIVE DigitRun(_, _, _, _)
DigitRun(s, i, b, acc) ==
  IF i <= Len(s) /\ DigitValue(s[i]) < b
    THEN DigitRun(s, i + 1, b, acc * b + DigitValue(s[i]))
    ELSE [val |-> acc, next |-> i]

At(s, i, c) == i <= Len(s) /\ s[i] = c

StrToLL(s) ==
  LET i0    == SkipSpaces(s, 1)
      i1    == IF At(s, i0, "-") \/ At(s, i0, "+") THEN i0 + 1 ELSE i0
      \* "0x" counts as a prefix only when a hex digit follows it
      hex   == At(s, i1, "0") /\ (At(s, i1 + 1, "x") \/ At(s, i1 + 1, "X"))
                 /\ i1 + 2 <= Len(s) /\ DigitValue(s[i1 + 2]) < 16
      base  == IF hex THEN 16 ELSE IF At(s, i1, "0") THEN 8 ELSE 10
      start == IF hex THEN i1 + 2 ELSE i1
      r     == DigitRun(s, start, base, 0)
  IN  IF r.next = start THEN [val |-> 0, end |-> 0]
      ELSE [val |-> IF At(s, i0, "-") THEN -r.val ELSE r.val, end |-> r.next - 1]

\* the value of the compile-time default of a stack key
DefaultValue(k) == StrToLL(DefaultText[k]).val

\* hpx::util::get_entry_as<std::uint32_t>(sec, key, default) (ini module,
\* not in this repository): the entry's value when the whole text is a
\* decimal number, otherwise the default.
GetEntryAsUInt32(text, default) ==
  IF text # <<>> /\ \A i \in DOMAIN text : DigitValue(text[i]) < 10
    THEN DigitRun(text, 1, 10, 0).val
    ELSE default

\* init_stack_size(entryname, defaultvaluestr, defaultvalue): strtoll of the
\* entry, the default when nothing was converted.  hpx.stacks always exists
\* once pre_initialize_ini has run, so the section-missing branch is dead.
InitStackSize(k, text) ==
  LET r == StrToLL(text) IN IF r.end # 0 THEN r.val ELSE DefaultValue(k)

\* init_{small,medium,large,huge}_stack_size() on the current entries
ReadStackSizes(e) == [k \in StackKeys |-> InitStackSize(k, e[k])]

\* the entry pre_initialize_ini writes for hpx.os_threads
Cores == <<"c", "o", "r", "e", "s">>

\* pre_initialize_ini(): the "<static defaults>" entries of Keys, with
\* ${HPX_<KEY>_STACK_SIZE:default} expanded from env (a variable left
\* unset expands to the default text)
StaticDefaults(env) ==
  [k \in Keys |-> CASE k = "os_threads" -> Cores
                   [] k \in EnvKeys     -> env[k]
                   [] OTHER            -> DefaultText[k]]

\* post_initialize_ini: the command-line definitions replace the entries
\* (the ini file, hpx_ini_file, is not modelled: it is empty here)
ApplyDefs(e, defs) ==
  [k \in Keys |-> IF \E d \in defs : d.key = k
                    THEN (CHOOSE d \in defs : d.key = k).text
                    ELSE e[k]]

NoRet == [val |-> -1, want |-> -1]

\* threads::thread_stacksize enumerators get_stack_size() distinguishes
StackSizeArgs == StackKeys \cup {"nostack", "current"}

VARIABLES
  entries,        \* the ini entries of Keys
  stacksize,      \* small_stacksize .. huge_stacksize
  numOsThreads,   \* num_os_threads (mutable std::uint32_t, not atomic)
  needPre,        \* need_to_call_pre_initialize
  cmdlineDefs,    \* cmdline_ini_defs
  reconfigs,      \* reconfigure() calls so far
  aborted,        \* an HPX_ASSERT failed (debug build): the program stopped
  pc,             \* thread -> "idle" | "fill" | "ret" in get_os_thread_count
  osRet,          \* thread -> [val: last returned count, want: the entry's value then]
  stackRet        \* the last value get_stack_size returned: [max, val], max
                  \* for std::numeric_limits<std::ptrdiff_t>::max()

vars == <<entries, stacksize, numOsThreads, needPre, cmdlineDefs, reconfigs,
          aborted, pc, osRet, stackRet>>

(* runtime_configuration(argv0, mode, extra_static_ini_defs): member       *)
(* initialisers, pre_initialize_ini() (the static defaults; a stack entry  *)
(* ${HPX_<KEY>_STACK_SIZE:default} expands to the variable's text, or to    *)
(* the default text when it is unset), then the asserted stack sizes.      *)
Init ==
  /\ \E env \in [EnvKeys -> EnvTexts \cup {DefaultText[k] : k \in EnvKeys}] :
       entries = StaticDefaults(env)
  /\ numOsThreads = 0
  /\ needPre = FALSE
  /\ cmdlineDefs = {}
  /\ reconfigs = 0
  /\ LET new == ReadStackSizes(entries)
         defaults == [k \in StackKeys |-> DefaultValue(k)]
     IN  CASE new["small"] < DefaultValue("small") ->
                /\ aborted = TRUE /\ stacksize = defaults
           [] new["huge"] > DefaultValue("huge") ->
                /\ aborted = TRUE
                /\ stacksize = [new EXCEPT !["huge"] = DefaultValue("huge")]
           [] OTHER -> aborted = FALSE /\ stacksize = new
  /\ pc = [t \in Threads |-> "idle"]
  /\ osRet = [t \in Threads |-> NoRet]
  /\ stackRet = [max |-> FALSE, val |-> 0]

(* reconfigure(): pre_initialize_ini() (a no-op on these entries: it never *)
(* replaces an entry, and it only runs when the flag is set),             *)
(* post_initialize_ini() (the command line replaces entries, the flag is   *)
(* set), the small-size assertion, then all four sizes re-read.  The       *)
(* huge-size assertion of the constructor is missing, and num_os_threads   *)
(* is left as it was.                                                      *)
Reconfigure(defs) ==
  /\ ~aborted /\ reconfigs < MaxReconfigures
  /\ entries' = ApplyDefs(entries, defs)
  /\ needPre' = TRUE
  /\ reconfigs' = reconfigs + 1
  /\ IF InitStackSize("small", entries'["small"]) < DefaultValue("small")
       THEN aborted' = TRUE /\ UNCHANGED stacksize
       ELSE aborted' = FALSE /\ stacksize' = ReadStackSizes(entries')
  /\ UNCHANGED <<numOsThreads, pc, osRet, stackRet>>

(* reconfigure(std::vector<std::string> const& cmdline_ini_defs_) *)
ReconfigureCmdline(d) ==
  /\ cmdlineDefs' = {d}
  /\ Reconfigure({d})

(* reconfigure(std::string const& hpx_ini_file_): the stored command-line *)
(* definitions are applied again.                                         *)
ReconfigureIniFile ==
  /\ Reconfigure(cmdlineDefs)
  /\ UNCHANGED cmdlineDefs

(* get_os_thread_count(), first step: the load of num_os_threads.  When it *)
(* is 0 the thread stores 1; the store races unsynchronised loads of other *)
(* threads (a data race on a plain std::uint32_t), and a compiler may also *)
(* drop it as dead, so both outcomes are possible.                         *)
OsCheck(t) ==
  /\ ~aborted /\ pc[t] = "idle"
  /\ IF numOsThreads = 0
       THEN /\ pc' = [pc EXCEPT ![t] = "fill"]
            /\ numOsThreads' \in {1, numOsThreads}
       ELSE /\ pc' = [pc EXCEPT ![t] = "ret"]
            /\ UNCHANGED numOsThreads
  /\ UNCHANGED <<entries, stacksize, needPre, cmdlineDefs, reconfigs, aborted,
                 osRet, stackRet>>

(* the store of get_entry_as<std::uint32_t>(hpx, "os_threads", 1) *)
OsFill(t) ==
  /\ ~aborted /\ pc[t] = "fill"
  /\ numOsThreads' = GetEntryAsUInt32(entries["os_threads"], 1)
  /\ pc' = [pc EXCEPT ![t] = "ret"]
  /\ UNCHANGED <<entries, stacksize, needPre, cmdlineDefs, reconfigs, aborted,
                 osRet, stackRet>>

(* `return num_os_threads;`: a second load.  `want` records the count the  *)
(* current entry gives, for the property below.                           *)
OsReturn(t) ==
  /\ ~aborted /\ pc[t] = "ret"
  /\ osRet' = [osRet EXCEPT ![t] =
                 [val |-> numOsThreads,
                  want |-> GetEntryAsUInt32(entries["os_threads"], 1)]]
  /\ pc' = [pc EXCEPT ![t] = "idle"]
  /\ UNCHANGED <<entries, stacksize, numOsThreads, needPre, cmdlineDefs,
                 reconfigs, aborted, stackRet>>

(* get_stack_size(stacksize): the cached size of the kind; nostack gives  *)
(* the largest ptrdiff_t; any other kind falls to small.                  *)
GetStackSize(a) ==
  /\ ~aborted
  /\ stackRet' = CASE a \in {"medium", "large", "huge"} -> [max |-> FALSE, val |-> stacksize[a]]
                   [] a = "nostack"                   -> [max |-> TRUE, val |-> 0]
                   [] OTHER                           -> [max |-> FALSE, val |-> stacksize["small"]]
  /\ UNCHANGED <<entries, stacksize, numOsThreads, needPre, cmdlineDefs,
                 reconfigs, aborted, pc, osRet>>

(* get_default_stack_size() (runtime_configuration.hpp): small_stacksize *)
GetDefaultStackSize ==
  /\ ~aborted
  /\ stackRet' = [max |-> FALSE, val |-> stacksize["small"]]
  /\ UNCHANGED <<entries, stacksize, numOsThreads, needPre, cmdlineDefs,
                 reconfigs, aborted, pc, osRet>>

Next ==
  \/ \E d \in CmdlineDefs : ReconfigureCmdline(d)
  \/ ReconfigureIniFile
  \/ \E t \in Threads : OsCheck(t) \/ OsFill(t) \/ OsReturn(t)
  \/ \E a \in StackSizeArgs : GetStackSize(a)
  \/ GetDefaultStackSize

Spec == Init /\ [][Next]_vars

-----------------------------------------------------------------------------

(* get_os_thread_count() returns the count the hpx.os_threads entry gives *)
(* at the time it returns, whichever threads call it and whenever the     *)
(* entries were reconfigured.                                              *)
OsThreadCountCurrent ==
  \A t \in Threads : osRet[t] # NoRet => osRet[t].val = osRet[t].want

=============================================================================
