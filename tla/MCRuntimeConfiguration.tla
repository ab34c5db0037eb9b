----------------------- MODULE MCRuntimeConfiguration -----------------------
(* Instances of RuntimeConfiguration for TLC.  The default texts are the  *)
(* stack sizes the build configures (64 KiB, 128 KiB, 2 MiB, 32 MiB).      *)
EXTENDS RuntimeConfiguration

MCDefaultText ==
  [k \in StackKeys |->
     CASE k = "small"  -> <<"0", "x", "1", "0", "0", "0", "0">>
       [] k = "medium" -> <<"0", "x", "2", "0", "0", "0", "0">>
       [] k = "large"  -> <<"0", "x", "2", "0", "0", "0", "0", "0">>
       [] k = "huge"   -> <<"0", "x", "2", "0", "0", "0", "0", "0", "0">>]

\* environment texts: a negative size, and "0x" (only the 0 converts)
MCEnvTexts == {<<"-", "1">>, <<"0", "x">>}

\* --pika:ini definitions: a huge size above the default, an unparsable
\* large size, two thread counts
MCCmdlineDefs ==
  { [key |-> "huge",   text |-> <<"0", "x", "4", "0", "0", "0", "0", "0", "0">>],
    [key |-> "large",  text |-> <<"a">>],
    [key |-> "os_threads", text |-> <<"2">>],
    [key |-> "os_threads", text |-> <<"-", "1">>] }

=============================================================================
