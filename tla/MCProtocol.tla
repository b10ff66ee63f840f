------------------------------ MODULE MCProtocol ------------------------------
(* The small instance of Protocol.tla that TLC explores. *)
EXTENDS Protocol

MCCharacter == {"t", "o", "p", "i", "c", "d", "x", "1", "2"}

\* A topic of one byte, and one that no command has room for.
MCTopic == { Text(<<"t">>), Text(<<"t", "o", "p", "i", "c", "t", "o", "p", "i", "c">>) }
MCChannel == { Text(<<"c">>) }
MCId == { Text(<<"i", "d">>) }

\* Nothing, and bytes that are separators elsewhere, enough of them for two
\* such commands to exceed what command_buf starts with.
MCBody == { << >>, Text(<<"x", "space", "newline", "x">>) }
MCBodies == { << >>, << Text(<<"newline">>), << >> >> }

MCMessage ==
  { [timestamp |-> 13, attempts |-> 1, id |-> Text(<<"i", "1">>), body |-> Text(<<"x", "NUL">>)],
    [timestamp |-> 4, attempts |-> 2, id |-> Text(<<"i", "2">>), body |-> << >>] }
===============================================================================
