--------------------------- MODULE LaunchCommand ---------------------------
(***************************************************************************)
(* Node::_createLaunchCommand and Node::_createRemoteCommand              *)
(* (src/net/node.cpp): the launch template of a connection description   *)
(* is copied with every "%c" replaced by the remote command and every     *)
(* "%h" by the host name; an unknown token is dropped with a warning, and *)
(* the remote command is appended after a blank when no "%c" occurred.   *)
(*                                                                         *)
(* Each step is one pass of the for loop over the positions of '%', then *)
(* the copy of the tail.  Positions are 0-based as in std::string, and    *)
(* the std::string semantics the loop relies on are kept: operator[] at   *)
(* size() yields '\0'; substr(pos, n) throws std::out_of_range when pos   *)
(* exceeds size() and otherwise clamps n; a length computed as the size_t *)
(* difference percentPos - lastPos wraps to a value above any size when   *)
(* lastPos is the larger.  The remote command and the host name are       *)
(* single opaque tokens.                                                   *)
(***************************************************************************)
EXTENDS Integers, Sequences, SequencesExt

CONSTANTS Chars,    \* the characters of a template, "%" among them
          NUL,      \* launchCommand[size()]
          REMOTE,   \* the text _createRemoteCommand formats
          HOST,     \* description->hostname
          MaxLen    \* bound on the length of a template

ASSUME "%" \in Chars /\ NUL \notin Chars

VARIABLES launchCommand,  \* description->launchCommand
          listening,      \* the local node's listener is LISTENING
          result, lastPos, percentPos, commandFound,
          pc              \* "loop", "done" or "thrown"

vars == <<launchCommand, listening, result, lastPos, percentPos,
          commandFound, pc>>

NPOS == -1

(* std::string::find( '%', from ). *)
Find(t, from) ==
  LET at == {i \in from..(Len(t) - 1) : t[i + 1] = "%"}
  IN  IF at = {} THEN NPOS ELSE Min(at)

(* const std::string::operator[]: the character at i, '\0' at size(). *)
At(t, i) == IF i < Len(t) THEN t[i + 1] ELSE NUL

(* The size_t length percentPos - lastPos: when lastPos is larger it     *)
(* wraps past every string size, so substr copies to the end.            *)
Count(from, to) == IF to >= from THEN to - from ELSE MaxLen + 1

(* std::string::substr( pos, n ) for pos <= size(). *)
Substr(t, pos, n) ==
  SubSeq(t, pos + 1, IF pos + n > Len(t) THEN Len(t) ELSE pos + n)

(* _createRemoteCommand: "" when the local node does not listen, else    *)
(* the formatted command line.                                            *)
RemoteCommand == IF listening THEN <<REMOTE>> ELSE <<>>

(* The replacement switch on the character after '%'. *)
Replacement(ch) ==
  CASE ch = "c" -> RemoteCommand
    [] ch = "h" -> <<HOST>>
    [] OTHER    -> <<>>

(* An empty template is returned at once; otherwise the loop starts at   *)
(* the first '%'.                                                         *)
Init ==
  /\ launchCommand \in SeqOf(Chars, MaxLen)
  /\ listening \in BOOLEAN
  /\ result = <<>>
  /\ lastPos = 0
  /\ percentPos = Find(launchCommand, 0)
  /\ commandFound = FALSE
  /\ pc = IF launchCommand = <<>> THEN "done" ELSE "loop"

(* One pass of the loop: the text before the '%' and the replacement are *)
(* appended (both branches of "if( replacement.size() > 0 )" append the  *)
(* same text), lastPos skips the two-character token, and the next '%'   *)
(* is searched from percentPos+1.                                         *)
Iterate ==
  LET t  == launchCommand
      ch == At(t, percentPos + 1)
  IN  /\ pc = "loop"
      /\ percentPos # NPOS
      /\ result' = result \o Substr(t, lastPos, Count(lastPos, percentPos))
                          \o Replacement(ch)
      /\ commandFound' = (commandFound \/ ch = "c")
      /\ lastPos' = percentPos + 2
      /\ percentPos' = Find(t, percentPos + 1)
      /\ UNCHANGED <<launchCommand, listening, pc>>

(* After the loop: the tail from lastPos, which throws when lastPos is   *)
(* past the end, then the remote command if no "%c" was found.            *)
Finish ==
  LET t == launchCommand IN
  /\ pc = "loop"
  /\ percentPos = NPOS
  /\ IF lastPos > Len(t)
       THEN /\ pc' = "thrown"
            /\ UNCHANGED result
       ELSE /\ pc' = "done"
            /\ result' = result \o Substr(t, lastPos, Len(t) - lastPos)
                         \o (IF commandFound THEN <<>>
                             ELSE <<" ">> \o RemoteCommand)
  /\ UNCHANGED <<launchCommand, listening, lastPos, percentPos, commandFound>>

Next == Iterate \/ Finish

Spec == Init /\ [][Next]_vars

-----------------------------------------------------------------------------
(* Reference: the template read left to right as plain characters and    *)
(* two-character tokens "%x"; a lone '%' at the end is an unknown token.  *)
RECURSIVE Expand(_)
Expand(t) ==
  IF t = <<>> THEN <<>>
  ELSE IF Head(t) # "%" THEN <<Head(t)>> \o Expand(Tail(t))
  ELSE IF Len(t) = 1 THEN <<>>
  ELSE Replacement(t[2]) \o Expand(Tail(Tail(t)))

RECURSIVE HasCommandToken(_)
HasCommandToken(t) ==
  IF Len(t) < 2 THEN FALSE
  ELSE IF Head(t) # "%" THEN HasCommandToken(Tail(t))
  ELSE t[2] = "c" \/ HasCommandToken(Tail(Tail(t)))

RefLaunchCommand(t) ==
  IF t = <<>> THEN <<>>
  ELSE Expand(t) \o (IF HasCommandToken(t) THEN <<>>
                     ELSE <<" ">> \o RemoteCommand)

(* _createLaunchCommand returns, without throwing, the template with its *)
(* tokens replaced one by one, for every template the configuration may  *)
(* give: _launch runs that string after it has registered its request.   *)
LaunchCommandExpanded ==
  pc \in {"done", "thrown"} =>
    /\ pc = "done"
    /\ result = RefLaunchCommand(launchCommand)
=============================================================================
