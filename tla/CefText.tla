------------------------------ MODULE CefText ------------------------------
(***************************************************************************)
(* The text of a CEF event (parser/cef.go) and what srslog's write makes   *)
(* of it with the program's formatter.  A text is a sequence of tokens: a  *)
(* time stamp, the header "CEF", a key of the extension, and the few       *)
(* characters that the code or a receiver treats differently.  A value of  *)
(* an event may hold any of them.                                          *)
(***************************************************************************)
EXTENDS Integers, SequencesExt

Keys   == <<"src", "msg">>   \* in reverse of their order in an event's text
White  == {"space", "newline"}
NoTime == "zero"

\* An event is its time and a value for each key, empty if the key is missing.
EventType == [time : {"time", NoTime}, extension : [ToSet(Keys) -> Seq(STRING)]]

\* sort.Strings of the keys.
SortedKeys == Reverse(Keys)

\* (Mutant: values go out as they are.)
FormatNothing(value) == value

FormatValue(value) ==
    FlattenSeq([i \in DOMAIN value |->
                  IF value[i] = "=" THEN <<"backslash", "=">> ELSE <<value[i]>>])

\* strings.TrimSpace of a text that begins with a key.
TrimSpace(text) == SubSeq(text, 1, SelectLastInSeq(text, LAMBDA t : t \notin White))

ExtensionText(extension) ==
    LET Pair(key) == IF extension[key] = <<>> THEN <<>>
                     ELSE <<key, "=">> \o FormatValue(extension[key]) \o <<"space">>
        pairs == FlattenSeq([i \in DOMAIN SortedKeys |-> Pair(SortedKeys[i])])
    IN  IF pairs = <<>> THEN <<>> ELSE <<"|">> \o TrimSpace(pairs)

SyslogText(event) ==
    (IF event.time = NoTime THEN <<>> ELSE <<event.time, "|">>)
      \o <<"CEF">> \o ExtensionText(event.extension)

\* The part of a text that `.` of the expression ^(.*)\|(CEF.*) can match.
FirstLine(text) ==
    LET end == SelectInSeq(text, LAMBDA t : t = "newline")
    IN  IF end = 0 THEN text ELSE SubSeq(text, 1, end - 1)

\* Where it can match the bar, the last of which it takes.
Bars(line) == {p \in 1..(Len(line) - 1) : line[p] = "|" /\ line[p + 1] = "CEF"}

\* The time stamp moves from before the bar to the front of the message.
CEFSyslogFormatter(hostname, content) ==
    LET line == FirstLine(content)
        bar  == Max(Bars(line))
    IN  IF Bars(line) = {} THEN <<"now", "space", hostname, "space">> \o content
        ELSE SubSeq(line, 1, bar - 1) \o <<"space", hostname, "space">>
               \o SubSeq(line, bar + 1, Len(line))

\* srslog: "ensure it ends in a \n", then format, then frame by doing nothing.
MessageText(hostname, event) ==
    LET msg == SyslogText(event)
    IN  CEFSyslogFormatter(hostname,
            IF Last(msg) = "newline" THEN msg ELSE Append(msg, "newline"))

-----------------------------------------------------------------------------
(* Reference: what a receiver takes from a message.                        *)

\* An equals sign without a backslash comes between a key and its value.
Signs(text) == {p \in DOMAIN text : text[p] = "=" /\ text[p - 1] # "backslash"}

Unescape(text) ==
    FlattenSeq([p \in DOMAIN text |->
                  IF text[p] = "backslash" /\ p < Len(text) /\ text[p + 1] = "="
                    THEN <<>> ELSE <<text[p]>>])

\* A value ends before the space before the next key, or with the message.
ValueAt(text, sign) ==
    LET next == {p \in Signs(text) : p > sign}
        end  == IF next = {} THEN Len(text) ELSE Min(next) - 3
    IN  Unescape(SubSeq(text, sign + 1, end))

\* A message of one line, or the first line of one.
ReadBack(text) ==
    LET line == FirstLine(text)
    IN  [time      |-> line[1],
         extension |-> [key \in ToSet(Keys) |->
                          LET at == {p \in Signs(line) : line[p - 1] = key}
                          IN  IF at = {} THEN <<>> ELSE ValueAt(line, Min(at))]]

\* The values that the code can carry: one line, no bar before a CEF, nothing
\* a trim or an unescaping would change.
Plain(value) ==
    /\ {"newline", "backslash"} \cap ToSet(value) = {} /\ Bars(value) = {}
    /\ value # <<>> => Last(value) # "space"
=============================================================================
