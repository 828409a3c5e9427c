------------------------------- MODULE Helpers -------------------------------
(***************************************************************************)
(* The session helpers, and runPipeline() of process.qjs.ts by which they  *)
(* run other programs. Process 0 is the helper; process i is the i-th      *)
(* program of its pipeline. Pipe 0 carries the input, pipe i what the i-th *)
(* program writes. A pipe holds Capacity bytes, and says that its end is   *)
(* reached only when no process has its write end open.                    *)
(*                                                                         *)
(* The programs are external: what they do is what the helpers rely on.    *)
(***************************************************************************)
EXTENDS Utf8, FiniteSets

CONSTANTS
    Capacity,   \* bytes in a pipe
    History,    \* the clipboard history: entries with an id, a preview and their bytes
    Labels,     \* of PANEL_MENU, as text
    Image       \* what grim captures, in bytes

ASSUME HelpersAssumption ==
    /\ Capacity \in Nat \ {0}
    /\ History \in Seq([id : Seq(Nat), preview : Seq(Nat), bytes : Seq(Nat)])
    /\ Labels \in Seq(Seq(Nat)) /\ Image \in Seq(Nat)

VARIABLES
    helper,     \* the running helper: which, at its first or second pipeline, and where in it
    commands,   \* the programs of the pipeline
    input,      \* bytes that are still to be written to the first one
    children,   \* the programs that have been started
    pipes,      \* the bytes in each pipe
    ends,       \* <<process, pipe, end>>: who has which end open
    got,        \* bytes of the output, as far as they are read
    output,     \* the output of the pipeline as text
    picked,     \* what the user has picked
    effect      \* what the last program has been given, once it has acted on it

vars == <<helper, commands, input, children, pipes, ends, got, output, picked, effect>>

Newline == 10
Tab == 9

Nothing == << >>
Without(process) == {end \in ends : end[1] # process}
Ended == \A i \in DOMAIN children : children[i].phase = "ended"
Final == Len(commands)

\* What the programs say and take.
Line(entry) == entry.id \o <<Tab>> \o entry.preview
Joined(lines) == FlattenSeq([i \in DOMAIN lines |-> Append(lines[i], Newline)])
HistoryList == Joined([i \in DOMAIN History |-> Line(History[i])])
MenuInput == Joined(Labels)
Geometry == <<48, 44, 48, Newline>>

\* The lines of a text, the last one whether or not it is terminated.
Lines(text) ==
    LET Bounds(i) == i \in {0, Len(text) + 1} \/ text[i] = Newline
    IN  {SubSeq(text, b[1] + 1, b[2] - 1) : b \in
            {b \in (0 .. Len(text)) \X (2 .. Len(text) + 1) :
                /\ b[1] + 1 < b[2] /\ Bounds(b[1]) /\ Bounds(b[2])
                /\ \A i \in b[1] + 1 .. b[2] - 1 : ~ Bounds(i)}}

IsText(bytes) == EncodeUtf8(DecodeUtf8(bytes)) = bytes

\* The entries that a line names: cliphist goes by the id before the tab.
Named(line) == {entry \in ToSet(History) : IsPrefix(Append(entry.id, Tab), line)}

Init ==
    /\ helper = [script |-> "none", stage |-> 1, at |-> "off", exit |-> 0]
    /\ commands = << >> /\ input = << >> /\ children = << >>
    /\ pipes = [k \in 0 .. 2 |-> << >>] /\ ends = {}
    /\ got = << >> /\ output = << >> /\ picked = Nothing /\ effect = Nothing

-----------------------------------------------------------------------------
(* runPipeline() *)

\* What a program starts with: list and grim write at once, others first read their input
\* to its end, unless it is given to them.
Program(name, given) ==
    [name |-> name, in |-> given, sent |-> 0, status |-> 0,
     phase |-> CASE name \in {"picker", "decode", "copy", "swappy"} /\ given = << >> -> "reading"
                 [] name = "slurp" -> "asking"
                 [] OTHER -> "writing",
     out |-> CASE name = "list" -> HistoryList
               [] name = "grim" -> Image
               [] OTHER -> << >>]

\* A pipeline of the programs, the first of which gets text or bytes to read, or is given
\* what it needs as its argument or as an open file.
RunPipeline(names, text, given, captures) ==
    /\ commands' = [i \in DOMAIN names |-> [name |-> names[i], given |-> IF i = 1 THEN given ELSE << >>,
                                            piped |-> i < Len(names) \/ captures]]
    /\ input' = EncodeUtf8(text)
    /\ children' = << >> /\ pipes' = [k \in 0 .. 2 |-> << >>]
    /\ ends' = IF text = << >> THEN {} ELSE {<<0, 0, "read">>, <<0, 0, "write">>}
    /\ got' = << >> /\ output' = << >>

\* As runPipeline() without the close of the write end of what it connects.
ExecKeepingEnd ==
    LET i == Len(children) + 1
        passed == {end \in ends : end = <<0, i - 1, "read">>}
    IN  /\ helper.at = "exec"
        /\ children' = Append(children, Program(commands[i].name, commands[i].given))
        /\ ends' = (ends \ passed) \cup {<<i, i - 1, "read">> : end \in passed} \cup
                   (IF commands[i].piped THEN {<<i, i, "write">>, <<0, i, "read">>, <<0, i, "write">>} ELSE {})
        /\ helper' = [helper EXCEPT !.at = IF i = Final THEN "write" ELSE "exec"]
        /\ UNCHANGED <<commands, input, pipes, got, output, picked, effect>>

\* The next program is started with the pipe before it and the one after it; the ends that
\* the helper itself does not need are closed.
Exec ==
    LET i == Len(children) + 1
        passed == {end \in ends : end = <<0, i - 1, "read">>}
    IN  /\ helper.at = "exec"
        /\ children' = Append(children, Program(commands[i].name, commands[i].given))
        /\ ends' = (ends \ passed) \cup {<<i, i - 1, "read">> : end \in passed} \cup
                   (IF commands[i].piped THEN {<<i, i, "write">>, <<0, i, "read">>} ELSE {})
        /\ helper' = [helper EXCEPT !.at = IF i = Final THEN "write" ELSE "exec"]
        /\ UNCHANGED <<commands, input, pipes, got, output, picked, effect>>

\* The helper is gone, with every end it had open.
Leave(code) ==
    /\ helper' = [helper EXCEPT !.at = "off", !.exit = code]
    /\ ends' = Without(0)
    /\ UNCHANGED <<commands, input, children, pipes, got, output, picked, effect>>

\* createPipe() throws, whatever has been started.
PipeFails == helper.at = "exec" /\ commands[Len(children) + 1].piped /\ Leave(1)

\* writeAll()
WriteInput ==
    LET room == Capacity - Len(pipes[0])
        count == IF room < Len(input) THEN room ELSE Len(input)
    IN  /\ helper.at = "write" /\ count > 0
        /\ \E p \in 1 .. 2 : <<p, 0, "read">> \in ends
        /\ pipes' = [pipes EXCEPT ![0] = @ \o SubSeq(input, 1, count)]
        /\ input' = SubSeq(input, count + 1, Len(input))
        /\ UNCHANGED <<helper, commands, children, ends, got, output, picked, effect>>

\* The first program is gone before it has read everything: SIGPIPE kills the helper.
InputBreaks ==
    /\ helper.at = "write" /\ input # << >>
    /\ ~ \E p \in 1 .. 2 : <<p, 0, "read">> \in ends
    /\ Leave(141)

CloseInput ==
    /\ helper.at = "write" /\ input = << >>
    /\ ends' = ends \ {<<0, 0, "write">>}
    /\ helper' = [helper EXCEPT !.at = "read"]
    /\ UNCHANGED <<commands, input, children, pipes, got, output, picked, effect>>

AtEnd(k) == pipes[k] = << >> /\ ~ \E end \in ends : end[2] = k /\ end[3] = "write"

\* As readAll() if it decoded each chunk.
ReadOutputAsText ==
    /\ helper.at = "read" /\ <<0, Final, "read">> \in ends /\ pipes[Final] # << >>
    /\ got' = got \o EncodeUtf8(DecodeUtf8(pipes[Final]))
    /\ pipes' = [pipes EXCEPT ![Final] = << >>]
    /\ UNCHANGED <<helper, commands, input, children, ends, output, picked, effect>>

\* readAll(), one read
ReadOutput ==
    /\ helper.at = "read" /\ <<0, Final, "read">> \in ends /\ pipes[Final] # << >>
    /\ got' = got \o pipes[Final]
    /\ pipes' = [pipes EXCEPT ![Final] = << >>]
    /\ UNCHANGED <<helper, commands, input, children, ends, output, picked, effect>>

\* readAll() reaches the end, or no output is captured.
EndOutput ==
    /\ helper.at = "read"
    /\ <<0, Final, "read">> \in ends => AtEnd(Final)
    /\ output' = DecodeUtf8(got)
    /\ ends' = Without(0)
    /\ helper' = [helper EXCEPT !.at = "wait"]
    /\ UNCHANGED <<commands, input, children, pipes, got, picked, effect>>

\* Every program has been waited for.
Returns(stage) == helper.at = "wait" /\ helper.stage = stage /\ Ended

Status(i) == children[i].status
\* As if the status of the last program stood for all.
LastSucceeded == Status(Len(children)) = 0

AllSucceeded == \A i \in DOMAIN children : Status(i) = 0

-----------------------------------------------------------------------------
(* The programs *)

Becomes(i, child) ==
    /\ children' = [children EXCEPT ![i] = child]
    /\ UNCHANGED <<helper, commands, input, got, output>>

Exits(i, status) ==
    /\ Becomes(i, [children[i] EXCEPT !.phase = "ended", !.status = status])
    /\ ends' = Without(i)

Reads(i) ==
    /\ children[i].phase = "reading" /\ pipes[i - 1] # << >>
    /\ Becomes(i, [children[i] EXCEPT !.in = @ \o pipes[i - 1]])
    /\ pipes' = [pipes EXCEPT ![i - 1] = << >>]
    /\ UNCHANGED <<ends, picked, effect>>

\* The end of the input: the picker shows its lines if they are text, swappy its image,
\* cliphist finds the entry.
HasRead(i) ==
    LET child == children[i]
        entries == Named(child.in)
        bad == \/ child.name = "picker" /\ ~ IsText(child.in)
               \/ child.name = "decode" /\ entries = {}
    IN  /\ child.phase = "reading" /\ AtEnd(i - 1)
        /\ \/ bad /\ Exits(i, 1)
           \/ /\ ~ bad
              /\ Becomes(i, [child EXCEPT
                    !.phase = IF child.name \in {"picker", "swappy"} THEN "asking" ELSE "writing",
                    !.out = IF child.name = "decode" THEN (CHOOSE entry \in entries : TRUE).bytes ELSE << >>])
              /\ UNCHANGED ends
        /\ UNCHANGED <<pipes, picked, effect>>

\* The user picks a line or a region, or is done with the image.
Answer(i) ==
    LET child == children[i]
        answers == CASE child.name = "picker" -> Lines(child.in)
                     [] child.name = "slurp" -> Lines(Geometry)
                     [] child.name = "swappy" -> {<< >>}
    IN  /\ child.phase = "asking"
        /\ \E answer \in answers :
              /\ picked' = IF answer = << >> THEN picked ELSE answer
              /\ Becomes(i, [child EXCEPT !.phase = "writing",
                                           !.out = IF answer = << >> THEN << >> ELSE Append(answer, Newline)])
        /\ UNCHANGED <<pipes, ends, effect>>

Dismiss(i) ==
    /\ children[i].phase = "asking" /\ children[i].name # "swappy"
    /\ Exits(i, 1)
    /\ UNCHANGED <<pipes, picked, effect>>

Readers(k) == {end \in ends : end[2] = k /\ end[3] = "read"}

\* Some of what it has to say: its own buffer decides how much.
Writes(i) ==
    LET child == children[i]
    IN  /\ child.phase = "writing" /\ Readers(i) # {}
        /\ \E sent \in child.sent + 1 .. Len(child.out) :
              LET bytes == SubSeq(child.out, child.sent + 1, sent)
              IN  /\ Len(pipes[i]) + Len(bytes) <= Capacity
                  /\ pipes' = [pipes EXCEPT ![i] = @ \o bytes]
                  /\ Becomes(i, [child EXCEPT !.sent = sent])
        /\ UNCHANGED <<ends, picked, effect>>

\* Nobody reads what it writes any more.
Breaks(i) ==
    /\ children[i].phase = "writing" /\ children[i].sent < Len(children[i].out) /\ Readers(i) = {}
    /\ Exits(i, 141)
    /\ UNCHANGED <<pipes, picked, effect>>

\* The program has written everything; what it does besides is done.
Succeeds(i) ==
    LET child == children[i]
    IN  /\ child.phase = "writing" /\ child.sent = Len(child.out)
        /\ Exits(i, 0)
        /\ effect' = IF child.name \in {"copy", "swappy", "run"} THEN child.in ELSE effect
        /\ UNCHANGED <<pipes, picked>>

\* A program is missing, fails, or is killed, at any point of its work.
Dies(i) ==
    /\ children[i].phase # "ended"
    /\ Exits(i, 127)
    /\ UNCHANGED <<pipes, picked, effect>>

Child(i) == Reads(i) \/ HasRead(i) \/ Writes(i) \/ Breaks(i) \/ Succeeds(i)

-----------------------------------------------------------------------------
(* The helpers: what each does first, and after each of its pipelines has returned *)

Opens(script, names, text, captures) ==
    /\ helper' = [script |-> script, stage |-> 1, at |-> "exec", exit |-> 0]
    /\ picked' = Nothing /\ effect' = Nothing
    /\ RunPipeline(names, text, << >>, captures)

\* A key or a click starts a helper.
Start ==
    /\ helper.at = "off" /\ Ended
    /\ \/ Opens("clipboard", <<"list", "picker">>, << >>, TRUE)
       \/ Opens("panel", <<"picker">>, MenuInput, TRUE)
       \/ Opens("region", <<"slurp">>, << >>, TRUE)
       \/ Opens("screenshot", <<"save">>, << >>, FALSE)

Continue(names, text, given) ==
    /\ helper' = [helper EXCEPT !.stage = 2, !.at = "exec"]
    /\ RunPipeline(names, text, given, FALSE)
    /\ UNCHANGED <<picked, effect>>

\* clipboard-pick.main.ts
ClipboardPick ==
    \/ /\ helper.script = "clipboard" /\ Returns(1)
       /\ IF Status(2) # 0 \/ output = << >> THEN Leave(0)
          ELSE Continue(<<"decode", "copy">>, output, << >>)
    \/ /\ helper.script = "clipboard" /\ Returns(2)
       /\ Leave(IF AllSucceeded THEN 0 ELSE 1)

\* The selection without its newline.
Selection == IF output # << >> /\ output[Len(output)] = Newline THEN Front(output) ELSE output

\* panel-menu.main.ts
PanelMenu ==
    \/ /\ helper.script = "panel" /\ Returns(1)
       /\ CASE Status(1) # 0 -> Leave(0)
            [] Status(1) = 0 /\ Selection \notin ToSet(Labels) -> Leave(1)
            [] OTHER -> Continue(<<"run">>, << >>, Selection)
    \/ helper.script = "panel" /\ Returns(2) /\ Leave(Status(1))

\* screenshot-region.main.ts
ScreenshotRegion ==
    \/ /\ helper.script = "region" /\ Returns(1)
       /\ IF Status(1) # 0 \/ Selection = << >> THEN Leave(0)
          ELSE Continue(<<"grim", "swappy">>, << >>, Selection)
    \/ /\ helper.script = "region" /\ Returns(2)
       /\ Leave(IF AllSucceeded THEN 0 ELSE 1)

\* screenshot.main.ts: the image is saved, opened, and copied from the file.
Screenshot ==
    \/ /\ helper.script = "screenshot" /\ Returns(1)
       /\ IF Status(1) # 0 THEN Leave(1)
          ELSE Leave(1) \/ Continue(<<"copy">>, << >>, Image)
    \/ helper.script = "screenshot" /\ Returns(2) /\ Leave(Status(1))

GoesOn == ClipboardPick \/ PanelMenu \/ ScreenshotRegion \/ Screenshot

RunsPipeline == Exec \/ WriteInput \/ InputBreaks \/ CloseInput \/ ReadOutput \/ EndOutput

Next ==
    \/ Start \/ RunsPipeline \/ PipeFails \/ GoesOn
    \/ \E i \in DOMAIN children : Child(i) \/ Answer(i) \/ Dismiss(i) \/ Dies(i)

\* What a helper that has been started waits for: room for its input, its output, or the
\* end of its programs; and what a program waits for: its input, its user, or room.
HelperCanGoOn ==
    \/ helper.at = "exec"
    \/ helper.at = "write" /\ (input = << >> \/ Len(pipes[0]) < Capacity \/ Readers(0) = {})
    \/ helper.at = "read" /\ (<<0, Final, "read">> \in ends => pipes[Final] # << >> \/ AtEnd(Final))
    \/ helper.at = "wait" /\ Ended

CanGoOn(i) ==
    /\ i \in DOMAIN children
    /\ \/ children[i].phase = "reading" /\ (pipes[i - 1] # << >> \/ AtEnd(i - 1))
       \/ /\ children[i].phase = "writing"
          /\ \/ children[i].sent = Len(children[i].out)
             \/ Len(pipes[i]) < Capacity \/ Readers(i) = {}

\* Who can go on does: weak fairness of the helper once it has started and of each program,
\* none of the user. (What enables their steps is written out, for TLC would decode the
\* output again and again to find out.)
Fairness ==
    /\ []<> ~ HelperCanGoOn \/ []<><<RunsPipeline \/ GoesOn>>_vars
    /\ \A i \in 1 .. 2 : []<> ~ CanGoOn(i) \/ []<><<Child(i)>>_vars

Spec == Init /\ [][Next]_vars /\ Fairness

-----------------------------------------------------------------------------

Asking == \E i \in DOMAIN children : children[i].phase = "asking"

\* A helper that has started ends once the user has answered, whatever its programs do, and
\* however small the pipes are: nobody waits for an end that nobody will close, or for room
\* in a pipe that nobody will read. process.qjs.ts writes all input before it reads, and
\* asks of callers that this be safe.
HelpersEnd == helper.at # "off" ~> helper.at = "off" \/ Asking

\* The text runPipeline() returns is what the last program wrote, however it was cut into
\* reads, and with a character that a dying program left unfinished replaced.
OutputIsWhole ==
    helper.at = "wait" /\ commands[Final].piped =>
        output = ReferenceDecoding(SubSeq(children[Final].out, 1, children[Final].sent))

\* What the helper was asked for, in the form in which the last program is given it.
Wanted ==
    CASE helper.script = "clipboard" -> {entry.bytes : entry \in Named(picked)}
      [] helper.script = "panel" -> {DecodeUtf8(picked)}
      [] OTHER -> {Image}

\* A helper that reports success has done nothing, because nothing was picked or the picker
\* failed, or it has done the whole of what was picked: the clipboard never silently holds
\* part of an entry, another one, or nothing.
CleanExitMeansWhole ==
    helper.at = "off" /\ helper.exit = 0 /\ helper.script # "none" =>
        IF helper.stage = 1 THEN effect = Nothing ELSE effect \in Wanted
=============================================================================
