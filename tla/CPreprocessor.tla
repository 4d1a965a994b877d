--------------------------- MODULE CPreprocessor ---------------------------
(***************************************************************************)
(* CPreprocessor (src/c2ast/CPreprocessor.cpp): the lines of a header and  *)
(* of the headers it includes, one action per line, conditional groups     *)
(* with the routine that skips to the next directive of a group, and macro *)
(* expansion with hide sets, one action per token.                         *)
(*                                                                         *)
(* scan_macro calls itself for a macro's argument: scan is the stack of    *)
(* these calls, and files the stack of preprocess calls.                   *)
(***************************************************************************)
EXTENDS CLines

VARIABLES prog,       \* prog.headers: name -> lines; prog.unit: what is cincluded, in order
          macros,     \* defined macros, oldest first
          once,       \* once_included
          files,      \* headers being read: file, pc, ifs (ifstack), skip
          scan,       \* expansions under way: todo, done, macro and hide of the call
          why,        \* what the outermost expansion is for: "text", "if" or "export"
          out,        \* text of the current cinclude, expanded
          failed      \* CPreprocessError

pvars == <<prog, macros, once, files, scan, why, out, failed>>

-----------------------------------------------------------------------------

Open(f) == [file |-> f, pc |-> 1, ifs |-> << >>, skip |-> 0]
IfInfo(fulfilled) == [fulfilled |-> fulfilled, isElse |-> FALSE]

Top == files[Len(files)]
Lines == prog.headers[Top.file]
Here == Lines[Top.pc]
LastIf == Top.ifs[Len(Top.ifs)]

Reading == files # << >> /\ scan = << >> /\ ~failed /\ Top.pc \in DOMAIN Lines
At(d) == Reading /\ Top.skip = 0 /\ Here.d = d
Skipped(ds) == Reading /\ Top.skip > 0 /\ Here.d \in ds

\* On to the next line, with these conditional groups open.
NextLine(ifs, skip) ==
  files' = [files EXCEPT ![Len(files)] = [@ EXCEPT !.pc = @ + 1, !.ifs = ifs, !.skip = skip]]
Onward == NextLine(Top.ifs, 0)

Fail == failed' = TRUE /\ UNCHANGED <<prog, macros, once, files, scan, why, out>>

-----------------------------------------------------------------------------
\* Directives that are not conditional.

\* process_define deletes an earlier macro of the name.
Define ==
  /\ At("define")
  /\ macros' = Append(Without(macros, Here.name), Macro(Here))
  /\ Onward
  /\ UNCHANGED <<prog, once, scan, why, out, failed>>

Undef ==
  /\ At("undef")
  /\ macros' = Without(macros, Here.name)
  /\ Onward
  /\ UNCHANGED <<prog, once, scan, why, out, failed>>

PragmaOnce ==
  /\ At("once")
  /\ once' = once \cup {Top.file}
  /\ Onward
  /\ UNCHANGED <<prog, macros, scan, why, out, failed>>

\* A header that said "once" is passed over.
Include ==
  /\ At("include")
  /\ Here.name \in DOMAIN prog.headers
  /\ files' = LET after == [files EXCEPT ![Len(files)].pc = @ + 1]
              IN  IF Here.name \in once THEN after ELSE Append(after, Open(Here.name))
  /\ UNCHANGED <<prog, macros, once, scan, why, out, failed>>

IncludeMissing == At("include") /\ Here.name \notin DOMAIN prog.headers /\ Fail

ErrorDirective == At("error") /\ Fail

EndOfFile ==
  /\ files # << >> /\ scan = << >> /\ ~failed
  /\ Top.pc > Len(Lines)
  /\ files' = SubSeq(files, 1, Len(files) - 1)
  /\ UNCHANGED <<prog, macros, once, scan, why, out, failed>>

-----------------------------------------------------------------------------
\* Conditional groups.

StartScan(toks, for) ==
  /\ scan' = <<[todo |-> toks, done |-> << >>, macro |-> "", hide |-> {}]>>
  /\ why' = for

Ifdef ==
  /\ At("ifdef") \/ At("ifndef")
  /\ LET holds == Defined(macros, Here.name) = (Here.d = "ifdef")
     IN  NextLine(Append(Top.ifs, IfInfo(holds)), IF holds THEN 0 ELSE 1)
  /\ UNCHANGED <<prog, macros, once, scan, why, out, failed>>

If ==
  /\ At("if")
  /\ StartScan(Fresh(Here.toks), "if")
  /\ UNCHANGED <<prog, macros, once, files, out, failed>>

\* process_elif, no group taken yet: the group is popped and opened again as #if.
Elif ==
  /\ At("elif") /\ Top.ifs # << >>
  /\ ~LastIf.fulfilled /\ ~LastIf.isElse
  /\ files' = [files EXCEPT ![Len(files)].ifs = Front(@)]
  /\ StartScan(Fresh(Here.toks), "if")
  /\ UNCHANGED <<prog, macros, once, out, failed>>

ElifPassed ==
  /\ At("elif") /\ Top.ifs # << >>
  /\ LastIf.fulfilled
  /\ NextLine(Top.ifs, 1)
  /\ UNCHANGED <<prog, macros, once, scan, why, out, failed>>

Else ==
  /\ At("else") /\ Top.ifs # << >>
  /\ NextLine(Append(Front(Top.ifs), [fulfilled |-> TRUE, isElse |-> TRUE]),
           IF LastIf.fulfilled THEN 1 ELSE 0)
  /\ UNCHANGED <<prog, macros, once, scan, why, out, failed>>

Endif ==
  /\ At("endif") /\ Top.ifs # << >>
  /\ NextLine(Front(Top.ifs), 0)
  /\ UNCHANGED <<prog, macros, once, scan, why, out, failed>>

StrayDirective == (At("elif") \/ At("else") \/ At("endif")) /\ Top.ifs = << >> /\ Fail

-----------------------------------------------------------------------------
\* skip_to_nextif; skip is the number of its calls under way.

\* Mutation: the inner group still waits for a part to take.
SkipIfWaiting ==
  /\ Skipped({"if", "ifdef", "ifndef"})
  /\ NextLine(Append(Top.ifs, IfInfo(FALSE)), Top.skip + 1)
  /\ UNCHANGED <<prog, macros, once, scan, why, out, failed>>

\* A group inside the skipped one: none of its parts is wanted.
SkipIf ==
  /\ Skipped({"if", "ifdef", "ifndef"})
  /\ NextLine(Append(Top.ifs, IfInfo(TRUE)), Top.skip + 1)
  /\ UNCHANGED <<prog, macros, once, scan, why, out, failed>>

SkipElse ==
  /\ Skipped({"elif", "else"})
  /\ LastIf.fulfilled /\ ~LastIf.isElse
  /\ NextLine(Top.ifs, Top.skip)
  /\ UNCHANGED <<prog, macros, once, scan, why, out, failed>>

\* No part of the group has been taken: the directive itself is read again.
SkipEndsHere ==
  /\ Skipped({"elif", "else"})
  /\ ~LastIf.fulfilled /\ ~LastIf.isElse
  /\ files' = [files EXCEPT ![Len(files)].skip = @ - 1]
  /\ UNCHANGED <<prog, macros, once, scan, why, out, failed>>

ElseAfterElse == Skipped({"elif", "else"}) /\ LastIf.isElse /\ Fail

SkipEndif ==
  /\ Skipped({"endif"})
  /\ NextLine(Front(Top.ifs), Top.skip - 1)
  /\ UNCHANGED <<prog, macros, once, scan, why, out, failed>>

SkipLine ==
  /\ Skipped({"define", "undef", "once", "include", "error", "text"})
  /\ NextLine(Top.ifs, Top.skip)
  /\ UNCHANGED <<prog, macros, once, scan, why, out, failed>>

-----------------------------------------------------------------------------
\* Text and expansion: scan_macro.

Text ==
  /\ At("text")
  /\ StartScan(Fresh(Here.toks), "text")
  /\ UNCHANGED <<prog, macros, once, files, out, failed>>

Frame == scan[Len(scan)]
Current == Frame.todo[1]
Scanning == scan # << >> /\ Frame.todo # << >> /\ ~failed
Becomes(todo, done) == scan' = [scan EXCEPT ![Len(scan)] = [@ EXCEPT !.todo = todo, !.done = done]]
Rest == UNCHANGED <<prog, macros, once, files, why, out, failed>>

\* Mutation: a function-like macro's bare name is taken for a call.
InvokedBare == Defined(macros, Current.t) /\ Current.t \notin Current.hide

\* The head names a macro and is not hidden from it; a function-like macro is
\* meant only with a parenthesis after it.
Invoked ==
  /\ Defined(macros, Current.t)
  /\ Current.t \notin Current.hide
  /\ MacroOf(macros, Current.t).param = "" \/ IsCall(Frame.todo)

\* Mutation: a macro's body is not hidden from the macro.
CopiedOpen(m, hide) == [k \in DOMAIN m.body |-> Tok(m.body[k], hide)]

\* Body tokens are hidden from the macro and from what its name was hidden from.
Copied(m, hide) == [k \in DOMAIN m.body |-> Tok(m.body[k], hide \cup {m.name})]

ExpandObject ==
  /\ Scanning /\ Invoked
  /\ LET m == MacroOf(macros, Current.t)
     IN  /\ m.param = ""
         /\ Becomes(Copied(m, Current.hide) \o Tail(Frame.todo), Frame.done)
  /\ Rest

\* extract_macro_func_args: the argument is scanned by itself.
CallMacro ==
  /\ Scanning /\ Invoked
  /\ MacroOf(macros, Current.t).param # ""
  /\ LET close == Closing(Frame.todo)
     IN  scan' = Append([scan EXCEPT ![Len(scan)].todo = SubSeq(@, close + 1, Len(@))],
                        [todo |-> SubSeq(Frame.todo, 3, close - 1), done |-> << >>,
                         macro |-> Current.t, hide |-> Current.hide])
  /\ Rest

\* The body with the expanded argument in the parameter's places.  The
\* argument's tokens keep their own hide sets.
Substituted(m, hide, arg) ==
  FlattenSeq([k \in DOMAIN m.body |-> IF m.body[k] = m.param THEN arg ELSE <<Copied(m, hide)[k]>>])

ArgumentScanned ==
  /\ scan # << >> /\ Frame.todo = << >> /\ ~failed
  /\ Frame.macro # ""
  /\ LET body == Substituted(MacroOf(macros, Frame.macro), Frame.hide, Frame.done)
         outer == SubSeq(scan, 1, Len(scan) - 1)
     IN  scan' = [outer EXCEPT ![Len(outer)].todo = body \o @]
  /\ Rest

\* defined X; not known inside an argument, which is scanned as text.
IsDefinedOp == why = "if" /\ Len(scan) = 1 /\ Current.t = "defined"

DefinedOp ==
  /\ Scanning /\ IsDefinedOp
  /\ Len(Frame.todo) > 1 /\ Frame.todo[2].t \in Names
  /\ Becomes(SubSeq(Frame.todo, 3, Len(Frame.todo)),
             Append(Frame.done, Tok(IF Defined(macros, Frame.todo[2].t) THEN "1" ELSE "0", {})))
  /\ Rest

DefinedOpMalformed ==
  /\ Scanning /\ IsDefinedOp
  /\ ~(Len(Frame.todo) > 1 /\ Frame.todo[2].t \in Names)
  /\ Fail

KeepToken ==
  /\ Scanning /\ ~Invoked /\ ~IsDefinedOp
  /\ Becomes(Tail(Frame.todo), Append(Frame.done, Current))
  /\ Rest

Scanned(for) == scan # << >> /\ Frame.macro = "" /\ Frame.todo = << >> /\ why = for /\ ~failed
Result == Plain(Frame.done)

TextScanned ==
  /\ Scanned("text")
  /\ out' = out \o Result
  /\ scan' = << >>
  /\ Onward
  /\ UNCHANGED <<prog, macros, once, why, failed>>

IfScanned ==
  /\ Scanned("if") /\ IsCondition(Result)
  /\ NextLine(Append(Top.ifs, IfInfo(Holds(Result))), IF Holds(Result) THEN 0 ELSE 1)
  /\ scan' = << >>
  /\ UNCHANGED <<prog, macros, once, why, out, failed>>

IfMalformed == Scanned("if") /\ ~IsCondition(Result) /\ Fail

-----------------------------------------------------------------------------

Directive == \/ Define \/ Undef \/ PragmaOnce \/ Include \/ IncludeMissing
             \/ ErrorDirective \/ EndOfFile
Group == \/ Ifdef \/ If \/ Elif \/ ElifPassed \/ Else \/ Endif \/ StrayDirective
         \/ SkipIf \/ SkipElse \/ SkipEndsHere \/ ElseAfterElse \/ SkipEndif \/ SkipLine
Expansion == ExpandObject \/ CallMacro \/ ArgumentScanned \/ KeepToken
Scan == \/ Text \/ DefinedOp \/ DefinedOpMalformed \/ Expansion
        \/ TextScanned \/ IfScanned \/ IfMalformed

Preprocess == Directive \/ Group \/ Scan
=============================================================================
