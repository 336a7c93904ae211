---------------------------- MODULE MCLanguage ----------------------------
(***************************************************************************)
(* The languages a page brings along, checked in one run: JavaScript from  *)
(* text to tokens, from tokens to trees and from trees to what the code    *)
(* does, the heap that it does this on, and WebAssembly. A subject is of   *)
(* one of them and grows step by step; the modules named here say how, and *)
(* what must hold.                                                         *)
(***************************************************************************)
EXTENDS Naturals

CONSTANTS MaxLexemes,                   \* of a text (MCJsLexer)
          Registers, DirectArguments,   \* of a function and of a call (JsExpressions)
          MaxEntries, MaxWords,         \* of a module and of a program (MCWasm)
          MaxObjects, MaxFrames, MaxOps, CollectsInNext, RefillsWalked   \* see JsHeap

VARIABLE subject

Texts       == INSTANCE MCJsLexer
Trees       == INSTANCE MCJsParser
Expressions == INSTANCE MCJsExpressions
Wasm        == INSTANCE MCWasm
Heap        == INSTANCE JsHeap

Init == subject = [of |-> "nothing"] \/ Heap!HeapInit
Next == Texts!TextsNext \/ Trees!ParserNext \/ Expressions!ExpressionsNext \/ Wasm!WasmNext \/ Heap!HeapNext
Spec == Init /\ [][Next]_subject

\* A program is read as it was written: its text becomes the lexemes it was written
\* with (Lexer::tokenize), and these the tree it was written from (Parser::parse).
ProgramsReadAsWritten ==
  [][\A grown \in {subject'} : Texts!LexesAsWritten(grown) /\ Trees!ParsesAsWritten(grown)]_subject
\* Compiled expressions, functions and classes have the effects that ECMAScript gives them,
\* in its order (Compiler::Impl::compile_expr and the interpreter's instructions).
EvaluatesAsWritten == [][\A grown \in {subject'} : Expressions!EvaluatesAsWritten(grown)]_subject
\* A binary module is read as it was written, or refused. A structured program calls,
\* branches, traps and returns as its structure says, and its instructions on numbers,
\* memory and tables give what they are defined to (decode, instantiate, run, invoke).
ModulesRunAsDefined ==
  [][\A grown \in {subject'} :
       Wasm!ModulesDecodeAsWritten(grown) /\ Wasm!ProgramsRunAsDefined(grown) /\ Wasm!InstructionsBehave(grown)]_subject
\* Wherever a collection strikes, it frees nothing that a frame, a native function, a job or a
\* timer still uses, and the roots they rely on are theirs (Heap::collect, mark_roots).
HeapIsSound == Heap!NothingUsedIsFreed /\ Heap!RootsAreBalanced
=============================================================================
