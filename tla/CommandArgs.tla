----------------------------- MODULE CommandArgs -----------------------------
(***************************************************************************)
(* Command arguments of vitrine (args.py, and command_arg_text of          *)
(* dispatch.py): the line of a command message becomes typed values.       *)
(*                                                                         *)
(* A text is a sequence of words and separators; a separator is a space or *)
(* a line break.  Telegram trims messages and a user may double a space.   *)
(* A conversion is taken to be one of two: text takes any token, a number  *)
(* only the words in Numbers; int and float strip their input.             *)
(***************************************************************************)
EXTENDS Lists

CONSTANTS
    Words,
    Numbers,      \* the words that convert to a number
    Space,
    LineBreak

ASSUME ArgsAssumption ==
    /\ Numbers \subseteq Words
    /\ Space # LineBreak
    /\ {Space, LineBreak} \cap Words = {}

Separators == {Space, LineBreak}

WordsOf(text) == Those(text, {i \in DOMAIN text : text[i] \in Words})

\* str.partition(" "): what is before the first space, and what is after it.
Before(text) ==
    LET spaces == {i \in DOMAIN text : text[i] = Space}
    IN IF spaces = {} THEN text ELSE SubSeq(text, 1, Min(spaces) - 1)
After(text) == SubSeq(text, Len(Before(text)) + 2, Len(text))

\* str.strip takes line breaks off too.
Strip(text) ==
    LET kept == {i \in DOMAIN text : text[i] \in Words}
    IN IF kept = {} THEN <<>> ELSE SubSeq(text, Min(kept), Max(kept))

\* command_arg_text: the text starts with the command, whose word is not in Words.
CommandArgText(message) == After(message)

\* build_arg_specs: the parameters that are arguments, the greedy one last.
Signature(params) ==
    LET specs == Those(params, {i \in DOMAIN params : params[i].arg})
    IN [ok |-> \A i \in 1 .. Len(specs) - 1 : ~specs[i].greedy, specs |-> specs]

\* _convert: does the token convert to what the parameter wants.
Converts(token, spec) ==
    spec.type = "number" => Strip(token) \in {<<w>> : w \in Numbers}

\* What a parameter gets when the line ends before it.
Default == <<>>

\* Mutant: an optional argument the line has no word for is no longer skipped.
TakeRequired(st, spec) ==
    IF ~st.ok \/ st.rest = <<>> THEN [ok |-> FALSE, values |-> st.values, rest |-> st.rest]
    ELSE IF spec.greedy THEN [ok |-> TRUE, values |-> Append(st.values, st.rest), rest |-> <<>>]
    ELSE [ok |-> Converts(Before(st.rest), spec),
          values |-> Append(st.values, Before(st.rest)),
          rest |-> Strip(After(st.rest))]

\* One round of the loop of parse_args.
Take(st, spec) ==
    IF ~st.ok \/ (st.rest = <<>> /\ spec.required)
    THEN [ok |-> FALSE, values |-> st.values, rest |-> st.rest]
    ELSE IF st.rest = <<>>
    THEN [ok |-> TRUE, values |-> Append(st.values, Default), rest |-> <<>>]
    ELSE IF spec.greedy THEN [ok |-> TRUE, values |-> Append(st.values, st.rest), rest |-> <<>>]
    ELSE [ok |-> Converts(Before(st.rest), spec),
          values |-> Append(st.values, Before(st.rest)),
          rest |-> Strip(After(st.rest))]

\* parse_args: one value per argument, or (ok = FALSE) a UsageError.
ParseArgs(specs, text) ==
    LET taken[n \in 0 .. Len(specs)] ==
            IF n = 0 THEN [ok |-> TRUE, values |-> <<>>, rest |-> Strip(text)]
            ELSE Take(taken[n - 1], specs[n])
        end == taken[Len(specs)]
    IN [ok |-> end.ok /\ end.rest = <<>>, values |-> end.values]
=============================================================================
