------------------------------ MODULE MCSyntax ------------------------------
(***************************************************************************)
(* The files: a few kinds of tokens in any order; one sentence per         *)
(* statement and per place that the spacing rules tell apart, with tokens  *)
(* exchanged and with comments between the tokens; and files typed on      *)
(* several lines.  A file may end after any of its tokens.  The styles:    *)
(* the default one and every other value of each option.                   *)
(***************************************************************************)
EXTENDS Layout

\* No comment is on the line of a token before the first.
AnyOf(kinds, size) ==
  [i \in 1..size |-> IF i = 1 THEN kinds \ {"inline"} ELSE kinds]

\* Each token may be another.
Like(sentence, others) == [i \in DOMAIN sentence |-> {sentence[i]} \union others]

\* One token may be another.
Nearly(sentence, others) ==
  {[i \in DOMAIN sentence |-> IF i = k THEN {sentence[i]} \union others ELSE {sentence[i]}] :
     k \in DOMAIN sentence}

Annotated(sentence, comment) ==
  [i \in 1..(2 * Len(sentence)) |->
     IF i % 2 = 1 THEN {sentence[(i + 1) \div 2]} ELSE {comment}]

Single(sentence) == [i \in DOMAIN sentence |-> {sentence[i]}]

AnyOrder ==
  {<<{"return"}>> \o AnyOf({"name", "-", "^", "..", "*"}, 5),
   <<{"return"}>> \o AnyOf({"name"} \union (Unary \ {"#"})
          \union {"or", "and", "<", "|", "&", "<<", "..", "+", "*", "^"}, 3),
   AnyOf({"{", "}", "name", "=", ",", "[", "]"}, 4),
   AnyOf({"{", "}", "comment", "inline", "return"}, 5),
   AnyOf({"global", "name", "const", "<", ">", ",", "=", "*"}, 4),
   AnyOf({"function", "(", ")", ",", "end"}, 5),
   AnyOf({"do", "end", "name", "comment", "inline", ";", "(", ")"}, 4),
   AnyOf({"name", ".", ":", "(", ")", "string"}, 5)}

Arithmetic ==
  {<<{"return"}>> \o [i \in 1..4 |-> {"name", "-", "~", "^", ".."}],
   <<{"return"}>> \o [i \in 1..4 |-> {"number", "...", "not", "..", "-"}],
   <<{"return"}>> \o [i \in 1..3 |-> {"name", "number"} \union Binary \union Unary]}

Sentences ==
  {<<"if", "name", "then", "elseif", "number", "then", "name", "string", "else", "end">>,
   <<"while", "number", "do", "goto", "name", "break", "end">>,
   <<"repeat", "::", "name", "::", "::", "name", "::", "until", "not", "name">>,
   <<"for", "name", "=", "number", ",", "number", ",", "number", "do", "name", "string", "end">>,
   <<"for", "name", ",", "name", "in", "name", ",", "name", "do", "end">>,
   <<"function", "name", ".", "name", ":", "name", "(", "name", ",", "...", ")", "return",
     "end">>,
   <<"local", "function", "name", "(", "...", "name", ")", "return", "...", ";", "end">>,
   <<"local", "name", "<", "const", ">", ",", "name", "<", "const", ">", "=", "name", "name",
     "=", "number", "local", "name">>,
   <<"return", "{", "name", "=", "name", ",", "[", "string", "]", "=", "name", ";", "{", "}",
     "}">>,
   <<"name", "(", "name", ",", ")", ":", "name", "{", "}", "string", "goto", "name">>,
   <<"name", "[", "string", "]", ",", "name", "=", "function", "(", ")", "name", "string",
     "end", "name", "=", "name">>,
   <<"name", "=", "name", "[", "#", "name", "+", "number", "]", "name", "string">>,
   <<"global", "<", "const", ">", "name", ",", "name", "=", "name", "global", "*">>,
   <<"name", "=", "-", "-", "name", "^", "-", "~", "~", "name", "-", "(", "-", "number", ")">>}

Others == {"name", "number", "string", "-", "..", "{", "}", ";"}

\* Files typed on several lines.
LaidOutSentences ==
  {<<"name", "=", "name", ";", "(", "name", ")", "(", ")", ";", ";">>,
   <<"local", "name", "=", "name", "{", "name", "=", "name", ",", "name", ";", "name", "}">>,
   <<"name", "(", "string", ")", ";", "name", "(", "{", "name", "}", ")">>,
   <<"name", "string", "name", "{", "name", ",", "}", ":", "name", "(", "name", ",", ")">>,
   <<"function", "name", "(", "name", ",", "inline", "name", ")", "return", ";", "end", "name",
     "(", ")">>,
   <<"if", "name", "then", "name", "(", ")", "else", "end", "do", "end">>,
   <<"repeat", "name", "=", "name", ";", "inline", "name", "=", "name", ";", "until", "name">>,
   <<"name", "=", "{", "inline", "name", ",", "inline", "name", "comment", "}">>,
   <<"while", "name", "do", "goto", "name", "::", "name", "::", "break", ";", "end">>,
   <<"return", "{", "{", "name", "}", ",", "{", "name", "=", "-", "name", "}", ";", "}", ";">>,
   <<"name", "(", "function", "(", "name", ",", "name", ")", "return", "end", ",", "{", "}", ")">>,
   <<"name", "string", "inline", "name", "=", "name", "comment", "name", "(", ")", "inline">>}

MCLaidOut == {Single(s) : s \in LaidOutSentences}

MCSources ==
  AnyOrder \union Arithmetic \union MCLaidOut
    \union {Annotated(s, c) : s \in Sentences, c \in Comments}
    \union {Like(s, {o}) : s \in Sentences, o \in {",", "end", "function"}}
    \union UNION {Nearly(s, Others) : s \in Sentences}

\* Files with functions declared global.
MCGlobalFunctions == {AnyOf({"global", "function", "name", "(", ")", "end"}, 7)}

-----------------------------------------------------------------------------
With(option, value) == [LuaStyle EXCEPT ![option] = value]

And(style, option, value) == [style EXCEPT ![option] = value]

Switches ==
  {"space_around_table_field_list", "space_before_attribute",
   "space_before_function_open_parenthesis", "space_before_function_call_open_parenthesis",
   "space_before_closure_open_parenthesis", "space_before_open_square_bracket",
   "space_inside_function_call_parentheses", "space_inside_function_param_list_parentheses",
   "space_inside_square_brackets", "space_around_table_append_operator",
   "ignore_spaces_inside_function_call", "space_after_comma",
   "space_after_comma_in_for_statement", "space_around_logical_operator",
   "ignore_space_after_colon"}

MCStyles ==
  {LuaStyle} \union {With(o, ~LuaStyle[o]) : o \in Switches}
    \union {With("space_around_assign_operator", v) : v \in {"None", "NoSpaceAsym"}}
    \union {With("space_before_function_call_single_arg", [string |-> v, table |-> w]) :
              v, w \in {"Always", "None", "Keep"}}
    \union {With("space_before_inline_comment", [style |-> "Keep", space |-> 0]),
            With("space_around_math_operator", [other |-> TRUE, exponent |-> FALSE])}

\* The styles without blanks around operators and before comments.
MCTightStyles ==
  {With("space_around_math_operator", [other |-> FALSE, exponent |-> TRUE])}

LineSpaces(style, line) ==
  [o \in DOMAIN style |-> IF o \in LineSpaceOptions THEN line ELSE style[o]]

MCLayoutStyles ==
  {LuaStyle}
    \union {With("end_statement_with_semicolon", v) :
              v \in {"Always", "Never", "SameLine", "ReplaceWithNewline"}}
    \union {With("call_arg_parentheses", v) :
              v \in {"Always", "Remove", "RemoveStringOnly", "RemoveTableOnly"}}
    \union {And(With("table_separator_style", v), "trailing_table_separator", w) :
              v \in {"Semicolon", "OnlyKVColon", "Comma"}, w \in {"Always", "Never", "Smart"}}
    \union {LineSpaces(LuaStyle, v) : v \in {Fixed(1), AtMost(1), AtLeast(2)}}
    \union {With("break_before_braces", TRUE), With("break_all_list_when_line_exceed", TRUE),
            With("break_table_list", "Never"), With("auto_collapse_lines", TRUE),
            With("remove_call_expression_list_finish_comma", TRUE),
            And(With("auto_collapse_lines", TRUE), "break_before_braces", TRUE),
            And(With("auto_collapse_lines", TRUE), "end_statement_with_semicolon", "Never"),
            And(With("call_arg_parentheses", "Remove"), "space_before_function_call_single_arg",
                [string |-> "None", table |-> "None"]),
            And(With("call_arg_parentheses", "Remove"), "space_before_function_call_single_arg",
                [string |-> "Keep", table |-> "Keep"])}
=============================================================================
