------------------------------- MODULE JsonParser ------------------------------
(***************************************************************************)
(* json::parse of json.hpp: the parser, which drives the lexer, and the    *)
(* json_sax_dom_parser that builds the value.  The place in                *)
(* sax_parse_internal is what it expects next; the containers that are     *)
(* open are a stack, the innermost last.                                   *)
(***************************************************************************)
EXTENDS JsonLexer

\* An object waits with the key for the value that comes next.
OpenArray == [node |-> Array(<<>>), key |-> <<>>]
OpenObject == [node |-> EmptyObject, key |-> <<>>]

\* A parser: where it is, the open containers, the root once it is there, and
\* the outcome: "running", "value", or the exception thrown and the byte that did it.
Start == [expects |-> "value", open |-> <<>>, root |-> Null, outcome |-> "running", bad |-> 0]

Throws(st, exception, token) ==
  [st EXCEPT !.outcome = exception,
             !.bad = IF token.kind \in {"parse_error", "end_of_input"} THEN token.next ELSE token.next - 1]

\* Where the parser goes when a value is complete.
AfterValue(open) ==
  IF open = <<>> THEN "end"
  ELSE IF Last(open).node.type = "array" THEN "more items" ELSE "more fields"

\* handle_value for a value that is complete.
Handle(st, v) ==
  LET top == Last(st.open)
      node == IF top.node.type = "array" THEN Array(Append(top.node.items, v))
              ELSE Inserted(top.node, top.key, v)
  IN IF st.open = <<>> THEN [st EXCEPT !.root = v, !.expects = "end"]
     ELSE [st EXCEPT !.open = Append(Front(@), [top EXCEPT !.node = node]),
                     !.expects = AfterValue(st.open)]

\* start_object and start_array, end_object and end_array.
Enter(st, container, expects) == [st EXCEPT !.open = Append(@, container), !.expects = expects]
Leave(st) == Handle([st EXCEPT !.open = Front(@)], Last(st.open).node)

key(st, token) ==
  [st EXCEPT !.open = Append(Front(@), [Last(@) EXCEPT !.key = token.value]), !.expects = "separator"]

\* The switch over last_token.
Value(st, token) ==
  CASE token.kind = "begin_object" -> Enter(st, OpenObject, "first key")
    [] token.kind = "begin_array" -> Enter(st, OpenArray, "first item")
    [] token.kind = "value_float" ->
         IF token.value.bits = Infinity THEN Throws(st, "out_of_range", token)
         ELSE Handle(st, Float(token.value.neg, token.value.bits))
    [] token.kind = "value_unsigned" -> Handle(st, Unsigned(token.value))
    [] token.kind = "value_integer" -> Handle(st, Integer(token.value))
    [] token.kind = "value_string" -> Handle(st, String(token.value))
    [] token.kind \in {"literal_true", "literal_false"} -> Handle(st, Boolean(token.kind = "literal_true"))
    [] token.kind = "literal_null" -> Handle(st, Null)
    [] OTHER -> Throws(st, "parse_error", token)

BadConsume(st, token) ==
  CASE st.expects \in {"first item", "value"} /\ token.kind = "end_array" /\ st.open # <<>>
         /\ Last(st.open).node.type = "array" -> Leave(st)
    [] st.expects \in {"first item", "value"} -> Value(st, token)
    [] st.expects = "first key" /\ token.kind = "end_object" -> Leave(st)
    [] st.expects \in {"first key", "key"} /\ token.kind = "value_string" -> key(st, token)
    [] st.expects = "separator" /\ token.kind = "name_separator" -> [st EXCEPT !.expects = "value"]
    [] st.expects = "more items" /\ token.kind = "value_separator" -> [st EXCEPT !.expects = "value"]
    [] st.expects = "more items" /\ token.kind = "end_array" -> Leave(st)
    [] st.expects = "more fields" /\ token.kind = "value_separator" -> [st EXCEPT !.expects = "key"]
    [] st.expects = "more fields" /\ token.kind = "end_object" -> Leave(st)
    [] st.expects = "end" /\ token.kind = "end_of_input" -> [st EXCEPT !.outcome = "value"]
    [] OTHER -> Throws(st, "parse_error", token)

\* One token in each place of sax_parse_internal, and the end of parse.
Consume(st, token) ==
  CASE st.expects = "first item" /\ token.kind = "end_array" -> Leave(st)
    [] st.expects = "first item" /\ token.kind # "end_array" -> Value(st, token)
    [] st.expects = "value" -> Value(st, token)
    [] st.expects = "first key" /\ token.kind = "end_object" -> Leave(st)
    [] st.expects \in {"first key", "key"} /\ token.kind = "value_string" -> key(st, token)
    [] st.expects = "separator" /\ token.kind = "name_separator" -> [st EXCEPT !.expects = "value"]
    [] st.expects = "more items" /\ token.kind = "value_separator" -> [st EXCEPT !.expects = "value"]
    [] st.expects = "more items" /\ token.kind = "end_array" -> Leave(st)
    [] st.expects = "more fields" /\ token.kind = "value_separator" -> [st EXCEPT !.expects = "key"]
    [] st.expects = "more fields" /\ token.kind = "end_object" -> Leave(st)
    [] st.expects = "end" /\ token.kind = "end_of_input" -> [st EXCEPT !.outcome = "value"]
    [] OTHER -> Throws(st, "parse_error", token)

RECURSIVE Run(_, _, _)
Run(text, token, st) ==
  IF st.outcome # "running" THEN st
  ELSE Run(text, scan(text, token.next), Consume(st, token))

\* json::parse of a whole text.
parse(text) ==
  LET start == skip_bom(text)
  IN IF start.kind = "parse_error" THEN Throws(Start, "parse_error", start)
     ELSE Run(text, scan(text, start.next), Start)

=============================================================================
