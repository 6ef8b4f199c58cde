-------------------------- MODULE QuoteController --------------------------
(***************************************************************************)
(* QuoteController (QuoteController.swift): the Quote rows of the Core     *)
(* Data store, and the cache through which the quotes of one quiz are      *)
(* fetched.                                                                *)
(*                                                                         *)
(* A quote is its position in storedQuotes, the order of insertion.  A     *)
(* quiz is a positive number, NoQuiz the nil quiz, NoQuote the nil quote.  *)
(* A Swift dictionary [Int : Quote] is a function over its set of keys.    *)
(* QuoteController.currentQuote, the next key to fill, is 1 between any    *)
(* two calls (setupStart resets it before and after a fetch): it is the    *)
(* argument cursor of AllQuotesOf, and no variable.                        *)
(***************************************************************************)
EXTENDS Naturals, Sequences, FiniteSets, Functions

VARIABLES
    storedQuotes,   \* Core Data: the Quote rows, in order of insertion
    fetchedQuotes   \* QuoteController.quotes

quoteControllerVars == <<storedQuotes, fetchedQuotes>>

NoQuote == 0
NoQuiz == 0

StoredQuoteIDs == 1 .. Len(storedQuotes)

EmptyDictionary == [k \in {} |-> NoQuote]

count(dictionary) == Cardinality(DOMAIN dictionary)

\* dictionary[key] = value
Assign(dictionary, key, value) ==
    [k \in DOMAIN dictionary \cup {key} |->
        IF k = key THEN value ELSE dictionary[k]]

\* dictionary[key], nil when the key is absent
Lookup(dictionary, key) ==
    IF key \in DOMAIN dictionary THEN dictionary[key] ELSE NoQuote

\* The rows that satisfy the predicate "quizID == %@".
QuotesOf(quiz) == {q \in StoredQuoteIDs : storedQuotes[q].quizID = quiz}

\* The fetch request has no sort descriptor: any order of the rows is an answer.
FetchOrders(quiz) ==
    Bijection(1 .. Cardinality(QuotesOf(quiz)), QuotesOf(quiz))

\* The dictionaries getAllQuotesOf may return and leave in QuoteController.quotes:
\* the rows are assigned to the keys cursor, cursor + 1, ... of a cache that the
\* method itself never empties.  (When the fetch throws it returns nil and leaves
\* the cache as it was.)
AllQuotesOf(quiz, cache, cursor) ==
    LET Filled(order) ==
            LET keys == {cursor + i - 1 : i \in DOMAIN order} IN
            [k \in DOMAIN cache \cup keys |->
                IF k \in keys THEN order[k - cursor + 1] ELSE cache[k]]
    IN  {Filled(order) : order \in FetchOrders(quiz)}

QuoteControllerInit ==
    /\ storedQuotes = <<>>
    /\ fetchedQuotes = EmptyDictionary
=============================================================================
