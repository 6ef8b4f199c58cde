------------------------------ MODULE NewQuote ------------------------------
(***************************************************************************)
(* NewQuoteViewController (NewQuoteViewController.swift): the screen on    *)
(* which the quotes of a quiz are written one after the other, with Prev,  *)
(* Next and Done buttons that the code enables and disables.               *)
(*                                                                         *)
(* The seven text fields form two groups, for the code treats them in two  *)
(* ways: "main" is the two parts of the quote and the answer, "opts" the   *)
(* four incorrect options.  A group is one text, or Blank while a field of *)
(* it is empty.  The parts of a quote travel from the fields to            *)
(* createQuote through dataDictionary, which every save fills anew, and    *)
(* incorrectOptsArray, to which every save appends; only the second can    *)
(* carry anything from one save to the next, and only it is a variable.    *)
(***************************************************************************)
EXTENDS QuizController

CONSTANTS
    AnswerTexts,  \* texts of the main group
    OptionTexts,  \* texts of the group of incorrect options
    Blank         \* the text of an empty field

ASSUME TextAssumption == Blank \notin AnswerTexts \cup OptionTexts

VARIABLES
    form,                \* the two groups of text fields
    incompleteQuote,     \* the draft set aside by Prev; a blank one for nil
    incorrectOptsArray,  \* the options collected since resetSets
    buttons              \* which buttons are enabled

newQuoteVars == <<form, incompleteQuote, incorrectOptsArray, buttons>>

Form == [main : AnswerTexts \cup {Blank}, opts : OptionTexts \cup {Blank}]

TextsOf(group) == IF group = "main" THEN AnswerTexts ELSE OptionTexts

BlankForm == [main |-> Blank, opts |-> Blank]

NoButtons == [prev |-> FALSE, next |-> FALSE, done |-> FALSE]

\* Mutated form of isDataComplete: the quote and the answer not looked at.
isDataCompleteOptions(fields) == fields.opts # Blank

\* Mutated form of isDataComplete: the incorrect options not looked at.
isDataCompleteMain(fields) == fields.main # Blank

isDataComplete(fields) == fields.main # Blank /\ fields.opts # Blank

\* Mutated form of ButtonsFor: whoever shows a saved quote enables Next.
ButtonsForNextUnchecked(cache, current, shouldEnableNext) ==
    [prev |-> canMoveToPrev(cache, current),
     next |-> shouldEnableNext,
     done |-> quizCanBeSaved(cache)]

\* updateButtonsViews, the buttons
ButtonsFor(cache, current, shouldEnableNext) ==
    [prev |-> canMoveToPrev(cache, current),
     next |-> shouldEnableNext /\ canMoveToNext(cache, current),
     done |-> quizCanBeSaved(cache)]

\* No NewQuoteViewController exists.
NewQuoteClosed ==
    /\ form = BlankForm
    /\ incompleteQuote = BlankForm
    /\ incorrectOptsArray = <<>>
    /\ buttons = NoButtons

\* The view controller is popped, and its properties go with it.
CloseNewQuote ==
    /\ form' = BlankForm
    /\ incompleteQuote' = BlankForm
    /\ incorrectOptsArray' = <<>>
    /\ buttons' = NoButtons

\* viewDidLoad, with the cache and the cursor as the last user of them left them
OpenNewQuote ==
    /\ form' = BlankForm
    /\ incompleteQuote' = BlankForm
    /\ incorrectOptsArray' = <<>>
    /\ buttons' = ButtonsFor(quotes, currentQuote, FALSE)

-----------------------------------------------------------------------------
\* textFieldEditingChanged: enables Done and Next, and never disables them.
TextFieldEditingChanged(group, text) ==
    /\ form' = [form EXCEPT ![group] = text]
    /\ buttons' = [buttons EXCEPT
            !.done = \/ @
                     \/ /\ count(quotes) = quizMinQuotes - 1
                        /\ isDataComplete(form'),
            !.next = \/ @
                     \/ /\ canMoveToNext(quotes, currentQuote)
                        /\ isDataComplete(form')]
    /\ UNCHANGED <<incompleteQuote, incorrectOptsArray, quizControllerVars,
                   quoteControllerVars>>

\* The quote is shown in the fields of the main group; the call that would fill
\* in the incorrect options has an empty body.
DisplayQuoteData(current) ==
    IF current \in DOMAIN quotes
    THEN /\ form' = [form EXCEPT !.main = storedQuotes[quotes[current]].main]
         /\ buttons' = ButtonsFor(quotes, current, TRUE)
    ELSE UNCHANGED <<form, buttons>>

PrevButtonTapped ==
    /\ buttons.prev
    /\ canMoveToPrev(quotes, currentQuote)
    /\ incompleteQuote' = form
    /\ currentQuote' = moveToPrevQuote(quotes, currentQuote)
    /\ DisplayQuoteData(currentQuote')
    /\ UNCHANGED <<incorrectOptsArray, quotes, quiz, quizQuotes,
                   quoteControllerVars>>

\* Mutated form of resetSets: the options kept.
resetSetsForgotten(options) == options

resetSets(options) == <<>>

\* saveQuote, when the data is complete: the text fields are collected and handed
\* to createQuote; the result is true whatever createQuote did.
SaveQuote ==
    /\ isDataComplete(form)
    /\ CreateQuote(form.main, Append(incorrectOptsArray, form.opts))

\* moveToNext, past the last saved quote: the quote in the fields is saved and
\* the fields are cleared for another.
SaveLatestQuote ==
    /\ buttons.next
    /\ canMoveToNext(quotes, currentQuote)
    /\ currentQuote = count(quotes) + 1
    /\ SaveQuote
    /\ currentQuote' = moveToNextQuote(quotes', currentQuote)
    /\ form' = BlankForm
    /\ buttons' = ButtonsFor(quotes', currentQuote', FALSE)
    /\ incorrectOptsArray' = resetSets(Append(incorrectOptsArray, form.opts))
    /\ UNCHANGED incompleteQuote

\* moveToNext, on the last saved quote: the draft comes back.  Prev and Done are
\* set for the cursor before the move.
ReturnToDraft ==
    /\ buttons.next
    /\ canMoveToNext(quotes, currentQuote)
    /\ currentQuote = count(quotes)
    /\ currentQuote' = moveToNextQuote(quotes, currentQuote)
    /\ form' = incompleteQuote
    /\ incompleteQuote' = BlankForm
    /\ buttons' = [ButtonsFor(quotes, currentQuote, FALSE)
                    EXCEPT !.next = isDataComplete(form')]
    /\ incorrectOptsArray' = resetSets(incorrectOptsArray)
    /\ UNCHANGED <<quotes, quiz, quizQuotes, quoteControllerVars>>

\* moveToNext, on an earlier quote
ShowNextQuote ==
    /\ buttons.next
    /\ canMoveToNext(quotes, currentQuote)
    /\ currentQuote \notin {count(quotes), count(quotes) + 1}
    /\ currentQuote' = moveToNextQuote(quotes, currentQuote)
    /\ DisplayQuoteData(currentQuote')
    /\ incorrectOptsArray' = resetSets(incorrectOptsArray)
    /\ UNCHANGED <<incompleteQuote, quotes, quiz, quizQuotes,
                   quoteControllerVars>>

\* finishCreatingQuiz: the quote in the fields is saved, whichever it is, and
\* the view controller is popped.
DoneButtonTapped ==
    /\ buttons.done
    /\ count(quotes) >= quizMinQuotes - 1
    /\ SaveQuote
    /\ UNCHANGED currentQuote
    /\ CloseNewQuote

EditQuote ==
    \/ \E group \in {"main", "opts"} : \E text \in TextsOf(group) \cup {Blank} :
            TextFieldEditingChanged(group, text)
    \/ PrevButtonTapped
    \/ SaveLatestQuote
    \/ ReturnToDraft
    \/ ShowNextQuote

NewQuoteInit == NewQuoteClosed
=============================================================================
