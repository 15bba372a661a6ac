SPECIFICATION Spec
CONSTANTS
    prompt = prompt
    clash = clash
    bypass = bypass
    q1 = q1
    Commands = {prompt, clash, bypass}
    KeyOf <- MCKeyOf
    HashOf <- MCHashOf
    Durable = {prompt, clash}
    Questions = {q1}
    NoQuestion = NoQuestion
    QuestionOf <- MCQuestionOf
    MaxDeliver = 2
    MaxFailures = 1
    MaxCrashes = 1
INVARIANTS
    ShownOnce
    OnePayloadPerKey
    FailureContinued
    SentPromptBound
PROPERTY NeverResent
CHECK_DEADLOCK FALSE
