CONSTANT Parts = 3
SPECIFICATION Spec
INVARIANTS TypeOK OutcomeIsTrue Accounted
PROPERTIES PollSeesEveryReply HandleResolves
