\* Two runs of two processes on one checkout.
SPECIFICATION FairSpec
CONSTANTS
    None = None
    Requests = {r1, r2}
INVARIANT TypeOK
INVARIANT ReceiptHonest
INVARIANT AnswerHonest
INVARIANT RemovesOnlyOwn
PROPERTY DeliveryKeepsNewer
PROPERTY RequestsEnd
