CONSTANTS
  post = post
  after = after
  Requests = {post, after}
  Unsafe = {post}
  Chains <- MCChains
  SelfAnswers = {302, 401}
  Strays = {200}
  Meddled = {post}
  Old = Old
SPECIFICATION FairSpec
INVARIANTS
  StatusIsTrue
  BrowserIsTrue
PROPERTY RequestsEnd
