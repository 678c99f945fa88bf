SPECIFICATION RetentionSpec
CONSTANTS
    alpha = alpha
    beta = beta
    gamma = gamma
    bad = bad
    listing = listing
    rating = rating
    page = page
    Identities = {alpha, beta, gamma, bad}
    Batches <- TwoBatches
    Items = {listing, rating, page}
    Licensed = {listing, rating}
    Sufficient <- AnyItem
    Invalid = {bad}
    MaxDeliveryFaults = 0
INVARIANTS
    ExpiredIsRemoved
